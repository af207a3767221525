# dobby: a TLA+ verification of the agent process

dobby is one C process that connects channels (terminal, HTTP, email, WhatsApp,
timers) to a language model through a message bus and a single agent worker.
The modules here model its core logic; TLC checks them on small instances and
TLAPS proves the central ones for every value of their constants. All paths
below are relative to `src/src/` of the repository.

Run from this directory, for example

    tlc -workers 2 -config MCAgent.cfg MCAgent      (a run: the cfg's module)
    tlapm AgentProofs.tla                           (the proofs of a component)

## 1. The system

    channels                    bus                        one worker
    terminal (cli/main.c) --+                        +--> session manager --+
    HTTP gateway -----------+--> inbound queue  -----+    tools, provider   | agent_chat
    email, WhatsApp --------+     (64 messages)      |    scheduler tools   |
    heartbeat, scheduler ---+                        |    sub-agent pool ---+
                                                     |
    dispatcher thread <------ outbound queue <-------+   (asynchronous channels)
    stack of the caller <---- response pair <--------+   (terminal and HTTP)

A message carries the address of a response pair when its sender waits for the
answer (terminal, HTTP); the worker then writes the answer through that
address. All other answers go to the outbound queue and the dispatcher gives
them to the `send` function of their channel.

### Components, their state and what makes them correct

**Agent loop** (`agent/agent.c`). State: the array of messages of one
conversation. `agent_chat` adds the user message, calls the provider, runs the
tools it asks for one after another, and repeats up to `max_iterations` times;
`agent_add_message` compacts the array first when it is full; every error exit
rolls the array back. Hard: compaction in the middle of a turn moves everything
that was remembered by position. Correct when the array never overflows, the
system prompt stays the first message, the provider sees every request for
tools with its results, and a failed turn takes nothing away from earlier ones.

**Bus** (`bus/bus.c`). Two rings with a mutex and two condition variables each,
and a flag for the shutdown that is read and written without the mutex; many
producers, one consumer. Hard: lost wakeups, several waiters woken for one
place, the flag changing between two tests of one call. Correct when each is a
bounded FIFO queue that loses and repeats nothing and lets everybody go when it
is shut down.

**Response pairs** (`bus/bus.c`, `bus/bus.h`). A mutex, a condition, a flag and
the answer, on the stack of the thread that waits. Hard: the worker holds an
address in somebody else's stack. Correct when that frame is still alive, is
the one of the request, and the answer is the answer to it.

**Agent worker and dispatcher** (`bus/agent_worker.c`, `channels/channel.c`).
One thread each. `worker_stop` shuts the bus down and joins both. Hard: both
queues full, the shutdown with messages on their way.

**HTTP gateway** (`gateway/gateway.c`). A listener, a semaphore of
`GATEWAY_MAX_THREADS` slots, a detached thread per connection. Hard: slots on
the error paths; a request that arrives during the shutdown.

**Main thread** (`cli/main.c`). Boot, the terminal or `pause()`, `cleanup()` in
a fixed order. Hard: signals, and freeing what other threads still use.

**Sessions** (`session/session.c`). An open-addressing table from chat to
history, searched with linear probing; a stale slot is evicted when the table
is full. Hard: eviction makes holes in the probe sequences of other chats.
Correct when a chat has one session and a session one chat.

**Sub-agent pool** (`tools/subagent/subagent.c`). Eight slots, a thread per
sub-agent, a detached watchdog per sub-agent that cancels it at its deadline, a
mutex. Hard: a worker may be cancelled anywhere, is joined under the mutex it
may need, and the slot is reused.

**Scheduler** (`tools/scheduler/scheduler.c`). A table of 64 tasks, a thread
that injects due tasks into the bus, tools that add, list, pause and delete,
and `jobs.json`. Hard: the thread releases the mutex in the middle of its scan,
publishing may block, the process may stop between two writes.

**Email channel and allowlist** (`channels/email/`, `tools/email/`,
`security/allowlist.c`). A poll thread, `last_uid`, the headers of the last mail
fetched, rules shared without a lock with the commands that change them and
rewrite `allowlist.conf`. Hard: mail that is reported again or fetched in vain,
rules that change between question and use, restarts. Correct when a mail is
processed, and once, nothing is sent where no rule allowed it since the sending began,
and the rules survive.

**WhatsApp channel** (`channels/whatsapp/`). One socket, three writers, a
receiver that closes and reopens it. Hard: the descriptor changes under a
sender. Correct when frames arrive whole.

**Memory and history** (`memory/md_memory.c`, `history/history.c`). `MEMORY.md` is
read, changed as text and written through a temporary file; `HISTORY.md` is
appended to. Hard: concurrent tools, failing writes, crashes. Correct when the
file behaves like a map of facts.

**Serial and shell tools** (`tools/serial/`, `tools/shell/`). An exchange with
something that answers late, twice or never, under a deadline; no lock keeps two
threads from one port. Correct when an output belongs to its command, is complete, and
the call returns.

**Main thread, status line, configuration** (`cli/main.c`, `ux/typing.c`,
`core/config.c`). Boot in a fixed order with the worker already running from its
middle on; settings from four sources; a spinner thread that shares the terminal
with readline.

**Providers, skills, tool registry** (`providers/`, `tools/skills/`,
`agent/tool_registry.c`). Conversions: a reply of the service to a text or calls, a
directory to a prompt; a table that grows during boot.

**Heartbeat, slash commands, file tool, JSON, strings, logging.** A timer, tables,
conversions and input/output.

`PROJECT.json` lists each with its status, and under `hazards` the lines where
the hard behaviours bite with the properties that cover them.

## 2. The modules

| module | models | proved |
|---|---|---|
| `Agent` | agent loop, history, compaction, rollback | `AgentProofs` |
| `BoundedFifo` | abstract: what `bus.h` promises of a queue | |
| `BusQueue` | detailed: `q_push`, `q_pop`, `bus_shutdown` | `BusQueueProofs` (refines `BoundedFifo`) |
| `Messaging` | worker, dispatcher, gateway, pairs, terminal, injecting threads, signals, `cleanup()` over two queues | `MessagingProofs` |
| `Session` | session table and the worker around it | `SessionProofs` |
| `SubagentPool` | slots, workers, watchdogs, destruction | `SubagentPoolProofs` |
| `Scheduler` | thread, tools, `jobs.json`, crash and restart | `SchedulerProofs` |
| `FactMap` | abstract: what the memory tools promise | |
| `Memory` | detailed: `MEMORY.md`, `HISTORY.md`, migration, crash and restart (refines `FactMap`) | `ProcessProofs` |
| `Allowlist` | rules, their file, loading and rewriting it (operators) | |
| `Mail` | email channel, its tool, the commands on the rules; uses `Allowlist` | `ProcessProofs` |
| `Serial`, `Shell`, `WhatsApp` | the three tools with the world they act on | |
| `Tools` | composes the three, one of them in each behaviour | `ToolsProofs` |
| `Config` | settings and the choice of the provider (operators) | |
| `Provider` | replies of the two providers (operators) | |
| `Skills` | seeding, scanning and the prompt of skills (operators) | |
| `StatusLine` | spinner thread and readline | |
| `Main` | boot, REPL, signals, template agent; composes the four above with the worker | `ProcessProofs` |

`ProcessProofs` extends `Mail`, `Memory` and `Main`, which share no name; its theorems are
each about one of the three.

`MC*.tla` give TLC sets and model values where a cfg cannot write them.

How they compose. `Messaging` is the system-level module: it uses queues with
the behaviour of `BoundedFifo`, which `BusQueue` is shown to implement, and a
turn of the agent is one step there, because `Agent` shows that a turn ends
(`TurnEnds`). `Session` and `Scheduler` contain the part of the worker they
interact with.

### Agent

`messages` is the array, one record per message: role, the turn and iteration
it belongs to and, for a request, the number of calls. Text and names are left
out: no control depends on them. `BeginTurn` is `agent_chat` up to its loop,
`CallProvider` one pass of the loop's head, `ProviderError`,
`ProviderToolCalls`, `ProviderFinal` the three kinds of answer, `ExecuteTool`
one result, `NextIteration` the end of the body, `MaxIterationsReached` the
exit of the loop, `EmptyMessage` the early return, `NewConversation` the
`/new` command. `agent_add_message` and `agent_compact_history` are operators
with the code's bounds: the quarter that is removed, the walk back from a
request, the prompt that is kept. Each provider outcome is a free choice, with
up to `MaxCalls` calls.

### BusQueue and BoundedFifo

One step per read of the flag, test, wait and wakeup; a spurious wakeup may
happen (`MaxSpurious` bounds them), signals wake any one waiter, broadcasts all.
The flag changes under `ShutdownFlag` with no lock. `BoundedFifo` has a queue,
what was delivered and refused, and three phases: open, closing (a push may go
either way) and closed (every push is refused). `ImplementsFifo` maps the ring to
the sequence read from its head.

### Messaging

Queues are sequences of bounded length. A connection has a stack, and stacks
are used again: the response pair is a record per stack, so an answer that
comes late would hit somebody else's pair. `freed` and `touched` record what
`cleanup()` has freed and what was used afterwards. `CleanupOrder` is the order
of the calls in `cleanup()`, `todo` the set of what is still to be taken down;
`Upcoming` picks the first of them in that order. Handlers that neither wait nor publish are one action,
`ConnOther`. Whether accepting or creating a thread fails is a free choice.

### Session

`Hash` is a constant function, any function: the collisions are chosen, not
computed. A session is the set of chats whose messages are in its history.
Time advances in steps and is bounded by `MaxTime`. The factory that makes an
agent may fail.

### SubagentPool

`pc` follows the caller of `spawn_subagent` and each worker; a cancelled worker
ends at a cancellation point, with whatever it holds. A watchdog is asleep
until it fires at any later time, at most `MaxTimeouts` of them. Destruction
may come at any point, and sub-agents call `spawn_subagent` like everybody else:
the code gives them the registry that holds it. So a `pthread_join` can come back
before the thread has ended: with EDEADLK when a sub-agent past its deadline evicts
its own slot, with EINVAL when the destroyer and an eviction join the same thread; and
a sub-agent spawned during the destruction, in a slot the destroyer has passed or
waits at, is joined by nobody. `strays` remembers these workers. `SlotOutlivesThread`
and `WorkersGoneBeforeFree` say that they are the only ones that write into a
slot given to somebody else or outlive the pool; that there are any is
`EveryThreadJoined`, refuted in section 5. What a stray does with freed memory (its
agent, its pool) is left open: no step of the model follows it there.

### Scheduler

The thread is followed from sample to lock, scan, publish and relock. A tool
call locks, changes the table and saves it in two steps, opening (which
truncates) and writing; the opening may fail. A crash is possible at every
step, and a restart loads what the file holds. The results of `fputs` and `fclose` are
not looked at: a write may leave a part, which does not parse, and the call reports
success all the same. A sub-agent may be cancelled in any of the three (`Cancel`, by the
watchdog of the pool), and is then gone with the mutex. Ids, time and crashes are
bounded. `unsaved` remembers that the last save did not write its file as a whole; it
serves the properties only. `Saved` and `NextId`, loops in the code, are stated by
what they end with: sets with one element, the active tasks in the order of the
table and the number above all ids read.

### Memory and FactMap

A file is a sequence of lines, classified as the code classifies them: heading,
bullet, other text, a last line without newline (the shipped template ends with
one). `memory_store` is followed from lock to read, write of the temporary file,
rename and unlock; each of the file operations may fail and the process may stop
anywhere. A sub-agent that runs a tool may be cancelled by its watchdog while it reads the
file or writes the temporary one (`Cancel`): it is then gone with the mutex, which nobody
gives back. Boot seeds, fills and migrates. `FactMap` knows facts and calls:
`ImplementsMap` maps a section and key to the value of its bullet (`bullet_value`), so
the refinement is about the text algorithm as much as about the lock. `memory_recall`
answers with what a buffer of 512 bytes holds of that value (`Clip`), in the code, in the
model and in the map. The last section is excepted, because the migration of legacy files writes there. `ScanLine` is
the body of the loop over the lines, `ScanStart` its flags before the first, and `Scan`
the loop, a recursive function of the number of lines read. `FactsFit` names the texts of
which the refinement is said (no colon in a key, values of one line that fit a bullet, no
short write, a template with all headings before its line without newline and without
bullets, no heading of a durable section in the other files), `BelowCap` the size up to
which the file is read.

### Mail and Allowlist

The server lists every unseen mail in every search; a mail is a UID with a sender
and parts. The poll thread takes the steps search, next, fetch, check (one rule
at a time: nothing locks them), publish, and `Processed` moves `last_uid`. The list of
UIDs is cut by `strtok`, whose place belongs to the whole process: `SkillsReload`
uses it too and makes the poll thread lose the rest of its list, until the next search.
Replies use the headers of the last mail fetched.

`sender` has a record per thread that sends: the dispatcher with `email_send`, and the
tools (`Tools`, any threads; `/email send` is one more of them) with the question
`email_channel_is_allowed` (`SendAsk`), then `email_channel_send_direct`. The check walks
the table one rule at a time (`SendCheck`), as that of the poll thread does, and the
sending is a later step (`smtp_send`); `allowed` remembers whether the rules allowed the
address at some moment since the call began, `stale` whether the check read a freed
pattern, which may match anything.

`/email allow` and `deny` change the table in steps, then rewrite one section of the
file: opening empties it, and what is written may be cut short (`Torn`) without anybody
noticing, by a full disk or by a crash at any point. A pattern with commas is one rule in
memory and several in the file (`Split`, `Tokens`). `saved` is what the user is told. A line of
the file holds `LINE_RULES` rules, the table `MAX_RULES` (1024 bytes and 256 in the code,
`Fits`). Constants switch single assumptions (`Ordered`, `FetchFails`), so that section 5
can say which one a property depends on.

### Serial, Shell, WhatsApp and Tools

The device, the command and the bridge are external and as free as their
protocols allow: a stream may be cut into any chunks and be arbitrarily late.
`Serial` follows the login and each command against `wire`, what the device has
printed and the tool has not read; each token knows which line it answers, which
is what `OwnOutput` needs. An output may contain the text of the prompt (`Answers`). Nothing
locks the port, so a call of another thread may type a line of its own or take what has
arrived at any moment (`OtherTypes`, `OtherTakes`), as a line typed before the call may.
`quiet` remembers that none of that has happened to the call; it serves the properties
only. A write, with the `tcdrain` that ends it, need not end.

`Shell` follows pieces of output, text or zero bytes, through the pipe: a read takes any
number of them, and `strbuf_append` keeps of a chunk what precedes its first zero byte
(`ReadChunk`, `Before`). The command may write for ever. `clear` counts the text before the
first zero byte, `owed` what of it was printed before the exit. `WhatsApp` follows each
thread through `send_line`, two writes under a lock, and knows what the number of the
descriptor stands for. Sub-agents run tools in threads of their own. What two calls of one
tool share (the port, the terminal, the socket) is in the module of the tool; two
different tools have no state in common, so `Tools` explores one of them in each
behaviour.

### Main, Config, Provider, Skills, StatusLine

`main` is the program counter of the main thread: one step per step of `boot()`,
then the REPL. Texts are `[text, quoted]`, since quotes are stripped in `.env` and
kept in `dobby.conf`. The template agent is a sequence of named parts with the
version of the memory they show; a session copies it part by part. `files`,
`settings` and `ws` are forgotten when boot has used them, as the code does.
`setenv` does not overwrite, so a variable that is empty in the shell keeps that of
`.env` out (`Masked`); what is empty then counts as unset.
An `imap_url` and an address are taken to be configured together. `Provider`
turns each of `Replies` into what the code makes of it, for both services, null
pointers included; `WorkerDies` is what those do to the process. After boot the table
of skills is only printed, so `/skills reload` changes no state of the model.
`StatusLine` has the test of the spinner, the drawing and the join as steps of
their own.

## 3. The runs

Bounds are the smallest with which the interesting case happens, which the
mutants of `PROJECT.json` confirm: each property fails under its run's bounds
when a plausible bug is put into the code it is about.

| run | shows | bounds and why |
|---|---|---|
| `agent` | history fits, system first, requests of the turn answered, rollback keeps earlier turns, a turn ends | 12 messages, 4 turns, 3 iterations, 3 calls: compaction falls at every place of a turn and of a group of results. Smaller limits are left to the theorem |
| `bus` | refinement of the FIFO queue, a blocked publisher gets in, shutdown releases everybody | 3 producers, 1 consumer (the code has one per queue), depth 2, 2 messages each: two waiters for one place, wrap-around, a spurious wakeup |
| `messaging` | slots accounted, pairs alive, own answer, at any time of the shutdown | 3 connections over 2 stacks and 2 slots, the terminal, one channel without a receiver: a stack is used again while an old request is queued |
| `messaging_live` | an accepted HTTP request and injected messages are answered, `worker_stop` returns, channels gone before the bus is freed | depth 1, one HTTP connection, an email channel with 2 messages: one fills the outbound queue, the worker waits with the other, the request fills the inbound queue |
| `session` | one session per chat, no mixing, justified refusals | 5 chats, 3 slots, colliding hashes: holes by eviction in a probe sequence |
| `subagents` | slot outlives thread, only overdue cancelled, workers gone before the pool is freed (both but for workers given up without a join), running never evicted | 3 ids over 2 slots, 1 timeout, sub-agents that spawn, the end at any point: eviction, reuse of the slot, a late watchdog, strays of each kind |
| `scheduler` | unique ids, current file, the reply names the right task | 2 tasks, a worker and a sub-agent calling, one crash: a full table, a deletion between a call and its reply, a restart with a gap in the ids |
| `scheduler_live` | tools return, due tasks fire, unless a cancelled sub-agent took the mutex with it | queue of depth 1, so the thread blocks; 2 tasks due in one scan |
| `memory` | `MEMORY.md` is an atomic map, the mutex is given back | two sub-agents, of which the worker is one that is never cancelled, 2 keys, a value longer than the buffer, 2 calls, 2 starts, 2 days, the shipped template; the two are symmetric: two stores meet, a crash or a cancellation falls between any two file operations |
| `mail` | processed, once, sent only where a rule allowed it during the call, rules survive a restart | 2 mails, 2 commands, 1 sending by the dispatcher or a tool, 1 restart, a fetch that fails; a rule with a comma, writes that are cut short; no file, the shipped one and one with `[email]` between other sections |
| `tools` | own output, in step with the login, complete output, whole frames, calls return, but for a port that takes nothing and a pipe that is kept filled | 1 call of up to 2 commands on a device that prints unasked and may have been typed at before, 1 line or read of another thread at any moment, wrong passwords and missing profiles; 2 shell calls, 3 pieces counted, against a pipe of 2; 2 connections that may break, a frame per sender. Two calls in a row differ from one only in what is left on the line, which the babble and the other thread put there |
| `main` | spinner and readline exclude each other, the documented order of settings (unless the shell masks `.env`) | 48 starts from 4 shells, 4 `.env` and 3 `dobby.conf`, and two with `--no-cli` or `--no-http`; 2 lines, 2 signals, 2 iterations, one message of another channel, 10 kinds of reply |

Type invariants (`TypeOK`) are stated in every module. Those of `Agent`, `BusQueue`,
`Session`, `Messaging`, `SubagentPool`, `Scheduler` and `Shell` are proved, that of
`Serial` for a `PlainDevice`; none is among the runs, which are kept for what could
really fail. `CountIsExact` of `Session` is proved and no longer a run either.

`CHECK_DEADLOCK FALSE` stands where the process ends, where the bounds run out, or
where a cancelled sub-agent may leave a mutex locked, and nowhere else.

## 4. Fairness

* Agent: only the steps inside a turn are fair; the provider's call and each tool
  are assumed to return (curl has a timeout; a tool may block for long, but that
  is outside the loop). Nobody has to send a message.
* BusQueue: each thread that can run runs (weak fairness, the scheduling of the
  operating system). No spurious wakeup and no call of `bus_shutdown` is assumed,
  only that a call that has begun goes on.
* Messaging: each thread runs, turns end. No client, user, timer or signal has to
  act. A finished process takes no steps.
* SubagentPool: threads run and turns end; deadlines and destruction are not
  assumed.
* Scheduler: strong fairness for those that take the mutex. The thread sleeps
  for a second without it in every round, and callers do not hold it in a loop,
  so each that waits gets it. No sub-agent has to be cancelled.
* Mail: the poll thread runs (it sleeps between polls and curl has a timeout). No
  mail, command, sending or restart is assumed.
* Tools: the thread of the tool runs and the monotonic clock reaches every deadline.
  The device, the command and the bridge need not do anything. No write to the
  port has to end (`tcdrain` waits without a deadline, `serial_tool.c:393`), and a command
  may fill the pipe for ever.
* Memory and Main state no liveness.

## 5. Where code and text disagree

The runs of section 3 are what holds. Beside them the modules state what comments
and documents of the repository say where the code does otherwise; the comment
above each such property quotes the sentence. TLC finds each of the following
violated. None of them is among the runs.

With a configuration of its own (`tlc -config <cfg> <module>`):

| cfg | property | sentence | what happens |
|---|---|---|---|
| `MCAgentPairs` | `CompactionKeepsPairs` | `agent.c:13` compaction never splits a request from its results | the walk back looks at the last removed message only; when that is a result in the middle of a group, the request goes and the rest stays |
| `MCMessagingCleanup` | `CleanupCompletes` | `gateway.h:53` graceful shutdown | a publish that is refused is waited for; the slots run out and the listener cannot be joined |
| `MCSubagentPoolBlock` | `SpawnReturns` | `subagent.h:12` does not block | eviction joins, with the mutex held, a worker that waits for the mutex |
| `MCSubagentPoolNested` | `EveryThreadJoined` | `subagent.c:134` thread already joined, `subagent.h:101` join them | a sub-agent past its deadline evicts its own slot, the join fails and the agent it runs is freed; one spawned during the destruction outlives the pool |
| `MCSubagentPoolTimeout` | `TimeoutStays` | `subagent.h:24` timeout means a passed deadline | a worker just finishing overwrites it |
| `MCMemoryHistory` | `HistoryAppendOnly` | `history.h:7` append-only, never modified or deleted | the migration at the next start takes `HISTORY.md` for a legacy memory file, stores it as a note and deletes it, even when storing failed |
| `MCMemoryNotes` | `FactsNeverForgotten` | repository `README.md:19` memory survives restarts | when that migration finds its note of an earlier start it replaces the one line, and the headings of the old text now stand between a fact and its section |
| `MCMailThread` | `ReplyIsThreaded` | comment at the property | subject and headers of a reply are those of the last mail fetched (`email_channel.c:486`) |

By other constants or another property in an existing configuration:

| module, constants | property | what happens |
|---|---|---|
| `Agent`, as `MCAgentPairs`, `MaxTurns = 2` | `NoUnansweredRequests` (`agent.c:469`) | `pre_turn_count` is older than the compaction, so the rollback takes too little |
| the same, `MaxTurns = 1` | `UserMessageSent` (`agent.c:5`) | a long turn compacts its own user message away |
| `Messaging`, as `MCMessagingCleanup`, `no_cli = {TRUE}` | `SignalIsNoticed` (`main.c:174`) | a signal between the test and `pause()` is not noticed |
| `Messaging`, as `MCMessagingCleanup`, `Features <- OnlyHeartbeat` | `BusNotUsedAfterFree` (`main.c:174`, `main.c:797`) | the bus is freed before heartbeat, scheduler and gateway stop |
| `Session`, as `MCSession` | `IdleSessionsEvicted` (`session.h:5`) | only a full table evicts |
| `SubagentPool`, 1 slot, 2 ids, 1 timeout | `CancelledCleanly` (`subagent.c:12`), `PoolNotUsedAfterFree` (`subagent.h:101`) | the log line under the mutex is a cancellation point; detached watchdogs wake after the pool is gone |
| `Scheduler`, as `MCScheduler` | `RestartKeepsTasks` (`scheduler.c:291`, persisted tasks are restored) | the file is truncated before it is written |
| `Scheduler`, as `MCScheduler` | `MutexNotLost` (`subagent.c:11`, the cancellation fires inside the provider call) | a sub-agent is cancelled in `save_jobs` with the mutex held; no tool of the scheduler returns any more and no task fires |
| `Memory`, as `MCMemory` | `MutexNotLost` (`subagent.c:11`) | a sub-agent is cancelled in `memory_store` or `memory_recall` with the mutex held |
| `Memory`, as `MCMemory` | `RecalledWhole` (`md_memory.c:311`, returns the value for a key) | a value of 512 characters or more is recalled without its end |
| `Memory`, `Keys <- OneKey` | `HistoryNotInContext` (`history.h:9`) | the same migration puts the history into `MEMORY.md` |
| `Memory`, `Categories <- NameOnly` with `MAX_FILE_SIZE = 9`, `DiskFull = TRUE` or `LongValues <- Long` | `FactsNeverForgotten` | the rest of a file above the cap, a short write that is renamed into place, or a value longer than a bullet |
| `Memory`, `ColonKeys <- ColonKey` | `OneBulletPerKey` | a key with a colon is never found again |
| `Memory`, `Legacy <- OneLegacy`, `MaxBoots = 1` | `LegacyTextKept` | the legacy file is deleted although its text could not be stored |
| `Mail`, as `MCMailThread` | `SeenStaysSeen` (`MaxRestarts = 1`); `AllowedMailPublished` (`FetchFails = TRUE`); `PlainTextDelivered` (`Mails <- Folded`); `NoFreedPattern` (`MaxCommands = 1`) | see the comments at the properties |
| `Mail`, as `MCMailThread`, `MailFairSpec`, `Ordered = FALSE` | `MailIsProcessed`, which holds in the run `mail` | with a server that does not list UIDs in order, `last_uid` passes over mail not yet fetched |
| `Mail`, as `MCMailThread`, `Files <- TwoRules`, `MaxCommands = 1` | `CheckAgrees` | a deny shifts the table while the poll thread, without a lock, walks through it |
| `Mail`, as `MCMail` | `SentWhileAllowed` (`email_channel.c:672`, refuse to send to addresses not in the list) | the rule is denied between the check and `smtp_send` |
| `Mail`, as `MCMail` | `SavedRulesPersist` (`ARCHITECTURE.html`, persists to `allowlist.conf`) | the file is emptied, then a crash or a full disk cuts the text short and the save is still reported as done; a rule with a comma comes back as two; a list longer than the line is cut |
| `Mail`, as `MCMail` without `Fitting`, with `Patterns = {"a", "*"}` and `Files <- HiddenHeader` or `Files <- HiddenLater` | `RestartKeepsRules` | the rules file is rewritten by a line-based scan: a header right after a comment is lost with its rules, also when the comment is a mere mention of `[email]` that becomes the start of the section after the last rule was denied |
| `Tools`, as `MCTools` | `AllCommandsRun`, `AuthFirst`, `NoStrayWrite`, `FreedWhenUnused` | see the comments at the properties |
| `Tools`, as `MCTools` | `AlwaysOwnOutput` (`serial_tool.c:11`), `AlwaysInPlace` | another thread uses the port, for which there is no lock; an output holds the text of the prompt and the rest of it is the output of the next command; an answer comes after the deadline of its own command |
| `Tools`, as `MCTools` | `EveryCallReturns` (`serial_tool.c:7`, explicit deadline on every op) | `tcdrain` waits for a port that takes nothing |
| `Tools`, as `MCTools` | `EveryShellReturns` (`shell_tool.c:8`, hard wall-clock deadline) | the read loop does not look at the clock while there is something to read |
| `Tools`, as `MCTools` | `AllOutputKept` | `strbuf_append` ends at the first zero byte of a chunk (`types.c:55`) |
| `Tools`, with `LineEnds = 2` or `Colour = TRUE` | `OwnOutput` | the device takes CR LF for two lines and prompts twice, or the escape sequences around its prompt hide or fake it |
| `Tools`, with `Banner <- BannerHash` | `InStep` | a `#` in the banner is taken for the prompt |
| `Tools`, with `Background = TRUE` | `TtyClean` (`shell_tool.c:233`), `KilledIsGone` (`shell_tool.c:197`) | a turn of another channel restores the terminal while readline reads; only the shell is killed, not what it started in the background |
| `Tools`, with `Messages <- TwoMessages` | `WholeFramesHandled` | the half frame a broken connection left is put before the first of the next |
| `Tools`, with `Http = FALSE` | `ProcessSurvives` | SIGPIPE is ignored only by the gateway (`gateway.c:408`) |
| `WhatsApp` alone, `WaFairSpec`, `MaxConns = 1` | `DestroyReturns` | a connection made after `running` was cleared is read until the bridge ends it |
| `Main`, as `MCMain` | `NoFreedMessage` (`typing.c:63`), `CtrlDExits` (`main.c:180`), `NewConversationResets` (help of `/new`), `MemoryReachesCli` (`main.c:227`), `PromptsComplete` (`main.c:585`), `SessionPromptIntact` (`main.c:251`), `ToolsComplete`, `JoinsOnlyStarted` | the worker runs from the middle of boot on, and the terminal has a session of its own that copies the template once |
| `Main`, as `MCMain` | `MaskedPriority` (`dobby.conf:13`, `config.c:15`) | a variable that is empty in the shell, as `docker-compose.yml:42` sets `API_URL` and `API_KEY`, keeps `.env` out (`setenv` does not overwrite) and then counts as unset, so `dobby.conf` beats `.env` |
| `Main`, `Inputs <- WithFlag` | `LogLevelPriority` (`main.c:359`, `main.c:391`) | the environment is asked before the command line |
| `Main`, as `MCMain` | `ToolsRunAsAsked` (`ollama.c:93`), `RepliesSurvived` | garbled arguments are executed as empty ones; an empty reply is copied from a null pointer (`agent.c:464`), a call without a name is searched for |
| `Main`, as `MCMain` | `UnavailableSkillsListed` (`skills.h:24`) | a skill that is always loaded and lacks a requirement is in neither section |

The other side of `MCSubagentPoolBlock`: with `FairSpec` and `MaxTimeouts = 0`, that is
without deadlines, `SpawnReturns` holds.

Read off the code without a property: a full configuration table ignores new
values of keys it has (`config.c:138`); `/usage` and `/status` count the messages of
the template agent; the skills prompt names `read_file`, the tool is `file_read`;
the second `registry_detect` in `boot()` (`main.c:507`) is never reached; the
requirements of the bundled github and weather skills stand in keys the parser ignores.

## 6. What is proved

The theorems hold for every value of the constants that satisfies the
assumptions declared beside them.

**AgentProofs** (`AgentAssumption`: the array has room for two messages;
`max_messages` is any integer, as in the configuration). `HistoryFits` alone
is not inductive, for two reasons. The bound depends on what compaction
removes, so `CutEndBounds` and `CompactShifts` first show that a compaction keeps
the prompt, removes at least one other message and moves the rest by one
distance. And the other properties remember positions across it. `IInv` adds:
in a turn the history is not empty (`Started`), the prompt requests no tools
(`SystemAsksNothing`), messages of earlier turns lie below `pre_turn_count`
(`EarlierBelow`: compaction only moves messages down, which is why the stale
count is still safe for them), and behind a request of this turn stand exactly
the results obtained so far (`AnsweredSoFar`). `HistoryAlwaysFits`,
`SystemAlwaysFirst`, `RequestsAlwaysAnswered`, `RollbackSafe` and `TypeCorrect`
follow.

**BusQueueProofs** (`BusAssumption`: positive depth, threads either produce or
consume). `IInv` adds that the lock belongs to the thread in its critical
section (`MutexInv`), that producers push and consumers pop (`RolesInv`), that
the occupied slots run from head to tail and hold messages (`RingInv`), and
that what a thread learnt from a test still holds when it acts on it although
the flag may have changed (`FlagInv`). The third is what the mapping needs: with
`RingStore` and `RingTake`, storing appends and taking removes the head of
`Contents`. `RingImplementsFifo` maps every step to a step of `BoundedFifo` or a
stutter.

**SessionProofs** (`SessionAssumption`: at least one slot, any hash).
The table is `Good` when no key occurs twice and histories belong to their
key; with the count and the session the worker holds this is inductive, since a
new session is only made after the whole table was searched. The proof does not
use any property of the hash: probing covers the table.

**MessagingProofs** (`MessagingAssumption`: at least as many stacks as slots,
finitely many connections, `None` is none of the names). The invariant adds that the
worker and the dispatcher have a message exactly while they work on one (`Holding`);
that a connection has a stack of its own from accept to end (`StacksOwned`); that a
request in the queue or with the worker names the pair of a caller that still
waits, has no answer yet and is named by no other request, and that an answer in a
pair is its owner's (`PairsAwaited`); and that what `cleanup()` is done with has ended
(`TakenDown`). `PairOutlivesRequest` and the action property `OwnAnswer` follow from
the third, although stacks are used again: a caller leaves its frame only when its
request was answered or refused. `SlotsAccounted` counts the connections with a stack,
and is inductive with `StacksOwned`. `BusOutlivesChannels` follows from `TakenDown`,
where the order of `cleanup()` enters through `CleanupOrder` alone.

**SubagentPoolProofs** (`SubagentAssumption`: at least one slot, `None` is no thread
and no outcome). Two invariants. `PoolInv`: a thread in
`alloc_slot` has the mutex (`Locked`), an id is given out once and the thread of a
slot is that of its id (`IdsFresh`), so is a watchdog (`WatchdogsFresh`); `TypeOK` and
`CancelledOnlyOverdue` follow. `SlotInv`, relative to it: the callers outside the pool
are gone when it is destroyed (`CallersGone`), the slot being evicted is a finished one
and then an idle one (`TargetKept`), a worker that has not ended is the thread of its
slot or a stray (`HomeKept`), a handle is that of a thread started in its slot
(`HandleKept`), behind the destroyer there are handles of strays only (`JoinedBehind`),
and before the first cancellation the slot of a live worker says running, so that
nobody evicts itself (`FirstCancelled`). Sub-agents may spawn throughout: the theorems
have no hypothesis beyond the assumption.

**SchedulerProofs** (`SchedulerAssumption`: room for a task, positive intervals, the
worker is no sub-agent). The ids of the table are below `next_id` (`IdsBelow`) and those
of the file unique (`FileIdsUnique`), so a restart may load any file a crash has left.
`FileCurrent` is inductive with the types: every action that changes what is saved
leads to a save, what the thread changes (`last_run`) is not saved, and a save that fails,
is cut short or is cancelled says so (`unsaved`). `ReplyNamesTask`
needs that the slot a caller points at keeps its id until the reply (`SlotKept`):
nothing moves in the table. `SavedIsOne` and `NextIdIsOne` are about the operators: the
sets that state what the loops of `save_jobs` and `load_jobs` end with have one element
for every table and file, which takes an induction, made as an argument about the
least counterexample (`First`).

**ProcessProofs**, `Mail` (`MailAssumption`; any mail, rules and file). What was published
is not above `last_uid` (`PublishedBelow`), and the mail that `process_uid` works on is
(`UidNew`); so nothing is published twice, also when the server lists the UIDs in any
order (which loses mail, section 5).

**ProcessProofs**, what is sent. `SentIsAllowed` is about a check that reads the table rule
by rule while the main thread shifts it, and a sending that comes later. What makes it
true is that a check only lets pass on a rule that is in the table at that moment, and that
`allowed` follows every change of the table (`Knows`, `SendInv`): a rule that is removed
after it was read allowed the address during the call. It is lost when the second question
is left out (`email_channel_send_direct_once`), and the stronger sentence of the code, that
the address is allowed while the mail goes out, is refuted (section 5). What a freed pattern
matches is excepted.

**ProcessProofs**, the rules and their file. `RestartKeepsRules` has the hypothesis
`RulesFit`: the files the process may find are `WellFormed`. The property itself says when
rules are promised to survive: the list fits the line that is read back, without
commas inside a rule (`Fits`), and no write was cut short (`torn`, by a full disk or by
the end of the process). A table of 256 rules may outgrow the line; then nothing is
promised, and `SavedRulesPersist`, which promises it all the same, is refuted (section 5).
`MCMail` assumes `RulesFit` (`Fitting`), so TLC evaluates it on the files of the run `mail`.
The invariant `RulesInv` is about the text that counts (`Kept`: the file, or while
it is written the one that was read): it stays well-formed, its rules of the three other
lists are those in memory whatever failed, and those of `[email]` are as soon as a save has
succeeded. The proof is about what a save does to a text (`SavedLoads`): the
text is split where the section starts (`Starts`) and ends (`NextSectionEnds`), what is put
together is again well-formed (`ReplacedWellFormed`) and loads as before except for the
section (`ReplacedKeeps`, `ReplacedHas`), by induction over the lines (`Climbs`). The
induction needs `WellFormed` as it is stated now; an earlier form allowed a comment before
the `[email]` header after a mention of it, which is the case `HiddenLater`.

**ProcessProofs**, `Memory` (`MemoryAssumption`; any number of threads, files, failures and
crashes). The thread inside `memory_store` is the holder of the mutex and the only one
there, and one that ended there was cancelled (`Exclusive`), which is `MutexIsReleased`. The steps of the boot write the
same file without the mutex, so it matters that no tool runs before the boot is over and
that the main thread stores only during a migration (`InBoot`). Then what the holder has
read is still what the file holds when it renames (`Current`), which is
`StoresUpdateCurrent`: a store is an update of the present file, and no store undoes
another (`NoUpdateLost`). It fails when the file is read before the mutex is taken
(`StoreLock_late`).

**ProcessProofs**, `MEMORY.md` as a map. `MemoryIsFactMap` says that `Memory` implements
`FactMap`, and is proved step by step: the initial state and every step map to the initial
state and to a step or a stutter of the map. Half of it is `Current`; the other half is what
an update makes of a text. The induction over the lines (`AllScanned`, by `Climbs`)
carries `Scanned`: after `n` lines, what is written says of every other section and key what
the first `n` lines say (`Frame`, `Agree`), and of the section and key that are stored the
new value as soon as `key_written` is set (`Target`). Text grows a line at a time
(`MoreOpens`, `MoreHits`, `MoreRecall`: which section is open, which bullets are under it,
what is recalled), so that a line that is copied, replaced or put in before a heading is one
lemma each (`LineAdded`, `LineSkipped`, `NewAdded`). `StoredSays` adds what is appended after
the last line, and there the template's line without newline matters: what is appended
continues it, and a fact would be lost if its section were open or its heading missing.
That neither is so is `Closed`, which every store preserves (`Result`). The state part
(`MapInv`) adds that each call has a shape (`Shapes`), and that the files hold such texts
(`FilesInv`): the boot may only replace an empty `MEMORY.md` (`BootFiles`), and the migration
puts text without headings of durable sections into the notes.

The hypotheses of `MemoryIsFactMap` are `FactsFit` and `[]BelowCap`. Each setting of the
former that is switched off has its counterexample in section 5 (a key with a colon, a value
longer than a bullet, a short write), and so has the latter (the rest of a file above the
cap). `MCMemory` assumes that its texts meet the former (`Fitting`), so TLC evaluates it on
the shipped template.

**ProcessProofs**, `Main` (no assumption used). The flag that readline sets is not enough
for `TerminalOwned`, since the spinner reads it before it writes. The invariant is
that there is a spinner only between the first status of a turn of the CLI and the join
(`SpinsInTurn`, `PromptAlone`), and this needs that the one request of the CLI is queued
or with the worker only while the main thread waits for its answer (`OneRequest`):
otherwise a late iteration of the turn would start the spinner under the prompt.

**ProcessProofs**, the settings (`ConfigAssumption`). `ConfigPriority` compares what two
loads, line by line, leave in the environment and in a table with a rule that names one
line: the shell, else the first line of `.env` that sets the name, else the last assignment
under the section in `dobby.conf`; for the URL of Ollama two keys, the newer one first. What is
empty counts as unset, as the documents have it; a name that the shell sets to nothing and
`.env` to something (`Masked`) is excepted, because there the code does otherwise
(`MaskedPriority`, section 5). The theorem has the hypothesis `ConfFits`: `dobby.conf` has no
more entries than the table (256). It is needed: a full table ignores even a new value for
a key it has (`config.c:138`), and with `MAX_ENTRIES = 2` TLC refutes the property.
`MCMain` assumes it (`Fitting`), so TLC evaluates it on the instance of the run `main`. For `.env` the induction over the
lines follows one name (`OneName`, `EnvLoaded`). For `dobby.conf` it carries that a key of
a section has one row, that there are no more rows than entries so far, so there is room,
and that the section is that of the last header (`LoadedTo`, `LineLoads`). The settings are
made once, from the files the process was started with (`FilesUntouched`,
`SettingsOnlyAtBoot`).

**ToolsProofs** (`ShellBounds`, `WhatsAppBounds`, `SerialBounds`; the command, the bridge
and all limits arbitrary). Shell: every piece of text written before the first zero byte is
in the buffer or at the front of the pipe, until the buffer is full (`NothingLost`, with
`NoNul`), and the pipe is empty between calls; with the last drain that gives
`OutputKept`. `DrainStep` is where a chunk may end at a zero byte. WhatsApp: a thread between lock and unlock
holds the lock (`Locked`), and a stream that ends within a frame is either about to be
completed by the holder or belongs to a connection nothing can be written to any more
(`HalfFrame`): this is where a connection that breaks between the two writes, and a
reconnect while another thread waits for the lock, are covered. Serial: `PortClosed`, "Port
always closed on all exit paths", the safety part of `CallReturns`. It is inductive
as it stands.

**ToolsProofs**, `Serial`. `OwnOutput` and `InStep` are about a dialogue whose two sides
never see each other, so the invariant `SerialInv` relates the step of the tool to what
is under way: what is typed and not read, what is printed and not read (`wire`), and what
is in `buf`. As long as the call is `quiet` (nothing was owed when it began, nothing
failed since, no other thread has touched the port and no output held the prompt text),
`InTune` says: before a line is sent the device has nothing left to read or
to print but noise and waits at a place where this line is expected (`Rests`); in a wait
exactly one answer is owed, or its beginning is in the buffer and the rest on the wire,
or it has come without anything awaited (`Awaiting`). That is kept when a read
takes any part of the wire (`ReadKeepsWait`), when a pattern is found (`FindsAnswer`:
then nothing of the answer is left on the wire) and when the echo and the prompt are taken
off (`CleanedOwn`), which is `OwnOutput`. `InStep` follows from the same invariant. What
`strip_ansi` and the cleaning keep of a sequence is a recursive function (`Keep`); what it
does to parts and concatenations is an argument about the shortest counterexample
(`Shortest`, `Unfolds`).

The steps of another thread keep the invariant because they end `quiet`; without that
condition both properties are refuted (`AlwaysOwnOutput`, `AlwaysInPlace`, section 5).

The theorems have the hypothesis `PlainDevice`: the device takes CR LF for one line and
does not colour its prompt, its banner has none of the awaited texts, and the profiles name
the prompts of the device and use neither the password nor a command as a user name. The
first three are needed: without them TLC refutes the properties (section 5, `LineEnds`,
`Colour`, `BannerHash`); the last keeps apart what the device takes for a user name, a
password and a command. They are assumptions about the device and its configuration, not about
the code. `MCTools` assumes `PlainDevice` (`Plain`), so TLC evaluates it on the instance of
the run `tools`; to see the counterexamples of section 5, take that assumption out of `MCTools`.

Each inductive invariant was first checked by TLC on the instance of its component's
run.

**Only model-checked.** Everything about liveness and fairness. The types of `WhatsApp`
are proved only as far as the theorems use them. The disagreements of section 5 are
counterexamples of TLC.

## 7. What is not modelled

cJSON (third-party), the string buffers (except where they end at a zero byte), the log,
the file tool (one sequential
operation on one file per call), the requests sent to the providers and libcurl,
the parsing of HTTP requests and the endpoints that only read, the removal of
`<think>` blocks, the parsing of the command line and of intervals
(`scheduler.c:189` multiplies in an `int`; the model starts from seconds), IMAP,
SMTP and MIME below the level of a message. In `Messaging` a turn is one step; in
`Agent` the tools have no side effects. Snapshots of sessions for the diagnostics
only read. `session_evict_stale` has no caller.

`allowlist_save_email` puts the section together with `strcat` in 4096 bytes
(`allowlist.c:202`) without looking at their end; the model takes the rules to fit there. A
line of that file that a short write cuts in two counts as missing. The words that
`/skills reload` leaves to the poll thread are taken to be no UIDs.

The three tools of `Tools` are not interleaved with each other: two sub-agents may run two
of them at once, but a device, a pipe and a socket have nothing in common; two calls of one
tool on the same port are in `Serial`. `Main` takes the two counters
that number tool calls (`openai.c:155`, `ollama.c:203`) as unique, although worker and
sub-agents increment them without a lock.

## 8. Plan

Done: all modules of section 2; every safety invariant that a run checks is a theorem,
and so are the action properties of `Agent`, `Session`, `Messaging`,
`SubagentPool`, `Scheduler`, `Serial`, `Mail` and `Main`, and both refinements
(`BoundedFifo`, `FactMap`). Left:

1. The types of `WhatsApp`.
