-------------------------------- MODULE Main --------------------------------
(***************************************************************************)
(* The main thread (cli/main.c): boot() in the order of its steps, the     *)
(* REPL with its slash commands and signals, the status line, and what     *)
(* main and the worker share without a lock: the system parts of the       *)
(* template agent, the tool registry, the status line.                     *)
(*                                                                         *)
(* The worker (module Messaging has its protocol) runs the turns of the    *)
(* CLI and of the other channels; a session of another chat is made by     *)
(* copying the template, part by part (agent_factory).                     *)
(***************************************************************************)
EXTENDS Config, Provider, Skills, StatusLine

CONSTANTS
  Inputs,               \* what a start may find: shell, .env, dobby.conf, flags
  Workspaces,           \* prompt files and skills, own and shipped
  Lines,                \* what the user may enter
  Replies,              \* what the language model may answer
  MAX_SYSTEM_PARTS, MAX_TOOLS,
  MaxLines, MaxOther, MaxStores, MaxIterations, MaxSignals     \* bounds

NoInput == [shell |-> <<>>]
NoSettings == <<>>
Prompts == <<"SOUL", "AGENT", "TOOLS">>

ASSUME MainAssumption ==
  {MAX_SYSTEM_PARTS, MAX_TOOLS, MaxLines, MaxOther, MaxStores, MaxIterations,
   MaxSignals} \subseteq Nat

VARIABLES
  main,                 \* where the main thread is
  files, settings,      \* what it reads at boot; what it made of that
  ws,                   \* the files of the workspace
  provider,             \* which of the two providers
  flags,                \* no_cli, no_http and whether there is an address
  parts,                \* system_parts of the template: [name, version]
  tools,                \* the registry: the tools, in order
  created, started, joined,    \* what has a struct, a thread; what cleanup joins
  prompt,               \* [session -> the parts it was made with]
  said,                 \* turns in the session of the CLI
  store,                \* the version of MEMORY.md
  queue, worker, turn,  \* the inbound queue, the worker, whose turn it is
  offered, iterations,  \* the tools the provider was told of; calls made
  done,                 \* the response pair of the CLI is done
  input, lines,         \* the last line entered, how many
  g_running, g_sigint_caught, g_sigint_count,
  others, signals

bootVars == <<files, settings, ws, provider, flags>>
templateVars == <<parts, tools, created, started, joined, prompt>>
workerVars == <<said, store, queue, worker, turn, offered, iterations, done,
                others>>
replVars == <<input, lines>>
sigVars == <<g_running, g_sigint_caught, g_sigint_count, signals>>
vars == <<main, bootVars, templateVars, workerVars, replVars, sigVars,
          statusVars>>

Names(seq) == [i \in DOMAIN seq |-> seq[i].name]
Freed == [name |-> "freed", version |-> 0]

\* agent_add_system_part and tool_register drop what does not fit.
agent_add_system_part(seq, name, version) ==
  IF Len(seq) >= MAX_SYSTEM_PARTS THEN seq
  ELSE Append(seq, [name |-> name, version |-> version])

tool_register(name) ==
  tools' = IF Len(tools) >= MAX_TOOLS THEN tools ELSE Append(tools, name)

----------------------------------------------------------------------------
(* boot(): one step after the other; the worker runs from BootSessions on. *)

Goto(from, to) == main = from /\ main' = to

\* .env, dobby.conf, then the settings.
Setting(env, cfg) ==
  [provider |-> env_or_cfg(env, "PROVIDER", cfg, "provider", "type",
                           Plain("ollama")),
   model |-> env_or_cfg(env, "MODEL", cfg, "provider", "model", Absent),
   api_url |-> env_or_cfg(env, "API_URL", cfg, "provider", "api_url", Absent),
   api_key |-> env_or_cfg(env, "API_KEY", cfg, "provider", "api_key", Absent),
   ollama_url |-> OllamaUrl(env, cfg),
   log |-> resolve_log_level(env, files.log_level, cfg)]

BootConfig ==
  LET env == env_load(files.shell, files.dotenv)
      cfg == config_load(files.conf)
  IN  /\ Goto("config", "seed")
      /\ settings' = Setting(env, cfg)
      /\ flags' = [no_cli |-> files.no_cli, no_http |-> files.no_http,
                   address |-> config_get(cfg, "email", "address", Absent) # Absent]
      /\ files' = NoInput
      /\ UNCHANGED <<ws, provider, templateVars, workerVars, replVars, sigVars,
                     statusVars>>

\* templates_seed copies what is missing and shipped.
BootSeed ==
  /\ Goto("seed", "provider")
  /\ ws' = [ws EXCEPT !.own = [f \in DOMAIN ws.own |->
                                 IF ws.own[f] = "missing" THEN ws.shipped[f]
                                 ELSE ws.own[f]],
                      !.skills = seed_skills(ws.skills, ws.bundled)]
  /\ tools' = <<>>
  /\ UNCHANGED <<files, settings, provider, flags, parts, created, started,
                 joined, prompt, workerVars, replVars, sigVars, statusVars>>

\* No model, no URL or an Ollama that does not answer: cleanup and exit(1).
BootProvider ==
  LET url == create_provider(Literal(settings.provider), Literal(settings.api_url),
                             Literal(settings.api_key),
                             Literal(settings.ollama_url))
      able == settings.model # Absent /\ url # ""
  IN  /\ main = "provider"
      /\ \/ main' = "cleanup" /\ (~able \/ settings.provider = Plain("ollama"))
         \/ main' = "agent" /\ able
      /\ provider' = IF settings.provider = Plain("ollama") THEN "ollama"
                     ELSE "openai"
      /\ settings' = NoSettings
      /\ UNCHANGED <<files, ws, flags, templateVars, workerVars, replVars, sigVars,
                     statusVars>>

\* The template agent: the files that are not empty, the memory, the skills.
BootAgent ==
  LET present(f) == ws.own[f] \notin {"missing", "empty"}
      docs == [i \in DOMAIN SelectSeq(Prompts, present) |->
                 [name |-> SelectSeq(Prompts, present)[i], version |-> 0]]
      memory == agent_add_system_part(docs, "memory", store)
      skills == skills_get_prompt(skills_scan(ws.skills))
  IN  /\ Goto("agent", "sessions")
      /\ parts' = IF skills = NoPrompt THEN memory
                  ELSE agent_add_system_part(memory, "skills", 0)
      /\ tools' = <<"shell", "file", "serial", "memory">>
      /\ ws' = NoInput
      /\ UNCHANGED <<files, settings, provider, flags, created, started,
                     joined, prompt, workerVars, replVars, sigVars, statusVars>>

\* The session of the CLI is made now, then the worker starts.
BootSessions ==
  /\ Goto("sessions", "scheduler")
  /\ prompt' = [prompt EXCEPT !["cli"] = parts]
  /\ worker' = "idle"
  /\ UNCHANGED <<bootVars, parts, tools, created, started, joined, said, store,
                 queue, turn, offered, iterations, done, others, replVars,
                 sigVars, statusVars>>

\* scheduler, sub-agents, heartbeat, email and WhatsApp: a struct, a thread
\* that can fail to start, the tools.  (dobby.conf has a bridge_host; without
\* one whatsapp_channel_create makes nothing.)
BootPart(from, to, part, maybe) ==
  /\ Goto(from, to)
  /\ part # "email" \/ flags.address
  /\ created' = created \cup {part}
  /\ \/ started' = started \cup {part}
     \/ maybe /\ started' = started
  /\ IF part = "heartbeat" THEN UNCHANGED tools ELSE tool_register(part)
  /\ UNCHANGED <<bootVars, parts, joined, prompt, workerVars, replVars, sigVars,
                 statusVars>>

BootScheduler == BootPart("scheduler", "subagents", "scheduler", FALSE)
BootSubagents == BootPart("subagents", "heartbeat", "subagents", FALSE)
BootHeartbeat == BootPart("heartbeat", "email", "heartbeat", FALSE)
BootEmail == BootPart("email", "whatsapp", "email", TRUE)
BootWhatsApp == BootPart("whatsapp", "identity", "whatsapp", TRUE)

BootNoEmail ==
  /\ Goto("email", "whatsapp") /\ ~flags.address
  /\ tool_register("email")
  /\ UNCHANGED <<bootVars, parts, created, started, joined, prompt, workerVars,
                 replVars, sigVars, statusVars>>

\* The address of the agent joins the template; then the status line.
BootIdentity ==
  /\ Goto("identity", "gateway")
  /\ parts' = IF flags.address THEN agent_add_system_part(parts, "email", 0)
              ELSE parts
  /\ status_init(flags.no_cli)
  /\ UNCHANGED <<bootVars, tools, created, started, joined, prompt, workerVars,
                 replVars, sigVars>>

\* gateway_start: a port in use ends the process after cleanup().
BootGateway ==
  /\ main = "gateway"
  /\ \/ flags.no_http /\ UNCHANGED <<created, started>>
     \/ ~flags.no_http /\ created' = created \cup {"gateway"}
        /\ started' \in {started, started \cup {"gateway"}}
  /\ main' = IF started' = started /\ ~flags.no_http THEN "cleanup"
             ELSE IF flags.no_cli THEN "idle" ELSE "prompt"
  /\ UNCHANGED <<bootVars, parts, tools, joined, prompt, workerVars, replVars,
                 sigVars, statusVars>>

----------------------------------------------------------------------------
(* run(): the REPL.                                                        *)

ReadlineEnter ==
  /\ Goto("prompt", "readline") /\ g_running
  /\ g_sigint_caught' = FALSE
  /\ status_readline(TRUE)
  /\ UNCHANGED <<bootVars, templateVars, workerVars, replVars, g_running,
                 g_sigint_count, signals>>

\* What a line leads to: "eof" is a NULL input, "" a blank line.
AfterLine(line) ==
  CASE line = "eof" -> IF g_sigint_caught THEN "prompt" ELSE "cleanup"
    [] line = "/quit" -> "cleanup"
    [] line = "text" -> "thinking"
    [] OTHER -> "prompt"

\* /new empties the template, which holds no messages; the other commands that
\* are not in module Mail only print.
ReadlineReturns(line) ==
  /\ main = "readline" /\ (line = "eof" \/ lines < MaxLines)
  /\ main' = AfterLine(line)
  /\ input' = line /\ lines' = IF line = "eof" THEN lines ELSE lines + 1
  /\ g_sigint_count' = IF line = "eof" THEN g_sigint_count ELSE 0
  /\ status_readline(FALSE)
  /\ UNCHANGED <<bootVars, templateVars, workerVars, g_running, g_sigint_caught,
                 signals>>

\* status_set(STATE_THINKING): the text, then the thread.
Thinking ==
  /\ Goto("thinking", "spin") /\ StatusText(FALSE)
  /\ UNCHANGED <<bootVars, templateVars, workerVars, replVars, sigVars>>

Spin ==
  /\ Goto("spin", "publish") /\ StatusThread("Thinking")
  /\ UNCHANGED <<bootVars, templateVars, workerVars, replVars, sigVars>>

Publish ==
  /\ Goto("publish", "wait")
  /\ queue' = Append(queue, "cli") /\ done' = FALSE
  /\ UNCHANGED <<bootVars, templateVars, said, store, worker, turn, offered,
                 iterations, others, replVars, sigVars, statusVars>>

\* The answer is there: status_set(STATE_READY).
Ready ==
  /\ Goto("wait", "stop") /\ done /\ StatusText(FALSE)
  /\ UNCHANGED <<bootVars, templateVars, workerVars, replVars, sigVars>>

Stop ==
  /\ Goto("stop", "join") /\ StatusThread("Ready")
  /\ UNCHANGED <<bootVars, templateVars, workerVars, replVars, sigVars>>

Join ==
  /\ Goto("join", "refresh") /\ StatusJoin
  /\ UNCHANGED <<bootVars, templateVars, workerVars, replVars, sigVars>>

\* refresh_memory: the part is freed, then replaced.
MemorySlot == CHOOSE i \in DOMAIN parts : parts[i].name \in {"memory", "freed"}

RefreshFree ==
  /\ Goto("refresh", "replace")
  /\ parts' = [parts EXCEPT ![MemorySlot] = Freed]
  /\ UNCHANGED <<bootVars, tools, created, started, joined, prompt, workerVars,
                 replVars, sigVars, statusVars>>

RefreshSet ==
  /\ Goto("replace", "prompt")
  /\ parts' = [parts EXCEPT ![MemorySlot] = [name |-> "memory", version |-> store]]
  /\ UNCHANGED <<bootVars, tools, created, started, joined, prompt, workerVars,
                 replVars, sigVars, statusVars>>

\* g_running was cleared: the loop of the REPL, or pause(), ends.
RunEnds ==
  /\ main \in {"prompt", "idle"} /\ ~g_running
  /\ main' = "cleanup"
  /\ UNCHANGED <<bootVars, templateVars, workerVars, replVars, sigVars, statusVars>>

\* cleanup(): the worker takes what is queued and is joined; email, WhatsApp,
\* scheduler and gateway are joined if there is a struct.
Cleanup ==
  /\ Goto("cleanup", "exit")
  /\ worker \in {"none", "idle"} /\ queue = <<>>
  /\ worker' = "none"
  /\ joined' = (created \ {"heartbeat", "subagents"})
                 \cup (started \cap {"heartbeat"})
  /\ tools' = <<>> /\ parts' = <<>>
  /\ UNCHANGED <<bootVars, created, started, prompt, said, store, queue, turn,
                 offered, iterations, done, others, replVars, sigVars,
                 statusVars>>

----------------------------------------------------------------------------
(* Signals, other channels, the worker.                                    *)

Handled == main \notin {"config", "seed", "provider", "agent", "exit", "killed"}

sig_handler ==
  /\ Handled /\ signals < MaxSignals
  /\ signals' = signals + 1
  /\ g_sigint_caught' = TRUE /\ g_sigint_count' = g_sigint_count + 1
  /\ g_running' = (g_running /\ g_sigint_count' < 2)
  /\ UNCHANGED <<main, bootVars, templateVars, workerVars, replVars, statusVars>>

sig_term ==
  /\ Handled /\ signals < MaxSignals
  /\ signals' = signals + 1 /\ g_running' = FALSE
  /\ UNCHANGED <<main, bootVars, templateVars, workerVars, replVars,
                 g_sigint_caught, g_sigint_count, statusVars>>

\* A task, a heartbeat, a mail or a request over HTTP.
OtherMessage ==
  /\ started # {} /\ main \notin {"cleanup", "exit", "killed"}
  /\ others < MaxOther
  /\ others' = others + 1
  /\ queue' = Append(queue, "other")
  /\ UNCHANGED <<main, bootVars, templateVars, said, store, worker, turn, offered,
                 iterations, done, replVars, sigVars, statusVars>>

\* session_get_or_create: agent_factory starts with no parts.
WorkerTakes ==
  /\ worker = "idle" /\ queue # <<>>
  /\ turn' = Head(queue) /\ queue' = Tail(queue)
  /\ worker' = IF turn' = "other" /\ prompt["other"] = <<>> THEN "clone"
               ELSE "iterate"
  /\ iterations' = 0
  /\ UNCHANGED <<main, bootVars, templateVars, said, store, offered, done,
                 others, replVars, sigVars, statusVars>>

WorkerClones ==
  LET copy == prompt["other"] IN
  /\ worker = "clone"
  /\ IF Len(copy) < Len(parts)
     THEN /\ prompt' = [prompt EXCEPT !["other"] = Append(copy, parts[Len(copy) + 1])]
          /\ UNCHANGED worker
     ELSE worker' = "iterate" /\ UNCHANGED prompt
  /\ UNCHANGED <<main, bootVars, parts, tools, created, started, joined, said,
                 store, queue, turn, offered, iterations, done, others,
                 replVars, sigVars, statusVars>>

\* An iteration of agent_chat: on_thinking, for the CLI, in its two steps ...
WorkerThinks ==
  /\ worker = "iterate" /\ iterations < MaxIterations
  /\ iterations' = iterations + 1
  /\ IF turn = "cli" THEN worker' = "spin" /\ StatusText(TRUE)
     ELSE worker' = "call" /\ UNCHANGED statusVars
  /\ UNCHANGED <<main, bootVars, templateVars, said, store, queue, turn, offered,
                 done, others, replVars, sigVars>>

WorkerSpins ==
  /\ worker = "spin" /\ worker' = "call"
  /\ StatusThread("Thinking")
  /\ UNCHANGED <<main, bootVars, templateVars, said, store, queue, turn, offered,
                 iterations, done, others, replVars, sigVars>>

\* ... then the provider, told of the tools registered so far.  An error ends
\* the turn, the calls are executed, or the text is the answer.
Responses ==
  [ollama |-> {ollama_chat_complete(reply) : reply \in Replies},
   openai |-> {openai_chat_complete(reply) : reply \in Replies}]

Stores(call) == call.name = "memory" /\ parse_tool_arguments(call.args) # "{}"

tool_generate_json == tools

WorkerCalls(resp) ==
  /\ worker = "call" /\ ~Fatal(resp)
  /\ worker' = IF resp.error THEN "fail"
               ELSE IF resp.calls # <<>> THEN "iterate" ELSE "deliver"
  /\ offered' = tool_generate_json
  /\ store' = IF /\ store < MaxStores
                 /\ \E i \in DOMAIN resp.calls : Stores(resp.calls[i])
              THEN store + 1 ELSE store
  /\ UNCHANGED <<main, bootVars, templateVars, said, queue, turn, iterations,
                 done, others, replVars, sigVars, statusVars>>

\* A reply the process does not survive, or may not: deleting a value twice.
WorkerDies(resp) ==
  /\ worker = "call" /\ (Fatal(resp) \/ resp.twice)
  /\ main' = "killed" /\ worker' = "none"
  /\ UNCHANGED <<bootVars, templateVars, said, store, queue, turn, offered,
                 iterations, done, others, replVars, sigVars, statusVars>>

\* The answer, or an error: that of the provider, or of the last iteration.
\* After an error the history is as it was before the turn.
WorkerDelivers ==
  /\ \/ worker \in {"deliver", "fail"}
     \/ worker = "iterate" /\ iterations = MaxIterations
  /\ worker' = "idle" /\ offered' = <<>> /\ iterations' = 0
  /\ done' = (done \/ turn = "cli")
  /\ said' = said + (IF turn = "cli" /\ worker = "deliver" THEN 1 ELSE 0)
  /\ UNCHANGED <<main, bootVars, templateVars, store, queue, turn, others, replVars,
                 sigVars, statusVars>>

Spinner ==
  /\ main # "killed" /\ spinner_fn
  /\ UNCHANGED <<main, bootVars, templateVars, workerVars, replVars, sigVars>>

\* The process is gone.
Exited == main \in {"exit", "killed"} /\ UNCHANGED vars

Init ==
  /\ main = "config" /\ files \in Inputs /\ settings = NoSettings
  /\ ws \in Workspaces /\ provider = "none"
  /\ flags = [no_cli |-> FALSE, no_http |-> FALSE, address |-> FALSE]
  /\ parts = <<>> /\ tools = <<>>
  /\ created = {} /\ started = {} /\ joined = {}
  /\ prompt = [cli |-> <<>>, other |-> <<>>]
  /\ said = 0 /\ store = 0 /\ queue = <<>> /\ worker = "none" /\ turn = "cli"
  /\ offered = <<>> /\ iterations = 0 /\ done = FALSE
  /\ input = "" /\ lines = 0
  /\ g_running = TRUE /\ g_sigint_caught = FALSE /\ g_sigint_count = 0
  /\ others = 0 /\ signals = 0
  /\ StatusInit

Boot == \/ BootConfig \/ BootSeed \/ BootProvider \/ BootAgent \/ BootSessions
        \/ BootScheduler \/ BootSubagents \/ BootHeartbeat \/ BootEmail
        \/ BootNoEmail \/ BootWhatsApp \/ BootIdentity \/ BootGateway

Repl == \/ ReadlineEnter \/ \E line \in Lines : ReadlineReturns(line)
        \/ Thinking \/ Spin \/ Publish \/ Ready \/ Stop \/ Join
        \/ RefreshFree \/ RefreshSet \/ RunEnds \/ Cleanup

Worker == \/ WorkerTakes \/ WorkerClones \/ WorkerThinks \/ WorkerSpins
          \/ /\ worker = "call"
             /\ \E resp \in Responses[provider] :
                  WorkerCalls(resp) \/ WorkerDies(resp)
          \/ WorkerDelivers

Next == \/ Boot \/ Repl \/ Worker \/ Spinner
        \/ sig_handler \/ sig_term \/ OtherMessage \/ Exited

Spec == Init /\ [][Next]_vars

----------------------------------------------------------------------------
(* Properties.                                                             *)

TypeOK ==
  /\ StatusTypeOK
  /\ main \in {"config", "seed", "provider", "agent", "sessions", "scheduler",
               "subagents", "heartbeat", "email", "whatsapp", "identity",
               "gateway", "prompt", "readline", "thinking", "spin", "publish",
               "wait", "stop", "join", "refresh", "replace", "idle", "cleanup",
               "exit", "killed"}
  /\ worker \in {"none", "idle", "clone", "iterate", "spin", "call", "deliver",
                 "fail"}
  /\ started \subseteq created
  /\ {g_running, g_sigint_caught, done} \subseteq BOOLEAN
  /\ store \in 0..MaxStores /\ others \in 0..MaxOther /\ signals \in 0..MaxSignals

\* What the shell says of a variable; what the first line of .env says that
\* sets it.
FromShell(name) == IF name \in DOMAIN files.shell THEN files.shell[name] ELSE Absent

FromDotEnv(name) ==
  LET set == {i \in DOMAIN files.dotenv : /\ files.dotenv[i].kind = "entry"
                                          /\ files.dotenv[i].key = name}
  IN  IF set # {} THEN Plain(files.dotenv[Min(set)].val.text) ELSE Absent

Exported(name) == OrElse(FromShell(name), FromDotEnv(name))

\* The shell sets it to nothing, so that .env cannot set it.
Masked(name) == /\ name \in DOMAIN files.shell /\ files.shell[name] = Absent
                /\ FromDotEnv(name) # Absent

\* The section of line i: that of the last header above it.
SectionAt(conf, i) ==
  LET headers == {j \in 1..(i - 1) : conf[j].kind = "section"}
  IN  IF headers = {} THEN "general" ELSE conf[Max(headers)].key

\* The lines that assign a key of a section.
Assigns(conf, section, key) ==
  {i \in DOMAIN conf : /\ conf[i].kind = "entry" /\ conf[i].key = key
                       /\ SectionAt(conf, i) = section}

\* What dobby.conf says of a key: its last assignment under that section.
Configured(section, key, default) ==
  LET set == Assigns(files.conf, section, key)
  IN  IF set # {} THEN files.conf[Max(set)].val ELSE default

\* The entries of dobby.conf fit the table of config_load.
ConfLines == [kind : STRING, key : STRING, val : [text : STRING, quoted : BOOLEAN]]
Entries(conf, k) == {i \in 1..k : conf[i].kind = "entry"}
ConfFits ==
  \A start \in Inputs : /\ start.conf \in Seq(ConfLines)
                        /\ start.dotenv \in Seq(ConfLines)
                        /\ Cardinality(Entries(start.conf, Len(start.conf)))
                             <= MAX_ENTRIES

PriorityRule(name, section, key, default) ==
  OrElse(Exported(name), Configured(section, key, default))

\* ollama_url in dobby.conf, else the key of older files, else the default.
OllamaConfigured ==
  OrElse(Configured("provider", "ollama_url", Absent),
    OrElse(Configured("provider", "url", Absent), Plain("localhost")))

\* "Priority: shell env > .env > this file > built-in defaults" (dobby.conf),
\* what is empty counting as unset: the settings boot() arrives at by loading
\* one file over the other are the ones this rule names, but for a variable
\* that is empty in the shell and not in .env.
ConfigPriority ==
  [][settings = NoSettings /\ settings' # NoSettings =>
       /\ \/ Masked("MODEL")
          \/ settings'.model = PriorityRule("MODEL", "provider", "model", Absent)
       /\ \/ Masked("API_URL")
          \/ settings'.api_url = PriorityRule("API_URL", "provider", "api_url", Absent)
       /\ \/ Masked("API_KEY")
          \/ settings'.api_key = PriorityRule("API_KEY", "provider", "api_key", Absent)
       /\ \/ Masked("PROVIDER")
          \/ settings'.provider =
               PriorityRule("PROVIDER", "provider", "type", Plain("ollama"))
       /\ \/ Masked("OLLAMA_URL")
          \/ settings'.ollama_url =
               OrElse(Exported("OLLAMA_URL"), OllamaConfigured)]_settings

----------------------------------------------------------------------------
(* What the repository says and the code does not do: TLC refutes each of  *)
(* the following (see the README).                                         *)

\* The same order for a variable the shell sets to nothing, as
\* docker-compose.yml sets API_URL and API_KEY.
MaskedPriority ==
  [][settings = NoSettings /\ settings' # NoSettings =>
       settings'.api_key = PriorityRule("API_KEY", "provider", "api_key", Absent)]_settings

\* "CLI flag > LOG_LEVEL env > [logging] level in dobby.conf" (main.c:359).
LogLevelPriority ==
  [][settings = NoSettings /\ settings' # NoSettings /\ files.log_level # Absent =>
       settings'.log = files.log_level.text]_settings

\* "Ctrl-D (EOF) always exits." (main.c:180)
CtrlDExits ==
  [][main = "readline" /\ main' # "readline" /\ input' = "eof" =>
       main' = "cleanup"]_main

\* "/new - Start a fresh conversation" (slash_commands.c:43).
NewConversationResets ==
  [][main = "readline" /\ main' # "readline" /\ input' = "/new" =>
       said' = 0]_main

\* "Refresh memory context in system prompt slot after each turn." (main.c:227)
MemoryReachesCli ==
  [][main = "replace" /\ main' = "prompt" =>
       \E i \in DOMAIN prompt["cli"] : /\ prompt["cli"][i].name = "memory"
                                       /\ prompt["cli"][i].version = store]_main

\* "each new session gets its own agent_t cloned from g_agent so it shares the
\* same provider, system prompt, and settings" (main.c:585).
PromptsComplete ==
  main \in {"prompt", "readline"} => Names(prompt["cli"]) = Names(parts)

\* ... and no part is copied while refresh_memory replaces it.
SessionPromptIntact == \A s \in DOMAIN prompt : Freed \notin Range(prompt[s])

\* A turn is told of every tool.
ToolsComplete == offered # <<>> => Len(offered) = 8

\* "instead of silently executing a tool with empty / garbled arguments"
\* (ollama.c:93).
ToolsRunAsAsked ==
  worker = "call" =>
    \A resp \in Responses[provider] : \A i \in DOMAIN resp.calls :
      resp.calls[i].args # "garbled"

\* No reply of the model ends the process.
RepliesSurvived == main # "killed"

\* "Unavailable skills still appear in the summary" (skills.h:24).
UnavailableSkillsListed ==
  main = "agent" =>
    LET skills == skills_scan(ws.skills)
        listed == Range(skills_get_prompt(skills).summary)
    IN  \A i \in DOMAIN skills : skills[i].available \/ skills[i] \in listed

\* cleanup() joins only threads that were started.
JoinsOnlyStarted == joined \subseteq started
=============================================================================
