------------------------------- MODULE Config -------------------------------
(***************************************************************************)
(* Where a setting comes from: the environment of the shell, .env          *)
(* (env_load), dobby.conf (config_load) and the defaults; and which        *)
(* provider the settings name (providers/registry.c, openai_create).       *)
(*                                                                         *)
(* A text is [text, quoted]: its characters and whether it stands in       *)
(* quotes.  A line of .env is "comment" or "entry" (with or without        *)
(* `export`), a line of dobby.conf also "section", a header, or "open", a  *)
(* header without its bracket.  An environment maps names to texts.        *)
(***************************************************************************)
EXTENDS Naturals, Sequences, SequencesExt, TLC

CONSTANT MAX_ENTRIES

ASSUME ConfigAssumption == MAX_ENTRIES \in Nat

Plain(t) == [text |-> t, quoted |-> FALSE]
Absent == Plain("")

\* A text as the code compares it: with its quotes it is no name of anything.
Literal(v) == IF v.quoted THEN "quoted" ELSE v.text

\* config_set: a full table changes nothing, not even what it holds.
config_set(cfg, section, key, val) ==
  LET held == {i \in DOMAIN cfg : cfg[i].section = section /\ cfg[i].key = key}
  IN  IF Len(cfg) >= MAX_ENTRIES THEN cfg
      ELSE IF held # {} THEN [cfg EXCEPT ![Min(held)].val = val]
      ELSE Append(cfg, [section |-> section, key |-> key, val |-> val])

config_get(cfg, section, key, default_val) ==
  LET held == {i \in DOMAIN cfg : cfg[i].section = section /\ cfg[i].key = key}
  IN  IF held = {} THEN default_val ELSE cfg[Min(held)].val

\* config_load: the section holds until the next complete header; quotes
\* stay part of a value.
ConfLine(st, line) ==
  CASE line.kind = "section" -> [st EXCEPT !.section = line.key]
    [] line.kind = "entry" ->
         [st EXCEPT !.cfg = config_set(@, st.section, line.key, line.val)]
    [] OTHER -> st

config_load(lines) ==
  LET after[i \in 0..Len(lines)] ==
        IF i = 0 THEN [section |-> "general", cfg |-> <<>>]
        ELSE ConfLine(after[i - 1], lines[i])
  IN  after[Len(lines)].cfg

\* env_load: outer quotes are stripped, and setenv(key, val, 0) keeps what
\* is already there.
setenv_overwrites(env, key, val) == [k \in {key} |-> val] @@ env

setenv(env, key, val) ==
  [k \in DOMAIN env \cup {key} |-> IF k \in DOMAIN env THEN env[k] ELSE val]

EnvLine(env, line) ==
  IF line.kind = "entry" THEN setenv(env, line.key, Plain(line.val.text))
  ELSE env

env_load(env, lines) ==
  LET after[i \in 0..Len(lines)] ==
        IF i = 0 THEN env ELSE EnvLine(after[i - 1], lines[i])
  IN  after[Len(lines)]

\* The first of two texts that is not empty.
OrElse(a, b) == IF a # Absent THEN a ELSE b

getenv(env, name) == IF name \in DOMAIN env THEN env[name] ELSE Absent

env_or_cfg(env, name, cfg, section, key, def) ==
  OrElse(getenv(env, name), config_get(cfg, section, key, def))

\* boot(): OLLAMA_URL, else ollama_url, else url, the key of older files.
OllamaUrl(env, cfg) ==
  OrElse(getenv(env, "OLLAMA_URL"),
    OrElse(config_get(cfg, "provider", "ollama_url", Absent),
      OrElse(config_get(cfg, "provider", "url", Absent), Plain("localhost"))))

\* resolve_log_level: the environment, then the flag, then dobby.conf.
resolve_log_level(env, flag, cfg) ==
  LET src == OrElse(getenv(env, "LOG_LEVEL"),
               OrElse(flag, config_get(cfg, "logging", "level", Absent)))
  IN  IF src \in {Plain(l) : l \in {"debug", "info", "error"}} THEN src.text
      ELSE "warn"

----------------------------------------------------------------------------
(* The provider.  A key is known by the prefixes it has, a URL by the      *)
(* keywords it contains: the URL of groq also contains "openai".           *)

PROVIDERS ==
  <<[name |-> "openrouter", prefix |-> "sk-or-"],
    [name |-> "groq", prefix |-> "gsk_"],
    [name |-> "together", prefix |-> ""],
    [name |-> "openai", prefix |-> "sk-"]>>

KeyPrefixes(key) == IF key = "sk-or-" THEN {"sk-or-", "sk-"} ELSE {key} \ {""}
UrlKeywords(url) == IF url = "groq" THEN {"groq", "openai"} ELSE {url} \ {""}

NoSpec == 0

registry_find_by_name(name) ==
  LET found == {i \in DOMAIN PROVIDERS : PROVIDERS[i].name = name}
  IN  IF found = {} THEN NoSpec ELSE Min(found)

registry_detect(api_key, api_url) ==
  LET found == {i \in DOMAIN PROVIDERS :
                  \/ PROVIDERS[i].prefix \in KeyPrefixes(api_key)
                  \/ PROVIDERS[i].name \in UrlKeywords(api_url)}
  IN  IF found = {} THEN NoSpec ELSE Min(found)

registry_resolve_url(spec, api_url) ==
  IF api_url # "" THEN api_url
  ELSE IF spec # NoSpec THEN PROVIDERS[spec].name ELSE ""

\* openai_create: the URL the requests go to, "" if there is none.
openai_create(api_url, api_key, name) ==
  LET named == registry_find_by_name(name)
      spec == IF named # NoSpec THEN named ELSE registry_detect(api_key, api_url)
  IN  registry_resolve_url(spec, api_url)

\* The provider of boot(): Ollama has its own URL; another name that fails is
\* tried again with what the key and the URL reveal.
create_provider(type, api_url, api_key, ollama_url) ==
  LET found == registry_detect(api_key, api_url)
  IN  IF type = "ollama" THEN ollama_url
      ELSE IF openai_create(api_url, api_key, type) # "" \/ found = NoSpec
           THEN openai_create(api_url, api_key, type)
      ELSE openai_create(api_url, api_key, PROVIDERS[found].name)
=============================================================================
