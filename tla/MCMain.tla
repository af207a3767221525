------------------------------- MODULE MCMain -------------------------------
(* Instances of Main for TLC. *)
EXTENDS Main

Entry(k, v) == [kind |-> "entry", key |-> k, val |-> v]
Header(s) == [kind |-> "section", key |-> s, val |-> Absent]
Open(s) == [kind |-> "open", key |-> s, val |-> Absent]
Comment == [kind |-> "comment", key |-> "", val |-> Absent]
Quoted(t) == [text |-> t, quoted |-> TRUE]

Shells == {<<>>, [MODEL |-> Plain("m1")], [MODEL |-> Absent, API_KEY |-> Absent, OLLAMA_URL |-> Plain("here")],
           [PROVIDER |-> Plain("groq"), LOG_LEVEL |-> Plain("debug")]}
DotEnvs == {<<>>, <<Comment, Entry("MODEL", Quoted("m2")), Entry("MODEL", Plain("m3"))>>,
            <<Entry("API_KEY", Plain("gsk_")), Entry("PROVIDER", Plain("other")),
              Entry("OLLAMA_URL", Absent), Entry("OLLAMA_URL", Plain("there"))>>,
            <<Entry("PROVIDER", Plain("other")), Entry("MODEL", Plain("m3"))>>}
Confs == {<<>>,
          <<Entry("model", Plain("m4")), Header("provider"), Entry("model", Plain("m5")),
            Open("email"), Entry("model", Plain("m6")), Header("email"),
            Entry("address", Plain("me")), Entry("model", Plain("m7"))>>,
          <<Header("provider"), Entry("type", Quoted("groq")),
            Entry("model", Plain("m5")), Comment, Entry("ollama_url", Absent),
            Entry("url", Plain("old"))>>}
Start(s, d, c, cli, http) ==
  [shell |-> s, dotenv |-> d, conf |-> c, log_level |-> Absent, no_cli |-> ~cli,
   no_http |-> ~http]
InputsVal ==
  {Start(s, d, c, TRUE, TRUE) : s \in Shells, d \in DotEnvs, c \in Confs}
    \cup {Start([MODEL |-> Plain("m1")], <<>>, <<>>, cli, ~cli) : cli \in BOOLEAN}
WithFlag == {[i EXCEPT !.log_level = Plain("error")] : i \in InputsVal}

\* What ConfigFollowsPriority of ProcessProofs assumes.
ASSUME Fitting == ConfFits

\* A skill without front matter, one that is always active, one whose command
\* is missing, one always active and missing it.
Key(k, v) == [kind |-> "key", key |-> k, val |-> v]
Dash == [kind |-> "---"]
Text == [kind |-> "text"]
Skill(slug, md) == [slug |-> slug, kind |-> "skill", lines |-> md]
Other(slug, kind) == [slug |-> slug, kind |-> kind, lines |-> <<>>]
Memory == Skill("memory", <<Dash, Key("always", TRUE), Dash, Text, Dash>>)
Tmux == Skill("tmux", <<Dash, Key("name", "Tmux"), Key("requires_bins", <<"tmux">>),
                        Dash, Text>>)
WorkspacesVal ==
  {[own |-> [SOUL |-> "own", AGENT |-> "missing", TOOLS |-> "empty"],
    shipped |-> [SOUL |-> "shipped", AGENT |-> "shipped", TOOLS |-> "shipped"],
    skills |-> <<Other(".git", "hidden"), Other("README", "file"), Other("tmux", "dir"),
                 Skill("notes", <<Text, Dash, Text>>)>>,
    bundled |-> <<Memory, Tmux, Other("empty", "dir"),
                  Skill("gh", <<Dash, Key("always", TRUE), Key("requires_env", <<"TOKEN">>),
                                Dash>>)>>]}

Call(n, a) == [function |-> TRUE, name |-> n, args |-> a]
NoFunction == [Call("shell", "object") EXCEPT !.function = FALSE]
Calls(c) == [Reply EXCEPT !.content = "empty", !.calls = c]
Tried(arrays) == [Reply EXCEPT !.ok = FALSE, !.tool_use_failed = TRUE,
                               !.message = FALSE, !.arrays = arrays]
RepliesVal ==
  {Reply, [Reply EXCEPT !.sent = FALSE], [Reply EXCEPT !.ok = FALSE],
   [Reply EXCEPT !.content = "empty"], Calls(<<Call("memory", "object")>>),
   [Calls(<<Call("memory", "garbled")>>) EXCEPT !.cut = TRUE],
   Calls(<<NoFunction, Call("", "json"), Call("shell", "absent")>>),
   Calls(<<Call(Missing, "null")>>),
   Tried(<<<<>>, <<Call("memory", "null")>>>>),
   Tried(<<<<Call(Missing, "object")>>, <<Call("memory", "object")>>>>)}
=============================================================================
