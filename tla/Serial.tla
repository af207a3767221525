------------------------------- MODULE Serial -------------------------------
(***************************************************************************)
(* The serial_exec tool (tools/serial/serial_tool.c): it resolves a device *)
(* profile, opens the port, logs in, types the commands one by one and     *)
(* takes as the output of each what arrives before the next shell prompt.  *)
(*                                                                         *)
(* The device at the other end of the line is external.  It answers the    *)
(* lines typed to it in order, at its own pace: what it has printed and    *)
(* the tool has not read is `wire`, and a read takes any part of it, so    *)
(* every cutting of the stream into chunks, and every lateness, is covered.*)
(* A token of the stream stands for a piece of text; `cmd` says which line *)
(* the device was answering.                                               *)
(*                                                                         *)
(* Nothing keeps two threads (the worker and the sub-agents) from a call   *)
(* each on the same port at the same time: what the other call does to the *)
(* line is OtherTypes and OtherTakes.                                      *)
(***************************************************************************)
EXTENDS Naturals, Sequences, FiniteSets, SequencesExt

CONSTANTS
    Conf,                \* the lines of device.conf
    Calls,               \* the argument records the model may pass
    MaxSerialCalls,            \* bound: calls of the tool
    SERIAL_MAX_COMMANDS, \* commands per call
    SERIAL_MAX_DEVICES,  \* sections of device.conf
    MAX_OUTPUT,          \* tokens kept per read, SERIAL_MAX_OUTPUT_BYTES
    MaxWire,             \* bound: tokens in flight when the device babbles,
                         \* which it does once per wait
    LineEnds,            \* how many line ends the device sees in CR LF
    Colour,              \* the device colours its prompt
    Banner,              \* what the device prints before "login:"
    Babbles,             \* the device prints unasked
    MaxOthers            \* bound: what another thread does on the same port

ASSUME SerialBounds ==
    /\ {SERIAL_MAX_COMMANDS, SERIAL_MAX_DEVICES, MAX_OUTPUT} \subseteq Nat \ {0}
    /\ {MaxSerialCalls, MaxWire, MaxOthers} \subseteq Nat
    /\ LineEnds \in {1, 2}

VARIABLES
    step, dev, todo, asked, n, fd, buf, results, login_status, answer, ncalls,
    at, typed, part, wire, others, sent, quiet

toolVars == <<step, dev, todo, asked, n, fd, buf, results, login_status, answer,
              ncalls>>
deviceVars == <<at, typed, part, wire, others>>
serialVars == <<toolVars, deviceVars, sent, quiet>>
-----------------------------------------------------------------------------
(* device.conf and the arguments *)

Default == [name |-> "", port |-> "", baud |-> 115200, username |-> "",
            password |-> "", login_prompt |-> "", prompt |-> "#",
            no_login |-> FALSE]

\* One line of the file: a [section] opens a device with the defaults while
\* there is room (the parser stops at the first one that does not fit), a
\* key sets a field of the last section, anything else is skipped.
ConfLine(acc, line) ==
    IF acc.full THEN acc
    ELSE CASE line.kind = "section" ->
                IF Len(acc.devs) >= SERIAL_MAX_DEVICES THEN [acc EXCEPT !.full = TRUE]
                ELSE [acc EXCEPT !.devs = Append(@, [Default EXCEPT !.name = line.val])]
           [] line.kind \in DOMAIN Default /\ acc.devs # <<>> ->
                [acc EXCEPT !.devs[Len(acc.devs)] = [@ EXCEPT ![line.kind] = line.val]]
           [] OTHER -> acc

parse_device_conf(lines) ==
    FoldLeft(ConfLine, [devs |-> <<>>, full |-> FALSE], lines).devs

Known(name) == \E d \in Range(parse_device_conf(Conf)) : d.name = name

\* The first section of that name.
device_lookup(name) ==
    LET devs == parse_device_conf(Conf)
    IN devs[CHOOSE i \in DOMAIN devs :
                /\ devs[i].name = name
                /\ \A j \in 1 .. (i - 1) : devs[j].name # name]

\* The named device or the defaults, overridden by the arguments present; an
\* empty port does not override.
Profile(args) ==
    LET base == IF args.device # "" THEN device_lookup(args.device) ELSE Default
    IN [f \in DOMAIN Default |->
            IF f \in DOMAIN args.over /\ ~(f = "port" /\ args.over[f] = "")
            THEN args.over[f] ELSE base[f]]

Refused(args) ==
    \/ args.device # "" /\ ~Known(args.device)
    \/ Profile(args).port = ""
    \/ Profile(args).prompt = ""
    \/ args.commands = <<>>

baud_to_speed(baud) == baud \in {9600, 115200}
-----------------------------------------------------------------------------
(* The stream *)

Tok(text, cmd) == [text |-> text, cmd |-> cmd]

\* The members of s at the positions in I, in their order.
Keep(s, I) ==
    LET f[i \in 0 .. Len(s)] ==
            IF i = 0 THEN <<>>
            ELSE IF i \in I THEN Append(f[i - 1], s[i]) ELSE f[i - 1]
    IN f[Len(s)]

\* The tokens of s that are not one of these texts.
Without(s, texts) == Keep(s, {i \in DOMAIN s : s[i].text \notin texts})

\* Escape sequences are removed chunk by chunk: "csi" opens one and "fin" is
\* its last byte.  A sequence cut by the chunk loses only its first part.
InEscape(chunk, i) ==
    \E j \in 1 .. (i - 1) :
        chunk[j].text = "csi" /\ \A k \in (j + 1) .. (i - 1) : chunk[k].text # "fin"

strip_ansi(chunk) ==
    Keep(chunk, {i \in DOMAIN chunk :
                    /\ chunk[i].text # "csi"
                    /\ ~(chunk[i].text = "fin" /\ InEscape(chunk, i))})

\* The prompt may also be part of another text, as a "#" in a banner is.
Shows(tok, pattern) ==
    \/ tok.text = pattern
    \/ pattern = "#" /\ tok.text = "text#"

Found(b, pattern) == pattern # "" /\ \E i \in DOMAIN b : Shows(b[i], pattern)

\* What one read() of the loop adds to the buffer: everything up to the cap.
Accumulated(b, chunk) ==
    LET all == b \o strip_ansi(chunk)
    IN SubSeq(all, 1, IF Len(all) > MAX_OUTPUT THEN MAX_OUTPUT ELSE Len(all))

\* tcflush discards what has arrived: any part of what is in flight.
Flushed == \E k \in 0 .. Len(wire) : wire' = SubSeq(wire, k + 1, Len(wire))

\* The line and its CR LF reach the device, after what an earlier failed
\* write left of a line there.  tcdrain waits, without a deadline, until they
\* are out: the send may take for ever, and no fairness is assumed for it.
serial_send(text) ==
    /\ sent' = sent + 1
    /\ typed' = typed \o <<Tok(IF part THEN "garbled" ELSE text, sent + 1)>>
                      \o (IF LineEnds = 2 THEN <<Tok("", sent + 1)>> ELSE <<>>)
    /\ part' = FALSE

\* The port is opened non-blocking, so a full output queue is an error; some
\* of the line may be out by then.
SendFails ==
    /\ part' \in {part, TRUE}
    /\ quiet' = FALSE
    /\ UNCHANGED <<sent, typed>>
-----------------------------------------------------------------------------
(* serial_execute *)

\* Somebody may have typed at the device before the program ran.
SerialInit ==
    /\ step = "idle" /\ dev = Default /\ todo = <<>> /\ asked = 0 /\ n = 0 /\ fd = FALSE
    /\ buf = <<>> /\ results = <<>> /\ login_status = "none" /\ answer = "none"
    /\ ncalls = 0 /\ sent = 0
    /\ at \in {"login", "password", "shell"}
    /\ typed \in {<<>>, <<Tok("cmd", 0)>>} /\ quiet = (typed = <<>>)
    /\ part = FALSE /\ wire = <<>> /\ others = 0

\* A call: the arguments are refused at once, or the port is opened.  `quiet`
\* is history: the device owed nothing when the call began (it had answered
\* everything typed to it), and nothing has disturbed the call since: no read
\* or write has failed, no other call has used the line, and no output had
\* the text of the prompt in it.
serial_execute ==
    /\ step = "idle" /\ ncalls < MaxSerialCalls
    /\ \E args \in Calls :
        /\ ncalls' = ncalls + 1
        /\ results' = <<>> /\ login_status' = "none" /\ n' = 0 /\ buf' = <<>>
        /\ IF Refused(args)
           THEN /\ answer' = "error"
                /\ UNCHANGED <<step, dev, todo, asked, quiet>>
           ELSE /\ answer' = "none" /\ step' = "open"
                /\ dev' = Profile(args)
                /\ asked' = Len(args.commands)
                /\ todo' = SubSeq(args.commands, 1,
                              IF Len(args.commands) > SERIAL_MAX_COMMANDS
                              THEN SERIAL_MAX_COMMANDS ELSE Len(args.commands))
                /\ quiet' = (typed = <<>> /\ wire = <<>> /\ ~part)
    /\ UNCHANGED <<fd, deviceVars, sent>>

\* Answer the model with an error and no results.
GiveUp(status) ==
    /\ step' = "idle" /\ fd' = FALSE /\ answer' = status
    /\ UNCHANGED <<dev, todo, asked, n, buf, results, login_status, ncalls>>

\* The path is not a character device, the baud rate is unknown, or open or
\* tcsetattr fails (which closes the port again).
OpenFails ==
    /\ step = "open"
    /\ GiveUp("error")
    /\ UNCHANGED <<deviceVars, sent, quiet>>

\* Without a login the caller vouches for a shell ("shell is already active on
\* connect"); `quiet` keeps whether that is so.
serial_open ==
    /\ step = "open" /\ dev.port = "tty" /\ baud_to_speed(dev.baud)
    /\ fd' = TRUE
    /\ Flushed
    /\ IF dev.no_login \/ dev.username = ""
       THEN /\ step' = "send" /\ login_status' = "skipped"
            /\ quiet' = (quiet /\ at = "shell")
       ELSE step' = "tickle" /\ UNCHANGED <<login_status, quiet>>
    /\ UNCHANGED <<dev, todo, asked, n, buf, results, answer, ncalls,
                   at, typed, part, others, sent>>
-----------------------------------------------------------------------------
(* serial_login.  The results of its writes are not looked at. *)

\* step -> what is typed there and where the tool waits for the answer.
Says == [tickle |-> "", user |-> dev.username, pass |-> dev.password]

\* Mutant of AfterSaying: the shell prompt after the password is not awaited.
AfterSaying_early ==
    CASE step = "tickle" -> "seek"
      [] step = "user" -> IF dev.password # "" THEN "ask" ELSE "confirm"
      [] step = "pass" -> "send"

AfterSaying ==
    CASE step = "tickle" -> "seek"
      [] step = "user" -> IF dev.password # "" THEN "ask" ELSE "confirm"
      [] step = "pass" -> "confirm"

LoginSays ==
    /\ step \in DOMAIN Says
    /\ \/ serial_send(Says[step]) /\ UNCHANGED quiet
       \/ SendFails
    /\ step' = AfterSaying /\ buf' = <<>>
    /\ UNCHANGED <<dev, todo, asked, n, fd, results, login_status, answer, ncalls,
                   at, wire, others>>

\* The patterns of each wait, in the order they are tried.
LoginPatterns == <<dev.login_prompt, "login:">>

Waits == [seek |-> Append(LoginPatterns, dev.prompt),
          ask |-> <<"password:">>,
          confirm |-> <<dev.prompt>>,
          read |-> <<dev.prompt>>]

\* Mutant of LoginFound: the password prompt is taken for a shell.
LoginFound_early(b) ==
    IF step # "seek" THEN step' = "send" /\ login_status' = "ok"
    ELSE IF Found(b, "login:") THEN step' = "user" /\ UNCHANGED login_status
    ELSE step' = "send" /\ login_status' = "already_authenticated"

\* The text that a wait has found decides the next step: a login prompt is
\* answered with the user name, the shell prompt ends the login.
LoginFound(b) ==
    CASE step = "seek" ->
            IF \E i \in DOMAIN LoginPatterns : Found(b, LoginPatterns[i])
            THEN step' = "user" /\ UNCHANGED login_status
            ELSE step' = "send" /\ login_status' = "already_authenticated"
      [] step = "ask" -> step' = "pass" /\ UNCHANGED login_status
      [] step = "confirm" -> step' = "send" /\ login_status' = "ok"

\* No pattern before the deadline: login failed, the port is closed.
LoginDeadline ==
    /\ step \in {"seek", "ask", "confirm"}
    /\ GiveUp("login_failed")
    /\ UNCHANGED <<deviceVars, sent, quiet>>
-----------------------------------------------------------------------------
(* run_one_command *)

\* Old input is discarded and the command is typed.
RunSends ==
    /\ step = "send"
    /\ serial_send(todo[n + 1])
    /\ Flushed
    /\ step' = "read" /\ buf' = <<>>
    /\ UNCHANGED <<dev, todo, asked, n, fd, results, login_status, answer, ncalls,
                   at, others, quiet>>

\* The output without the first line that contains the command (any line
\* contains an empty one) and without the lines that are just the prompt.
Cleaned(b, text) ==
    LET echoes == {i \in DOMAIN b : text = "" \/ b[i].text = "echo"}
        kept == IF echoes = {} THEN b
                ELSE RemoveAt(b, CHOOSE i \in echoes : \A j \in echoes : i <= j)
    IN Without(kept, {dev.prompt})

overall(rs) ==
    IF \E i \in DOMAIN rs : rs[i].status = "error" THEN "error"
    ELSE IF \E i \in DOMAIN rs : rs[i].status = "timeout" THEN "timeout" ELSE "ok"

\* The result of a command is recorded; after the last one the port is
\* closed and the answer built.  (`own`, of the proof only: the line typed and
\* whether the device owed nothing.)
Record(status, output, own) ==
    LET rs == Append(results, [status |-> status, output |-> output, own |-> own])
    IN /\ results' = rs /\ n' = n + 1
       /\ IF n + 1 < Len(todo)
          THEN step' = "send" /\ UNCHANGED <<fd, answer>>
          ELSE step' = "idle" /\ fd' = FALSE /\ answer' = overall(rs)

RunSendFails ==
    /\ step = "send"
    /\ SendFails
    /\ Flushed
    /\ Record("error", <<>>, [id |-> 0, quiet |-> FALSE])
    /\ UNCHANGED <<dev, todo, asked, buf, login_status, ncalls, at, others>>

RunDeadline ==
    /\ step = "read"
    /\ quiet' = FALSE
    /\ Record("timeout", Cleaned(buf, todo[n + 1]), [id |-> sent, quiet |-> FALSE])
    /\ UNCHANGED <<dev, todo, asked, buf, login_status, ncalls, deviceVars, sent>>

\* read_until: a chunk is read, stripped and accumulated; then each pattern is
\* looked for in the whole buffer.
read_until ==
    /\ step \in DOMAIN Waits
    /\ \E k \in 1 .. Len(wire) :
        LET b == Accumulated(buf, SubSeq(wire, 1, k))
        IN /\ wire' = SubSeq(wire, k + 1, Len(wire))
           /\ buf' = b
           /\ IF ~ \E i \in DOMAIN Waits[step] : Found(b, Waits[step][i])
              THEN UNCHANGED <<step, login_status, n, fd, results, answer>>
              ELSE IF step = "read"
              THEN /\ Record("ok", Cleaned(b, todo[n + 1]), [id |-> sent, quiet |-> quiet])
                   /\ UNCHANGED login_status
              ELSE LoginFound(b) /\ UNCHANGED <<n, fd, results, answer>>
    /\ UNCHANGED <<dev, todo, asked, ncalls, at, typed, part, others, sent, quiet>>
-----------------------------------------------------------------------------
(* The device (external) *)

Prompt(id) == (IF Colour THEN <<Tok("csi", id), Tok("fin", id)>> ELSE <<>>)
                \o <<Tok("#", id)>>

AtLogin(id) == [i \in DOMAIN Banner |-> Tok(Banner[i], id)]
                \o <<Tok("login:", id)>>

\* What the device prints, and where it is then, when it takes a line, if the
\* output of a command is free of the text of the prompt.
PlainAnswers(place, line) ==
    CASE place = "login" /\ line.text = "" -> {<<"login", AtLogin(line.cmd)>>}
      [] place = "login" /\ line.text # "" ->
            {<<"password", <<Tok("password:", line.cmd)>>>>,
             <<"shell", Prompt(line.cmd)>>}
      [] place = "password" /\ line.text = "secret" -> {<<"shell", Prompt(line.cmd)>>}
      [] place = "password" /\ line.text # "secret" ->
            {<<"login", <<Tok("incorrect", line.cmd)>> \o AtLogin(line.cmd)>>}
      [] place = "shell" /\ line.text = "" -> {<<"shell", Prompt(line.cmd)>>}
      [] place = "shell" /\ line.text # "" ->
            {<<"shell", <<Tok("echo", line.cmd), Tok("out", line.cmd)>>
                          \o Prompt(line.cmd)>>}

\* The output of a command may also show the prompt, as any file with a "#".
Answers(place, line) ==
    PlainAnswers(place, line) \cup
        IF place = "shell" /\ line.text # ""
        THEN {<<"shell", <<Tok("echo", line.cmd), Tok("text#", line.cmd)>>
                           \o Prompt(line.cmd)>>}
        ELSE {}

DeviceTakes ==
    /\ typed # <<>>
    /\ \E a \in Answers(at, Head(typed)) :
        /\ at' = a[1] /\ wire' = wire \o a[2]
        /\ quiet' = (quiet /\ a \in PlainAnswers(at, Head(typed)))
    /\ typed' = Tail(typed)
    /\ UNCHANGED <<toolVars, part, others, sent>>

DeviceBabbles ==
    /\ Babbles /\ Len(wire) < MaxWire
    /\ \A t \in Range(buf \o wire) : t.text # "noise"
    /\ wire' = Append(wire, Tok("noise", 0))
    /\ UNCHANGED <<toolVars, at, typed, part, others, sent, quiet>>

(* A call of another thread on the same port: no lock guards the device.   *)

Other ==
    /\ others < MaxOthers /\ others' = others + 1
    /\ quiet' = FALSE
    /\ UNCHANGED <<toolVars, at, sent>>

\* It types a line of its login, or a command.
OtherTypes ==
    /\ Other
    /\ \E text \in {"", "secret", "cmd"} :
        typed' = Append(typed, Tok(IF part THEN "garbled" ELSE text, 0))
    /\ part' = FALSE
    /\ UNCHANGED wire

\* It reads or discards what has arrived, whoever it was for.
OtherTakes ==
    /\ Other /\ wire # <<>>
    /\ Flushed
    /\ UNCHANGED <<typed, part>>

SerialCall == \/ serial_execute \/ OpenFails \/ serial_open \/ LoginSays
        \/ LoginDeadline \/ RunSends \/ RunSendFails \/ RunDeadline \/ read_until

SerialDone == step = "idle" /\ ncalls = MaxSerialCalls /\ UNCHANGED serialVars

SerialNext == \/ SerialCall \/ DeviceTakes \/ DeviceBabbles
              \/ OtherTypes \/ OtherTakes \/ SerialDone

SerialSpec == SerialInit /\ [][SerialNext]_serialVars

\* The thread of the tool goes on, and the monotonic clock reaches every
\* deadline; the device need not do anything, and a send need not end.
SerialFairness ==
            /\ WF_serialVars(OpenFails \/ serial_open)
            /\ WF_serialVars(LoginDeadline) /\ WF_serialVars(RunDeadline)
-----------------------------------------------------------------------------
(* Properties *)

Texts == {"", "user", "secret", "wrong", "cmd", "garbled", "login:", "password:",
          "incorrect", "#", "text#", "echo", "out", "csi", "fin", "noise"}
Toks == [text : Texts, cmd : Nat]

SerialTypeOK ==
    /\ step \in {"idle", "open", "tickle", "seek", "user", "ask", "pass", "confirm",
              "send", "read"}
    /\ DOMAIN dev = DOMAIN Default
    /\ todo \in Seq({"cmd", ""}) /\ n \in 0 .. Len(todo) /\ asked \in Nat /\ fd \in BOOLEAN
    /\ buf \in Seq(Toks) /\ Len(buf) <= MAX_OUTPUT
    /\ \A i \in DOMAIN results : results[i].status \in {"ok", "timeout", "error"}
    /\ login_status \in {"none", "skipped", "already_authenticated", "ok"}
    /\ answer \in {"none", "ok", "error", "timeout", "login_failed"}
    /\ ncalls \in 0 .. MaxSerialCalls /\ sent \in Nat
    /\ at \in {"login", "password", "shell"} /\ others \in 0 .. MaxOthers
    /\ typed \in Seq(Toks) /\ wire \in Seq(Toks)
    /\ {part, quiet} \subseteq BOOLEAN

\* The setting that the two properties below are about: CR LF is one line end to
\* the device, which prints no escape sequences and whose banner has no text
\* that a wait looks for; and the profiles of the calls name its prompts and do
\* not use the password, or a command, as user name.
PlainProfile(p) ==
    /\ DOMAIN p = DOMAIN Default
    /\ p.prompt = "#" /\ p.login_prompt \in {"", "login:"}
    /\ p.username \in Texts \ {"secret", "cmd"}
    /\ p.password \in Texts \ {"cmd"}

PlainDevice ==
    /\ LineEnds = 1 /\ ~Colour
    /\ Banner \in Seq(Texts \ {"login:", "password:", "#", "text#", "csi", "noise"})
    /\ \A args \in Calls :
        ~Refused(args) => /\ PlainProfile(Profile(args))
                          /\ args.commands \in Seq({"cmd", ""})

\* "Per-command shell prompt detection for output boundary": if the device owed
\* nothing when the call began and nothing has disturbed the call (`quiet`), a
\* command reported "ok" is reported with its own output, all of it and no
\* other (besides what the console prints unasked): serial_login has consumed
\* exactly the prompts its lines cause.
OwnOutput ==
    \A i \in DOMAIN results :
        (results[i].status = "ok" /\ results[i].own.quiet) =>
            Without(results[i].output, {"noise"})
                = IF todo[i] = "" THEN <<>> ELSE <<Tok("out", results[i].own.id)>>

\* The same without the condition: refuted, a command that timed out, one whose
\* output has the prompt in it, and a call of another thread on the same port
\* leave their output to the next command.
AlwaysOwnOutput ==
    \A i \in DOMAIN results :
        results[i].status = "ok" =>
            \A k \in DOMAIN results[i].output :
                \/ results[i].output[k].cmd = results[i].own.id
                \/ results[i].output[k].text = "noise"

\* Where the device must be to take this line.
Place(line) ==
    CASE line.text = "secret" -> "password"
      [] line.text = "cmd" -> "shell"
      [] OTHER -> at

\* The login sequence keeps in step with the device: while nothing has disturbed
\* a call that began with a quiet device, the password is only ever read by the
\* device's password prompt (and never ends up as a shell command), a command
\* only by its shell.
InStep == [][(quiet /\ typed # <<>> /\ typed' = Tail(typed)) =>
                at = Place(Head(typed))]_serialVars

\* The same without the condition: refuted, two calls on one port log in over
\* each other, and the password of one is a command to the other's shell.
AlwaysInPlace == [][(typed # <<>> /\ typed' = Tail(typed)) =>
                        at = Place(Head(typed))]_serialVars

\* The thread is in a write, or in the tcdrain that ends it.
Sending == step \in DOMAIN Says \cup {"send"}

\* "Port always closed on all exit paths", "explicit deadline on every op": each
\* call comes back with an answer and the port closed, whatever the device and
\* the other calls do, or it is in one write for good: tcdrain is the one
\* operation that has no deadline.
CallReturns == (step # "idle") ~> ((step = "idle" /\ ~fd) \/ []Sending)

\* The same with no exception: refuted by a line that never drains.
EveryCallReturns == (step # "idle") ~> (step = "idle")

\* Every command passed is answered for: refuted beyond SERIAL_MAX_COMMANDS, the
\* rest of the array is dropped and the call still says "ok".
AllCommandsRun == answer = "ok" => Len(results) = asked
=============================================================================
