----------------------------- MODULE StatusLine -----------------------------
(***************************************************************************)
(* The status line of the terminal (ux/typing.c): a thread that draws a    *)
(* spinner while a turn runs, started and joined by status_set_detail,     *)
(* and the flag that says readline owns the terminal.  The flag is read    *)
(* some time before the thread writes.                                     *)
(***************************************************************************)
EXTENDS Naturals

VARIABLES
  g_active, g_rl_active,
  g_message,            \* there is a text of the turn to show
  g_daemon_mode,
  spinner,              \* the spinner thread, "none" before and after it
  held                  \* the text it is about to write: "none", "live", "freed"

statusVars == <<g_active, g_rl_active, g_message, g_daemon_mode, spinner, held>>

Spinning == {"Thinking", "Executing Tool", "Calling API"}

StatusInit ==
  /\ g_active = FALSE /\ g_rl_active = FALSE /\ g_message = FALSE
  /\ g_daemon_mode = FALSE /\ spinner = "none" /\ held = "none"

status_init(daemon_mode) ==
  /\ g_daemon_mode' = daemon_mode /\ g_active' = FALSE /\ g_rl_active' = FALSE
  /\ UNCHANGED <<g_message, spinner, held>>

status_readline(owns) ==
  /\ g_rl_active' = owns
  /\ UNCHANGED <<g_active, g_message, g_daemon_mode, spinner, held>>

\* status_set_detail, under the mutex: the old text is freed.  (A daemon only
\* prints the state; it has no CLI and so no turn that spins.)
StatusText(detail) ==
  /\ ~g_daemon_mode
  /\ g_message' = detail
  /\ held' = IF held = "live" THEN "freed" ELSE held
  /\ UNCHANGED <<g_active, g_rl_active, g_daemon_mode, spinner>>

\* ... after it: the thread is started, or told to stop.
StatusThread(state) ==
  /\ g_active' = (state \in Spinning)
  /\ spinner' = IF state \in Spinning /\ ~g_active THEN "loop" ELSE spinner
  /\ UNCHANGED <<g_rl_active, g_message, g_daemon_mode, held>>

\* ... and joined.
StatusJoin_not ==
  /\ ~g_active
  /\ UNCHANGED statusVars

StatusJoin ==
  /\ ~g_active /\ spinner \in {"none", "ended"}
  /\ spinner' = "none"
  /\ UNCHANGED <<g_active, g_rl_active, g_message, g_daemon_mode, held>>

\* The loop of spinner_fn: the flags, the text, the write, the sleep.
SpinnerTest ==
  /\ spinner = "loop"
  /\ spinner' = IF ~g_active THEN "last" ELSE IF g_rl_active THEN "sleep" ELSE "text"
  /\ UNCHANGED <<g_active, g_rl_active, g_message, g_daemon_mode, held>>

SpinnerText ==
  /\ spinner = "text"
  /\ spinner' = "write"
  /\ held' = IF g_message THEN "live" ELSE "none"
  /\ UNCHANGED <<g_active, g_rl_active, g_message, g_daemon_mode>>

SpinnerWrite ==
  /\ spinner = "write"
  /\ spinner' = "sleep" /\ held' = "none"
  /\ UNCHANGED <<g_active, g_rl_active, g_message, g_daemon_mode>>

SpinnerSleep ==
  /\ spinner = "sleep"
  /\ spinner' = "loop"
  /\ UNCHANGED <<g_active, g_rl_active, g_message, g_daemon_mode, held>>

SpinnerLast ==
  /\ spinner = "last"
  /\ spinner' = IF g_rl_active THEN "ended" ELSE "clear"
  /\ UNCHANGED <<g_active, g_rl_active, g_message, g_daemon_mode, held>>

SpinnerClear ==
  /\ spinner = "clear"
  /\ spinner' = "ended"
  /\ UNCHANGED <<g_active, g_rl_active, g_message, g_daemon_mode, held>>

spinner_fn == \/ SpinnerTest \/ SpinnerText \/ SpinnerWrite
              \/ SpinnerSleep \/ SpinnerLast \/ SpinnerClear

StatusTypeOK ==
  /\ {g_active, g_rl_active, g_message, g_daemon_mode} \subseteq BOOLEAN
  /\ spinner \in {"none", "loop", "text", "write", "sleep", "last", "clear",
                  "ended"}
  /\ held \in {"none", "live", "freed"}

\* While readline owns the terminal the spinner does not write to it: the
\* flag alone would not do, as the thread reads it before it takes the mutex;
\* what counts is that the prompt is shown after the thread was joined.
TerminalOwned == g_rl_active => spinner \notin {"text", "write", "clear"}

\* What the spinner writes has not been freed.  (It has: spinner_fn takes the
\* pointer under the mutex and uses it after, and the next iteration of the
\* turn replaces the text.)
NoFreedMessage == spinner = "write" => held # "freed"
=============================================================================
