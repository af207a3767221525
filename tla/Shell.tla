-------------------------------- MODULE Shell --------------------------------
(***************************************************************************)
(* The shell_exec tool (tools/shell/shell_tool.c): the thread of a turn    *)
(* forks `sh -c command`, drains its pipe, polls for its exit and kills it *)
(* at a deadline.  Around it: the process group of the command (external), *)
(* the clock, and the main thread whose readline owns the terminal.        *)
(*                                                                         *)
(* Output is counted in pieces of text; a "nul" piece is one that begins   *)
(* with a zero byte.  `sh` is the forked shell, `job` a background process *)
(* it started, which keeps the pipe open.                                  *)
(***************************************************************************)
EXTENDS Integers, Sequences

CONSTANTS
    Requests,         \* pairs <<command, timeout>> the model may ask for
    DEFAULT_TIMEOUT,  \* ticks; 30 seconds in the code
    MAX_TIMEOUT,      \* ticks; 300 seconds in the code
    MAX_OUTPUT_SIZE,  \* pieces kept
    PIPE_SIZE,        \* pieces the pipe holds
    MaxWrites,        \* bound: pieces counted, of those the command writes
    MaxShellCalls,         \* bound: calls of the tool
    Permitted,        \* the commands the allowlist permits
    Background        \* a turn may run while the user is at the prompt

ASSUME ShellBounds ==
    /\ {DEFAULT_TIMEOUT, MAX_TIMEOUT, MAX_OUTPUT_SIZE, PIPE_SIZE} \subseteq Nat \ {0}
    /\ DEFAULT_TIMEOUT <= MAX_TIMEOUT
    /\ {MaxWrites, MaxShellCalls} \subseteq Nat /\ MAX_OUTPUT_SIZE <= MaxWrites
    /\ \A r \in Requests : r[2] \in Int

VARIABLES
    phase, left, exit_code, out, timed_out, saved, calls,   \* the thread of the turn
    sh, job, pipe, wrote, clear, owed, printed,     \* the command
    tty, reading                                    \* the terminal, readline

turnVars == <<phase, left, exit_code, out, timed_out, saved, calls>>
cmdVars == <<sh, job, pipe, wrote, clear, owed, printed>>
ttyVars == <<tty, reading>>
shellVars == <<turnVars, cmdVars, ttyVars>>

Least(a, b) == IF a < b THEN a ELSE b

ShellInit ==
    /\ phase = "idle" /\ left = 0 /\ exit_code = "none" /\ out = 0 /\ timed_out = FALSE
    /\ saved = "cooked" /\ calls = 0
    /\ sh = "none" /\ job = FALSE /\ pipe = <<>>
    /\ wrote = 0 /\ clear = 0 /\ owed = 0 /\ printed = 0
    /\ tty = "cooked" /\ reading = FALSE
-----------------------------------------------------------------------------
(* The thread of the turn *)

\* A timeout out of range is replaced, not clamped.
Timeout(t) == IF t <= 0 \/ t > MAX_TIMEOUT THEN DEFAULT_TIMEOUT ELSE t

\* The allowlist is asked, the terminal state saved, the child forked.  When
\* pipe or fork fails the terminal state is put back as it was saved.
shell_execute ==
    /\ phase = "idle" /\ calls < MaxShellCalls
    /\ Background \/ ~reading
    /\ calls' = calls + 1
    /\ out' = 0 /\ timed_out' = FALSE
    /\ wrote' = 0 /\ clear' = 0 /\ owed' = 0 /\ printed' = 0
    /\ \E r \in Requests :
        \/ /\ r[1] \notin Permitted \/ r[1] = ""
           /\ exit_code' = "refused"
           /\ UNCHANGED <<phase, left, saved, sh, job, pipe>>
        \/ /\ r[1] \in Permitted /\ r[1] # ""
           /\ exit_code' = "spawn_failed"
           /\ UNCHANGED <<phase, left, saved, sh, job, pipe>>
        \/ /\ r[1] \in Permitted /\ r[1] # ""
           /\ exit_code' = "none" /\ phase' = "drain" /\ left' = Timeout(r[2])
           /\ saved' = tty
           /\ sh' = "running" /\ job' = FALSE /\ pipe' = <<>>
    /\ UNCHANGED ttyVars

\* The first j of these pieces are the ones before a zero byte.
Before(chunk, j) ==
    /\ \A i \in 1 .. j : chunk[i] = "text"
    /\ j < Len(chunk) => chunk[j + 1] = "nul"

\* Each iteration of the two read loops takes some of what is in the pipe.  A
\* chunk is appended as a string, up to its first zero byte: what follows it in
\* the chunk is lost, and so is what does not fit.
ReadChunk ==
    \E k \in 1 .. Len(pipe) :
        /\ pipe' = SubSeq(pipe, k + 1, Len(pipe))
        /\ \E j \in 0 .. k :
            /\ Before(SubSeq(pipe, 1, k), j)
            /\ out' = Least(out + j, MAX_OUTPUT_SIZE)

Drain ==
    /\ phase \in {"drain", "last"}
    /\ ReadChunk
    /\ UNCHANGED <<phase, left, exit_code, timed_out, saved, calls, sh, job,
                   wrote, clear, owed, printed, ttyVars>>

\* The read finds nothing; what the command writes from here on waits.
DrainEnds ==
    /\ phase = "drain" /\ pipe = <<>>
    /\ phase' = "poll"
    /\ UNCHANGED <<left, exit_code, out, timed_out, saved, calls, cmdVars, ttyVars>>

\* waitpid(WNOHANG), then the deadline, then a nap.
Poll ==
    /\ phase = "poll"
    /\ \/ /\ sh = "zombie"
          /\ phase' = "last" /\ sh' = "reaped" /\ exit_code' = "exited"
          /\ UNCHANGED timed_out
       \/ /\ sh # "zombie" /\ left = 0
          /\ phase' = "last" /\ sh' = "reaped" /\ timed_out' = TRUE
          /\ UNCHANGED exit_code
       \/ /\ sh # "zombie" /\ left > 0
          /\ phase' = "nap"
          /\ UNCHANGED <<sh, exit_code, timed_out>>
    /\ UNCHANGED <<left, out, saved, calls, job, pipe, wrote, clear, owed, printed,
                   ttyVars>>

Wake ==
    /\ phase = "nap" /\ phase' = "drain"
    /\ UNCHANGED <<left, exit_code, out, timed_out, saved, calls, cmdVars, ttyVars>>

\* Mutant of ShellReturn: no drain after the child has exited.
ShellReturn_undrained ==
    /\ phase = "last"
    /\ phase' = "idle"
    /\ tty' = saved
    /\ UNCHANGED <<left, exit_code, out, timed_out, saved, calls, cmdVars, reading>>

\* Mutant of ShellReturn: the last drain waits for the end of the output.
ShellReturn_eof ==
    /\ phase = "last" /\ pipe = <<>> /\ ~job
    /\ phase' = "idle"
    /\ tty' = saved
    /\ UNCHANGED <<left, exit_code, out, timed_out, saved, calls, cmdVars, reading>>

\* The last drain has emptied the pipe: it is closed, the terminal restored
\* (TCSAFLUSH) and the output, sanitised, is the answer.
ShellReturn ==
    /\ phase = "last" /\ pipe = <<>>
    /\ phase' = "idle"
    /\ tty' = saved
    /\ UNCHANGED <<left, exit_code, out, timed_out, saved, calls, cmdVars, reading>>

Tick ==
    /\ phase \in {"drain", "poll", "nap"} /\ left > 0
    /\ left' = left - 1
    /\ UNCHANGED <<phase, exit_code, out, timed_out, saved, calls, cmdVars, ttyVars>>
-----------------------------------------------------------------------------
(* The command (external): its stdin is /dev/null, its session its own *)

\* A piece of output, for ever if it likes.  `wrote` counts the pieces, `clear`
\* those before the first zero byte, both up to MaxWrites.
CommandWrites ==
    /\ sh = "running" \/ job
    /\ phase # "idle" /\ Len(pipe) < PIPE_SIZE
    /\ wrote' = Least(wrote + 1, MaxWrites)
    /\ \E piece \in {"text", "nul"} :
        /\ pipe' = Append(pipe, piece)
        /\ clear' = IF piece = "text" /\ clear = wrote THEN wrote' ELSE clear
    /\ UNCHANGED <<turnVars, sh, job, owed, printed, ttyVars>>

CommandForks ==
    /\ sh = "running" /\ ~job /\ job' = TRUE
    /\ UNCHANGED <<turnVars, sh, pipe, wrote, clear, owed, printed, ttyVars>>

CommandExits ==
    /\ sh = "running" /\ sh' = "zombie" /\ owed' = clear /\ printed' = wrote
    /\ UNCHANGED <<turnVars, job, pipe, wrote, clear, ttyVars>>

JobEnds ==
    /\ job /\ job' = FALSE
    /\ UNCHANGED <<turnVars, sh, pipe, wrote, clear, owed, printed, ttyVars>>

\* A program may open /dev/tty itself and leave it in another mode.
CommandSetsTty ==
    /\ sh = "running" /\ tty' = "raw"
    /\ UNCHANGED <<turnVars, cmdVars, reading>>

(* The main thread: readline switches the terminal to raw mode and back *)
ReadlineEnter ==
    /\ ~reading
    /\ Background \/ phase = "idle"
    /\ reading' = TRUE /\ tty' = "raw"
    /\ UNCHANGED <<turnVars, cmdVars>>

ReadlineLeave ==
    /\ reading
    /\ reading' = FALSE /\ tty' = "cooked"
    /\ UNCHANGED <<turnVars, cmdVars>>

ShellCall == shell_execute \/ Drain \/ DrainEnds \/ Poll \/ Wake \/ ShellReturn
Command == CommandWrites \/ CommandForks \/ CommandExits \/ JobEnds \/ CommandSetsTty

ShellNext == ShellCall \/ Tick \/ Command \/ ReadlineEnter \/ ReadlineLeave

ShellSpec == ShellInit /\ [][ShellNext]_shellVars

\* The turn's thread goes on and the clock runs; the command need not end, nor
\* stop writing.
ShellFairness ==
    /\ WF_shellVars(Drain) /\ WF_shellVars(DrainEnds) /\ WF_shellVars(Poll)
    /\ WF_shellVars(Wake) /\ WF_shellVars(ShellReturn) /\ WF_shellVars(Tick)
-----------------------------------------------------------------------------
ShellCounts ==
    /\ left \in 0 .. MAX_TIMEOUT /\ calls \in 0 .. MaxShellCalls
    /\ out \in 0 .. MAX_OUTPUT_SIZE
    /\ {wrote, clear, owed, printed} \subseteq 0 .. MaxWrites

ShellPipe == pipe \in Seq({"text", "nul"}) /\ Len(pipe) <= PIPE_SIZE

ShellModes ==
    /\ phase \in {"idle", "drain", "poll", "nap", "last"}
    /\ exit_code \in {"none", "refused", "spawn_failed", "exited"}
    /\ sh \in {"none", "running", "zombie", "reaped"}
    /\ {saved, tty} \subseteq {"cooked", "raw"}
    /\ timed_out \in BOOLEAN /\ job \in BOOLEAN /\ reading \in BOOLEAN

ShellTypeOK == ShellCounts /\ ShellPipe /\ ShellModes

\* Nothing the command printed before its first zero byte and before it exited
\* is missing from the answer, however its writes and exit fall between the
\* reads and the polls (except what MAX_OUTPUT_SIZE discards), and the child
\* has been waited for.
OutputKept ==
    (phase = "idle" /\ exit_code = "exited") =>
        out >= Least(owed, MAX_OUTPUT_SIZE) /\ sh = "reaped"

\* The same of all it printed: refuted, the text that follows a zero byte in the
\* same read is dropped though there is room for it.
AllOutputKept ==
    (phase = "idle" /\ exit_code = "exited") =>
        out >= Least(printed, MAX_OUTPUT_SIZE)

\* "enforce a hard wall-clock deadline": each call comes back, or it is for good
\* in a read loop that the command keeps supplied.
ShellReturns ==
    (phase # "idle") ~> (phase = "idle" \/ ([](phase \in {"drain", "last"})
                                             /\ []<>(pipe # <<>>)))

\* The same with no exception: refuted for a command, or a process it leaves
\* behind, that writes faster than it is read; the loops do not look at the
\* clock.
EveryShellReturns == (phase # "idle") ~> (phase = "idle")

\* "so the CLI readline prompt is always left in a clean state": when no call
\* runs the terminal is raw exactly while readline reads.  Refuted when a turn
\* of another channel runs during the prompt.
TtyClean == (phase = "idle") => (tty = "raw") = reading

\* "[dobby: command timed out and was killed]": nothing of it runs on.  Refuted,
\* only the shell is killed.
KilledIsGone == (phase = "idle" /\ timed_out) => ~job
=============================================================================
