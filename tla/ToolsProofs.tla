----------------------------- MODULE ToolsProofs -----------------------------
(***************************************************************************)
(* Proofs about the tools, for every value of the constants: what          *)
(* shell_exec keeps of the output of a command, what the three threads     *)
(* that share the socket of the WhatsApp channel put on it, and that       *)
(* serial_exec keeps in step with the device and reports each command with *)
(* its own output.                                                         *)
(***************************************************************************)
EXTENDS Tools, SequenceTheorems, NaturalsInduction, WellFoundedInduction, TLAPS

(* shell_exec *)

\* The first d pieces in the pipe are text, and with them the buffer has all
\* that is due, until it is full.
Comes(d, due) ==
    /\ d \in 0 .. Len(pipe) /\ \A i \in 1 .. d : pipe[i] = "text"
    /\ out = MAX_OUTPUT_SIZE \/ out + d >= due

\* Every piece the command has written before its first zero byte is in the
\* buffer or at the front of the pipe.
NothingLost == \E d \in Nat : Comes(d, clear)

\* As long as the command has written no zero byte there is none in the pipe.
NoNul ==
    (clear = wrote /\ clear < MaxWrites) =>
        \A i \in 1 .. Len(pipe) : pipe[i] = "text"

\* What is owed was written; only a child that was waited for has exited; the
\* pipe is empty between calls.
Settled ==
    /\ owed <= clear /\ clear <= wrote
    /\ exit_code = "exited" => sh = "reaped" /\ phase \in {"last", "idle"}
    /\ phase = "idle" => pipe = <<>>

ShellNumbers == ShellCounts /\ ShellPipe /\ NothingLost /\ NoNul /\ Settled

ShellInv == ShellNumbers /\ ShellModes

LEMMA ShellStart == ShellInit => ShellInv
<1> SUFFICES ASSUME ShellInit PROVE ShellInv
  OBVIOUS
<1>1. ShellCounts /\ ShellPipe /\ NoNul /\ Settled
  BY ShellBounds DEF ShellInit, ShellCounts, ShellPipe, NoNul, Settled
<1>2. NothingLost
  <2>1. Comes(0, clear)
    BY DEF ShellInit, Comes
  <2> QED BY <2>1 DEF NothingLost
<1>3. ShellModes
  BY DEF ShellInit, ShellModes
<1> QED BY <1>1, <1>2, <1>3 DEF ShellInv, ShellNumbers

LEMMA TimeoutInRange ==
    ASSUME NEW t \in Int
    PROVE  Timeout(t) \in 0 .. MAX_TIMEOUT
  BY ShellBounds DEF Timeout

\* Reading.  The pieces that come are in what is read or in what stays.
LEMMA DrainStep ==
    ASSUME ShellNumbers, Drain
    PROVE  ShellNumbers'
<1>0. ShellCounts /\ ShellPipe /\ NothingLost /\ NoNul /\ Settled
  BY DEF ShellNumbers
<1>1. PICK k \in 1 .. Len(pipe) :
        /\ pipe' = SubSeq(pipe, k + 1, Len(pipe))
        /\ \E j \in 0 .. k : Before(SubSeq(pipe, 1, k), j) /\ out' = Least(out + j, MAX_OUTPUT_SIZE)
  BY DEF Drain, ReadChunk
<1>2. PICK j \in 0 .. k : Before(SubSeq(pipe, 1, k), j) /\ out' = Least(out + j, MAX_OUTPUT_SIZE)
  BY <1>1
<1>3. /\ phase \in {"drain", "last"}
      /\ UNCHANGED <<phase, left, exit_code, calls, sh, wrote, clear, owed, printed>>
  BY DEF Drain
<1>4. pipe \in Seq({"text", "nul"}) /\ Len(pipe) \in Nat /\ Len(pipe) <= PIPE_SIZE
  BY <1>0 DEF ShellPipe
<1>5. /\ pipe' \in Seq({"text", "nul"}) /\ Len(pipe') = Len(pipe) - k
      /\ \A i \in 1 .. Len(pipe') : pipe'[i] = pipe[i + k]
  BY <1>1, <1>4
<1>6. (\A i \in 1 .. j : pipe[i] = "text") /\ (j < k => pipe[j + 1] = "nul")
  BY <1>2, <1>4 DEF Before
<1>7. MAX_OUTPUT_SIZE \in Nat /\ PIPE_SIZE \in Nat
  BY ShellBounds
<1>8. out' = IF out + j < MAX_OUTPUT_SIZE THEN out + j ELSE MAX_OUTPUT_SIZE
  BY <1>2 DEF Least
<1>9. out \in 0 .. MAX_OUTPUT_SIZE /\ {wrote, clear, owed, printed} \subseteq 0 .. MaxWrites
  BY <1>0 DEF ShellCounts
<1>10. ShellCounts'
  BY <1>0, <1>3, <1>7, <1>8, <1>9 DEF ShellCounts
<1>11. ShellPipe'
  BY <1>4, <1>5, <1>7 DEF ShellPipe
<1>12. NothingLost'
  <2>1. PICK d \in Nat : Comes(d, clear)
    BY <1>0 DEF NothingLost
  <2>2. /\ d <= Len(pipe) /\ \A i \in 1 .. d : pipe[i] = "text"
        /\ out = MAX_OUTPUT_SIZE \/ out + d >= clear
    BY <2>1 DEF Comes
  <2>3. CASE d <= j
    <3>1. Comes(0, clear)'
      BY <1>3, <1>5, <1>7, <1>8, <1>9, <2>2, <2>3 DEF Comes
    <3> QED BY <3>1 DEF NothingLost
  <2>4. CASE d > j
    <3>1. j = k
      <4> SUFFICES ASSUME j < k PROVE FALSE
        OBVIOUS
      <4>1. pipe[j + 1] = "nul" /\ pipe[j + 1] = "text"
        BY <1>6, <2>2, <2>4
      <4> QED BY <4>1
    <3>2. d - k \in Nat /\ d - k <= Len(pipe')
      BY <1>4, <1>5, <2>2, <2>4, <3>1
    <3>3. \A i \in 1 .. (d - k) : pipe'[i] = "text"
      BY <1>5, <2>2, <3>2
    <3>4. out' = MAX_OUTPUT_SIZE \/ out' + (d - k) >= clear
      BY <1>7, <1>8, <1>9, <2>2, <3>1, <3>2
    <3>5. Comes(d - k, clear)'
      BY <1>3, <1>4, <1>5, <3>2, <3>3, <3>4 DEF Comes
    <3> QED BY <3>2, <3>5 DEF NothingLost
  <2> QED BY <2>3, <2>4
<1>13. NoNul'
  BY <1>0, <1>3, <1>4, <1>5 DEF NoNul
<1>14. Settled'
  BY <1>0, <1>3 DEF Settled
<1> QED BY <1>10, <1>11, <1>12, <1>13, <1>14 DEF ShellNumbers

\* Writing.
LEMMA WritesStep ==
    ASSUME ShellNumbers, CommandWrites
    PROVE  ShellNumbers'
<1>0. ShellCounts /\ ShellPipe /\ NothingLost /\ NoNul /\ Settled
  BY DEF ShellNumbers
<1>1. PICK piece \in {"text", "nul"} :
        /\ pipe' = Append(pipe, piece)
        /\ clear' = IF piece = "text" /\ clear = wrote THEN wrote' ELSE clear
  BY DEF CommandWrites
<1>2. /\ phase # "idle" /\ Len(pipe) < PIPE_SIZE
      /\ wrote' = IF wrote + 1 < MaxWrites THEN wrote + 1 ELSE MaxWrites
      /\ UNCHANGED <<phase, left, exit_code, out, calls, sh, owed, printed>>
  BY DEF CommandWrites, turnVars, Least
<1>3. pipe \in Seq({"text", "nul"}) /\ Len(pipe) \in Nat
  BY <1>0 DEF ShellPipe
<1>4. /\ pipe' \in Seq({"text", "nul"}) /\ Len(pipe') = Len(pipe) + 1
      /\ \A i \in 1 .. Len(pipe) : pipe'[i] = pipe[i]
      /\ pipe'[Len(pipe) + 1] = piece
  BY <1>1, <1>3
<1>5. /\ MAX_OUTPUT_SIZE \in Nat /\ PIPE_SIZE \in Nat /\ MaxWrites \in Nat
      /\ MAX_OUTPUT_SIZE <= MaxWrites
  BY ShellBounds
<1>6. /\ out \in 0 .. MAX_OUTPUT_SIZE /\ wrote \in 0 .. MaxWrites /\ clear \in 0 .. MaxWrites
      /\ owed <= clear /\ clear <= wrote
  BY <1>0 DEF ShellCounts, Settled
<1>7. clear' \in {clear, wrote'} /\ wrote' \in 0 .. MaxWrites /\ wrote <= wrote'
  BY <1>1, <1>2, <1>5, <1>6
<1>8. ShellCounts'
  BY <1>0, <1>2, <1>7 DEF ShellCounts
<1>9. ShellPipe'
  BY <1>2, <1>3, <1>4, <1>5 DEF ShellPipe
<1>10. Settled'
  BY <1>0, <1>2, <1>6, <1>7 DEF Settled, ShellCounts
<1>11. PICK d \in Nat : Comes(d, clear)
  BY <1>0 DEF NothingLost
<1>12. /\ d <= Len(pipe) /\ \A i \in 1 .. d : pipe[i] = "text"
       /\ out = MAX_OUTPUT_SIZE \/ out + d >= clear
  BY <1>11 DEF Comes
<1>13. CASE clear' = clear
  <2>1. Comes(d, clear)'
    BY <1>2, <1>3, <1>4, <1>12, <1>13 DEF Comes
  <2>2. NoNul'
    <3> SUFFICES ASSUME clear' = wrote', clear' < MaxWrites PROVE FALSE
      BY DEF NoNul
    <3> QED BY <1>2, <1>5, <1>6, <1>13
  <2> QED BY <1>8, <1>9, <1>10, <2>1, <2>2 DEF NothingLost, ShellNumbers
<1>14. CASE clear' # clear
  <2>1. piece = "text" /\ clear = wrote /\ clear' = wrote' /\ clear' = clear + 1
    BY <1>1, <1>2, <1>5, <1>6, <1>14
  <2>2. \A i \in 1 .. Len(pipe) : pipe[i] = "text"
    BY <1>0, <1>2, <1>5, <1>6, <2>1 DEF NoNul
  <2>3. \A i \in 1 .. Len(pipe') : pipe'[i] = "text"
    <3> SUFFICES ASSUME NEW i \in 1 .. Len(pipe') PROVE pipe'[i] = "text"
      OBVIOUS
    <3>1. i \in 1 .. Len(pipe) \/ i = Len(pipe) + 1
      BY <1>3, <1>4
    <3> QED BY <1>4, <2>1, <2>2, <3>1
  <2>4. PICK e \in Nat : e = Len(pipe')
    BY <1>3, <1>4
  <2>5. Comes(e, clear)'
    BY <1>2, <1>3, <1>4, <1>6, <1>12, <2>1, <2>3, <2>4 DEF Comes
  <2> QED BY <1>3, <1>4, <1>8, <1>9, <1>10, <2>3, <2>5 DEF NothingLost, NoNul, ShellNumbers
<1> QED BY <1>13, <1>14

\* The numbers: what the pipe and the buffer hold and what is left of the time.
LEMMA ShellCounted ==
    ASSUME ShellInv, ShellNext
    PROVE  ShellNumbers'
<1>0. ShellNumbers /\ ShellCounts /\ ShellPipe /\ NothingLost /\ NoNul /\ Settled
  BY DEF ShellInv, ShellNumbers
<1>1. CASE shell_execute
  <2>1. PICK r \in Requests :
          \/ exit_code' \in {"refused", "spawn_failed"} /\ UNCHANGED <<phase, left, sh, pipe>>
          \/ /\ exit_code' = "none" /\ phase' = "drain" /\ left' = Timeout(r[2])
             /\ sh' = "running" /\ pipe' = <<>>
    BY <1>1 DEF shell_execute
  <2>2. /\ out' = 0 /\ wrote' = 0 /\ clear' = 0 /\ owed' = 0 /\ printed' = 0
        /\ calls' = calls + 1 /\ calls < MaxShellCalls /\ phase = "idle"
    BY <1>1 DEF shell_execute
  <2>3. Timeout(r[2]) \in 0 .. MAX_TIMEOUT
    BY ShellBounds, TimeoutInRange
  <2>4. pipe' = <<>>
    BY <1>0, <2>1, <2>2 DEF Settled
  <2>5. ShellCounts'
    <3>1. left' \in 0 .. MAX_TIMEOUT
      BY <1>0, <2>1, <2>2, <2>3, ShellBounds DEF ShellCounts
    <3>2. calls' \in 0 .. MaxShellCalls
      BY <1>0, <2>2, ShellBounds DEF ShellCounts
    <3>3. out' \in 0 .. MAX_OUTPUT_SIZE /\ {wrote, clear, owed, printed}' \subseteq 0 .. MaxWrites
      BY <2>2, ShellBounds
    <3> QED BY <3>1, <3>2, <3>3 DEF ShellCounts
  <2>6. ShellPipe' /\ NoNul' /\ Comes(0, clear)'
    BY <2>2, <2>4, ShellBounds DEF ShellPipe, NoNul, Comes
  <2>7. Settled'
    BY <2>1, <2>2, <2>4 DEF Settled
  <2> QED BY <2>5, <2>6, <2>7 DEF NothingLost, ShellNumbers
<1>2. CASE Drain
  BY <1>0, <1>2, DrainStep
<1>3. CASE DrainEnds \/ Poll \/ Wake \/ ShellReturn \/ Tick
  <2>1. UNCHANGED <<out, calls, pipe, wrote, clear, owed, printed>>
    BY <1>3 DEF DrainEnds, Poll, Wake, ShellReturn, Tick, cmdVars
  <2>2. ShellPipe' /\ NothingLost' /\ NoNul'
    BY <1>0, <2>1 DEF ShellPipe, NothingLost, Comes, NoNul
  <2>3. ShellCounts'
    <3>1. left' \in {left, left - 1} /\ (left' # left => left > 0)
      BY <1>3 DEF DrainEnds, Poll, Wake, ShellReturn, Tick
    <3>2. left' \in 0 .. MAX_TIMEOUT
      BY <1>0, <3>1, ShellBounds DEF ShellCounts
    <3> QED BY <1>0, <2>1, <3>2 DEF ShellCounts
  <2>4. Settled'
    BY <1>0, <1>3, <2>1 DEF DrainEnds, Poll, Wake, ShellReturn, Tick, cmdVars, Settled
  <2> QED BY <2>2, <2>3, <2>4 DEF ShellNumbers
<1>4. CASE CommandWrites
  BY <1>0, <1>4, WritesStep
<1>5. CASE CommandForks \/ CommandExits \/ JobEnds \/ CommandSetsTty \/ ReadlineEnter
           \/ ReadlineLeave
  <2>1. UNCHANGED <<phase, left, exit_code, out, calls, pipe, wrote, clear>>
    BY <1>5 DEF CommandForks, CommandExits, JobEnds, CommandSetsTty, ReadlineEnter,
         ReadlineLeave, turnVars, cmdVars
  <2>2. \/ sh = "running" /\ sh' = "zombie" /\ owed' = clear /\ printed' = wrote
        \/ UNCHANGED <<sh, owed, printed>>
    BY <1>5 DEF CommandForks, CommandExits, JobEnds, CommandSetsTty, ReadlineEnter,
         ReadlineLeave, turnVars, cmdVars
  <2>3. ShellPipe' /\ NothingLost' /\ NoNul'
    BY <1>0, <2>1 DEF ShellPipe, NothingLost, Comes, NoNul
  <2>4. ShellCounts' /\ Settled'
    BY <1>0, <2>1, <2>2 DEF ShellCounts, Settled
  <2> QED BY <2>3, <2>4 DEF ShellNumbers
<1> QED BY <1>1, <1>2, <1>3, <1>4, <1>5 DEF ShellNext, ShellCall, Command

\* The rest of the state.
LEMMA ShellModed ==
    ASSUME ShellInv, ShellNext
    PROVE  ShellModes'
<1>0. ShellModes
  BY DEF ShellInv
<1>1. CASE shell_execute
  BY <1>0, <1>1 DEF shell_execute, ttyVars, ShellModes
<1>2. CASE Drain \/ DrainEnds \/ Wake \/ Tick \/ CommandWrites
  BY <1>0, <1>2 DEF Drain, DrainEnds, Wake, Tick, CommandWrites, turnVars, cmdVars,
       ttyVars, ShellModes
<1>3. CASE Poll
  BY <1>0, <1>3 DEF Poll, ttyVars, ShellModes
<1>4. CASE ShellReturn
  BY <1>0, <1>4 DEF ShellReturn, cmdVars, ShellModes
<1>5. CASE CommandForks \/ CommandExits \/ JobEnds
  BY <1>0, <1>5 DEF CommandForks, CommandExits, JobEnds, turnVars, ttyVars, ShellModes
<1>6. CASE CommandSetsTty \/ ReadlineEnter \/ ReadlineLeave
  BY <1>0, <1>6 DEF CommandSetsTty, ReadlineEnter, ReadlineLeave, turnVars, cmdVars,
       ShellModes
<1> QED BY <1>1, <1>2, <1>3, <1>4, <1>5, <1>6 DEF ShellNext, ShellCall, Command

LEMMA ShellStill ==
    ASSUME ShellInv, UNCHANGED shellVars
    PROVE  ShellInv'
<1>1. ShellCounts' /\ ShellPipe' /\ NoNul' /\ Settled'
  BY DEF shellVars, turnVars, cmdVars, ShellInv, ShellNumbers, ShellCounts, ShellPipe,
       NoNul, Settled
<1>2. NothingLost'
  BY DEF shellVars, turnVars, cmdVars, ShellInv, ShellNumbers, NothingLost, Comes
<1>3. ShellModes'
  BY DEF shellVars, turnVars, cmdVars, ttyVars, ShellInv, ShellModes
<1> QED BY <1>1, <1>2, <1>3 DEF ShellInv, ShellNumbers

\* A step of the program that is not one of the shell leaves it as it is.
LEMMA ShellStep ==
    ASSUME ShellInv, [Next]_toolsVars
    PROVE  ShellInv'
  BY ShellCounted, ShellModed, ShellStill DEF Next, toolsVars, ShellInv

LEMMA ShellKept == ShellInv => OutputKept
<1> SUFFICES ASSUME ShellInv, phase = "idle", exit_code = "exited"
             PROVE  out >= Least(owed, MAX_OUTPUT_SIZE) /\ sh = "reaped"
  BY DEF OutputKept
<1>1. ShellCounts /\ Settled /\ NothingLost
  BY DEF ShellInv, ShellNumbers
<1>2. pipe = <<>> /\ owed <= clear /\ sh = "reaped"
  BY <1>1 DEF Settled
<1>3. PICK d \in Nat : Comes(d, clear)
  BY <1>1 DEF NothingLost
<1>4. out = MAX_OUTPUT_SIZE \/ out >= clear
  BY <1>1, <1>2, <1>3 DEF Comes, ShellCounts
<1> QED BY <1>1, <1>2, <1>4, ShellBounds DEF ShellCounts, Least

\* Type correctness of shell_exec, whatever the limits and the requests: above
\* all the timeout is never out of range and the buffer never over its cap.
THEOREM ShellTypeCorrect == Spec => []ShellTypeOK
<1>1. Init => ShellInv
  BY ShellStart DEF Init
<1>2. ShellInv /\ [Next]_toolsVars => ShellInv'
  BY ShellStep
<1>3. ShellInv => ShellTypeOK
  BY DEF ShellInv, ShellNumbers, ShellTypeOK
<1> QED BY <1>1, <1>2, <1>3, PTL DEF Spec

\* However the writes and the exit of the command fall between the reads and
\* the polls of shell_execute, an answer with an exit code has all the output
\* written before the exit and before the first zero byte, up to
\* MAX_OUTPUT_SIZE.
THEOREM OutputAlwaysKept == Spec => []OutputKept
<1>1. Init => ShellInv
  BY ShellStart DEF Init
<1>2. ShellInv /\ [Next]_toolsVars => ShellInv'
  BY ShellStep
<1>3. ShellInv => OutputKept
  BY ShellKept
<1> QED BY <1>1, <1>2, <1>3, PTL DEF Spec

----------------------------------------------------------------------------
(* The socket of the WhatsApp channel *)

Places == {"idle", "check", "lock", "json", "nl", "unlock", "unlock_failed"}

Writes == [kind : {"json", "nl"}, by : Threads]

WaTypes ==
    /\ spc \in [Threads -> Places]
    /\ lock \in Threads \cup {"free"}
    /\ stream \in Seq(Writes)

\* A thread between its lock and its unlock holds the lock.
Locked ==
    \A t \in Threads :
        spc[t] \in {"json", "nl", "unlock", "unlock_failed"} => lock = t

\* The receiving thread sends nothing but the authentication.
AuthOnly == rpc # "auth" => spc["recv"] = "idle"

\* A write reaches the bridge.
Connected == sock /\ desc = "conn" /\ peer

\* The stream ends within a frame only while its sender has the lock and is
\* about to write the newline, or when nothing can follow on this connection.
HalfFrame ==
    (stream # <<>> /\ stream[Len(stream)].kind = "json") =>
        (\E t \in Threads : lock = t /\ spc[t] = "nl") \/ ~Connected

WaInv == WaTypes /\ Locked /\ AuthOnly /\ HalfFrame /\ FramesWhole
LEMMA WaStart == WaInit => WaInv
  BY DEF WaInit, WaInv, WaTypes, Places, Threads, Senders, Locked, AuthOnly, HalfFrame,
       FramesWhole

\* Most steps do not touch the stream, and none of them mends a connection.
LEMMA Undisturbed ==
    ASSUME WaInv, UNCHANGED <<spc, lock, stream>>, Connected' => Connected,
           rpc' = "auth" <=> rpc = "auth"
    PROVE  WaInv'
<1>1. WaTypes' /\ Locked' /\ AuthOnly'
  BY DEF WaInv, WaTypes, Locked, AuthOnly
<1>2. HalfFrame'
  BY DEF WaInv, HalfFrame
<1>3. FramesWhole'
  BY DEF WaInv, FramesWhole
<1> QED BY <1>1, <1>2, <1>3 DEF WaInv

\* The threads that only receive, close or open.
LEMMA OthersUndisturbed ==
    ASSUME WaInv, \/ RecvConnect \/ RecvLoop \/ RecvRead \/ RecvEnds \/ RecvForgets
                  \/ DestroyStart \/ whatsapp_channel_destroy
                  \/ BridgeSends \/ BridgeCloses \/ OtherOpens
    PROVE  WaInv'
<1>1. CASE RecvConnect
  BY <1>1, Undisturbed DEF RecvConnect, sockVars, sendVars, Connected
<1>2. CASE RecvLoop
  BY <1>2, Undisturbed DEF RecvLoop, sendVars, Connected
<1>3. CASE RecvRead
  BY <1>3, Undisturbed DEF RecvRead, sockVars, sendVars, Connected
<1>4. CASE RecvEnds \/ RecvForgets
  BY <1>4, Undisturbed DEF RecvEnds, RecvForgets, sendVars, Connected
<1>5. CASE DestroyStart \/ whatsapp_channel_destroy
  BY <1>5, Undisturbed DEF DestroyStart, whatsapp_channel_destroy, recvVars, sockVars,
       sendVars, Connected
<1>6. CASE BridgeSends
  BY <1>6, Undisturbed DEF BridgeSends, recvVars, sendVars, Connected
<1>7. CASE BridgeCloses \/ OtherOpens
  BY <1>7, Undisturbed DEF BridgeCloses, OtherOpens, recvVars, sendVars, Connected
<1> QED BY <1>1, <1>2, <1>3, <1>4, <1>5, <1>6, <1>7

\* A new connection begins with an empty stream.
LEMMA ConnectStep ==
    ASSUME WaInv, tcp_connect
    PROVE  WaInv'
<1>1. CASE rpc' = "loop" /\ UNCHANGED <<sockVars, stream, inq, whole, spc>>
  BY <1>1, Undisturbed DEF tcp_connect, sockVars, Connected
<1>2. CASE /\ stream' = <<>>
           /\ IF HasToken
              THEN rpc' = "auth" /\ spc' = [spc EXCEPT !["recv"] = "check"]
              ELSE rpc' = "read" /\ UNCHANGED spc
  <2>0. lock' = lock /\ rpc = "connect" /\ spc["recv"] = "idle" /\ "recv" \in Threads
    BY DEF tcp_connect, WaInv, AuthOnly, Threads
  <2>1. WaTypes'
    BY <1>2, <2>0 DEF WaInv, WaTypes, Places
  <2>2. Locked' /\ AuthOnly'
    BY <1>2, <2>0 DEF WaInv, WaTypes, Locked, AuthOnly
  <2>3. HalfFrame' /\ FramesWhole'
    BY <1>2 DEF HalfFrame, FramesWhole
  <2> QED BY <2>1, <2>2, <2>3 DEF WaInv
<1> QED BY <1>1, <1>2 DEF tcp_connect

\* A thread moves between its places without writing.
LEMMA Moves ==
    ASSUME WaInv, NEW t \in Threads, NEW to \in Places,
           spc' = [spc EXCEPT ![t] = to], UNCHANGED stream, Connected' => Connected,
           spc[t] # "nl",
           \/ lock' = lock /\ to \in {"idle", "check", "lock"}
           \/ lock = "free" /\ lock' = t
           \/ lock = t /\ lock' = "free" /\ to = "idle",
           AuthOnly'
    PROVE  WaInv'
<1>0. WaTypes /\ Locked /\ AuthOnly /\ HalfFrame /\ FramesWhole /\ "free" \notin Threads
  BY DEF WaInv, Threads, Senders
<1>1. /\ spc' \in [Threads -> Places] /\ spc'[t] = to
      /\ \A u \in Threads \ {t} : spc'[u] = spc[u]
  BY <1>0 DEF WaTypes
<1>2. WaTypes'
  BY <1>0, <1>1 DEF WaTypes
<1>3. Locked'
  BY <1>0, <1>1 DEF Locked
<1>4. HalfFrame'
  BY <1>0, <1>1 DEF HalfFrame
<1>5. FramesWhole'
  BY <1>0 DEF FramesWhole
<1> QED BY <1>2, <1>3, <1>4, <1>5 DEF WaInv
\* What the moves of send_line have in common: a sender is not the receiving
\* thread, and that one sends while rpc is "auth".
LEMMA MoveKeepsAuth ==
    ASSUME WaInv, NEW t \in Threads, NEW to \in Places,
           spc' = [spc EXCEPT ![t] = to],
           \/ rpc' = rpc /\ (spc[t] # "idle" \/ t \in Senders)
           \/ t = "recv" /\ to = "idle"
    PROVE  AuthOnly'
  BY DEF WaInv, WaTypes, AuthOnly, Threads, Senders

LEMMA SendStartStep ==
    ASSUME WaInv, NEW s \in Senders, SendStart(s)
    PROVE  WaInv'
<1>0. /\ s \in Threads /\ "check" \in Places /\ spc[s] = "idle"
      /\ UNCHANGED <<rpc, sock, desc, peer, lock, stream>>
  BY DEF SendStart, Threads, Places, recvVars, sockVars
<1>1. CASE spc' = [spc EXCEPT ![s] = "check"]
  <2>1. AuthOnly'
    BY <1>0, <1>1, MoveKeepsAuth
  <2> QED BY <1>0, <1>1, <2>1, Moves DEF Connected
<1>2. CASE UNCHANGED spc
  BY <1>0, <1>2, Undisturbed DEF Connected
<1> QED BY <1>1, <1>2 DEF SendStart

LEMMA SendCheckStep ==
    ASSUME WaInv, NEW t \in Threads, SendCheck(t)
    PROVE  WaInv'
<1>0. /\ spc[t] = "check" /\ {"lock", "idle"} \subseteq Places
      /\ UNCHANGED <<sock, desc, peer, lock, stream>>
  BY DEF SendCheck, Places, sockVars
<1>1. PICK to \in {"lock", "idle"} :
        /\ spc' = [spc EXCEPT ![t] = to]
        /\ rpc' = rpc \/ (t = "recv" /\ to = "idle")
  BY DEF SendCheck, Over
<1>2. AuthOnly'
  BY <1>0, <1>1, MoveKeepsAuth
<1> QED BY <1>0, <1>1, <1>2, Moves DEF Connected

LEMMA SendLockStep ==
    ASSUME WaInv, NEW t \in Threads, SendLock(t)
    PROVE  WaInv'
<1>0. /\ spc[t] = "lock" /\ "json" \in Places /\ spc' = [spc EXCEPT ![t] = "json"]
      /\ lock = "free" /\ lock' = t
      /\ UNCHANGED <<rpc, sock, desc, peer, stream>>
  BY DEF SendLock, Places, recvVars, sockVars
<1>1. AuthOnly'
  BY <1>0, MoveKeepsAuth
<1> QED BY <1>0, <1>1, Moves DEF Connected

LEMMA SendUnlockStep ==
    ASSUME WaInv, NEW t \in Threads, SendUnlock(t)
    PROVE  WaInv'
<1>0. /\ spc[t] \in {"unlock", "unlock_failed"} /\ "idle" \in Places
      /\ spc' = [spc EXCEPT ![t] = "idle"]
      /\ lock' = "free" /\ rpc' = (IF t = "recv" THEN "read" ELSE rpc)
      /\ UNCHANGED <<sock, desc, peer, stream>>
  BY DEF SendUnlock, Over, Places, sockVars
<1>1. lock = t
  BY <1>0 DEF WaInv, Locked
<1>2. AuthOnly'
  BY <1>0, MoveKeepsAuth
<1> QED BY <1>0, <1>1, <1>2, Moves DEF Connected

\* The two writes of a frame.  The lock is held: if the stream ended within a
\* frame, it is the one this thread is about to end, or nothing gets through.
LEMMA WriteStep ==
    ASSUME WaInv, NEW t \in Threads, SendJson(t) \/ SendNewline(t)
    PROVE  WaInv'
<1>0. /\ WaTypes /\ Locked /\ AuthOnly /\ HalfFrame /\ FramesWhole
      /\ "free" \notin Threads
  BY DEF WaInv, Threads, Senders
<1>1. PICK kind \in {"json", "nl"} : spc[t] = kind /\ Write(t, kind)
  BY DEF SendJson, SendNewline
<1>2. lock = t /\ UNCHANGED <<rpc, sock, peer, lock>>
  BY <1>0, <1>1 DEF SendJson, SendNewline, recvVars, Locked
<1> DEFINE after == IF kind = "json" THEN "nl" ELSE "unlock"
<1>3. PICK to \in {after, "unlock_failed"} :
        /\ spc' = [spc EXCEPT ![t] = to]
        /\ \/ /\ Connected /\ to = after
              /\ stream' = Append(stream, [kind |-> kind, by |-> t])
           \/ ~Connected /\ ~Connected' /\ stream' = stream
  BY <1>1, <1>2 DEF Write, Connected
<1>4. /\ to \in Places /\ spc' \in [Threads -> Places] /\ spc'[t] = to
      /\ \A u \in Threads \ {t} : spc'[u] = spc[u]
  BY <1>0, <1>3 DEF WaTypes, Places
<1>5. stream \in Seq(Writes)
  BY <1>0 DEF WaTypes
<1>6. WaTypes'
  <2>1. [kind |-> kind, by |-> t] \in Writes
    BY DEF Writes
  <2>2. stream' \in Seq(Writes)
    BY <1>3, <1>5, <2>1
  <2> QED BY <1>0, <1>2, <1>4, <2>2 DEF WaTypes
<1>7. Locked'
  BY <1>0, <1>2, <1>4 DEF Locked
<1>8. AuthOnly'
  BY <1>0, <1>1, <1>2, <1>4 DEF AuthOnly, Threads
<1>9. HalfFrame' /\ FramesWhole'
  <2>1. CASE ~Connected /\ ~Connected' /\ stream' = stream
    BY <1>0, <2>1 DEF HalfFrame, FramesWhole
  <2>2. CASE /\ Connected /\ to = after
             /\ stream' = Append(stream, [kind |-> kind, by |-> t])
    <3>1. /\ Len(stream') = Len(stream) + 1 /\ Len(stream) \in Nat
          /\ stream'[Len(stream')].kind = kind
          /\ \A i \in 1 .. Len(stream) : stream'[i] = stream[i]
      BY <1>5, <2>2
    <3>2. HalfFrame'
      BY <1>2, <1>4, <2>2, <3>1 DEF HalfFrame
    <3>3. kind = "json" /\ stream # <<>> => stream[Len(stream)].kind = "nl"
      <4>1. spc[t] = "json" => ~ \E u \in Threads : lock = u /\ spc[u] = "nl"
        BY <1>2
      <4>2. stream # <<>> => stream[Len(stream)].kind \in {"json", "nl"}
        <5>1. stream # <<>> => Len(stream) \in 1 .. Len(stream)
          BY <1>5
        <5>2. \A i \in 1 .. Len(stream) : stream[i] \in Writes
          BY <1>5
        <5>3. \A w \in Writes : w.kind \in {"json", "nl"}
          BY DEF Writes
        <5> QED BY <5>1, <5>2, <5>3
      <4> QED BY <1>0, <1>1, <2>2, <4>1, <4>2 DEF HalfFrame
    <3>4. FramesWhole'
      <4> SUFFICES ASSUME NEW i \in 2 .. Len(stream'), stream'[i].kind = "json"
                   PROVE  stream'[i - 1].kind = "nl"
        BY DEF FramesWhole
      <4>1. CASE i <= Len(stream)
        BY <1>0, <3>1, <4>1 DEF FramesWhole
      <4>2. CASE i = Len(stream')
        BY <1>5, <3>1, <3>3, <4>2
      <4> QED BY <3>1, <4>1, <4>2
    <3> QED BY <3>2, <3>4
  <2> QED BY <1>3, <2>1, <2>2
<1> QED BY <1>6, <1>7, <1>8, <1>9 DEF WaInv

LEMMA WaStill ==
    ASSUME WaInv, UNCHANGED waVars
    PROVE  WaInv'
  BY Undisturbed DEF waVars, recvVars, sockVars, sendVars, Connected

LEMMA WaStep ==
    ASSUME WaInv, [Next]_toolsVars
    PROVE  WaInv'
<1>1. CASE WaNext
  BY <1>1, OthersUndisturbed, ConnectStep, SendStartStep, SendCheckStep, SendLockStep,
       SendUnlockStep, WriteStep DEF WaNext, Recv, Sends
<1> QED BY <1>1, WaStill DEF Next, toolsVars

\* However the replies of the dispatcher, the messages of a tool and the
\* authentication of a reconnect interleave, and wherever the connection
\* breaks, the bridge never gets a frame that begins inside another one.
THEOREM FramesAlwaysWhole == Spec => []FramesWhole
<1>1. Init => WaInv
  BY WaStart DEF Init
<1>2. WaInv /\ [Next]_toolsVars => WaInv'
  BY WaStep
<1>3. WaInv => FramesWhole
  BY DEF WaInv
<1> QED BY <1>1, <1>2, <1>3, PTL DEF Spec
----------------------------------------------------------------------------
(* The port of serial_exec *)

\* serial_tool.c, "Port always closed on all exit paths": when no call is in
\* progress, and before one has opened it, the port is not open.
PortClosed == step \in {"idle", "open"} => fd = FALSE

LEMMA RecordCloses ==
    ASSUME NEW status, NEW output, NEW own, Record(status, output, own)
    PROVE  step' = "send" \/ (step' = "idle" /\ fd' = FALSE)
  BY DEF Record

\* A wait of the tool ends in a step of the login, in the next command or in
\* the answer.
LEMMA ReadCloses ==
    ASSUME PortClosed, read_until
    PROVE  PortClosed'
<1>0. step \in {"seek", "ask", "confirm", "read"}
  BY DEF read_until, Waits
<1> DEFINE read(k) == Accumulated(buf, SubSeq(wire, 1, k))
<1>1. PICK k \in 1 .. Len(wire) :
        IF ~ \E i \in DOMAIN Waits[step] : Found(read(k), Waits[step][i])
        THEN UNCHANGED <<step, login_status, n, fd, results, answer>>
        ELSE IF step = "read"
        THEN /\ Record("ok", Cleaned(read(k), todo[n + 1]), [id |-> sent, quiet |-> quiet])
             /\ UNCHANGED login_status
        ELSE LoginFound(read(k)) /\ UNCHANGED <<n, fd, results, answer>>
  BY DEF read_until
<1>2. CASE step' = step
  BY <1>0, <1>2 DEF PortClosed
<1>3. ASSUME Record("ok", Cleaned(read(k), todo[n + 1]), [id |-> sent, quiet |-> quiet])
      PROVE  PortClosed'
  BY <1>3, RecordCloses DEF PortClosed
<1>4. CASE LoginFound(read(k)) /\ step # "read"
  BY <1>0, <1>4 DEF LoginFound, PortClosed
<1> QED BY <1>1, <1>2, <1>3, <1>4

LEMMA PortStep ==
    ASSUME PortClosed, [Next]_toolsVars
    PROVE  PortClosed'
<1>1. CASE serial_execute \/ OpenFails \/ serial_open \/ LoginDeadline
  BY <1>1 DEF serial_execute, OpenFails, serial_open, LoginDeadline, GiveUp, PortClosed
<1>2. CASE LoginSays
  BY <1>2 DEF LoginSays, Says, AfterSaying, PortClosed
<1>3. CASE RunSends
  BY <1>3 DEF RunSends, PortClosed
<1>4. CASE RunSendFails \/ RunDeadline
  BY <1>4, RecordCloses DEF RunSendFails, RunDeadline, PortClosed
<1>5. CASE \/ DeviceTakes \/ DeviceBabbles \/ OtherTypes \/ OtherTakes \/ SerialDone
           \/ UNCHANGED serialVars
  BY <1>5 DEF DeviceTakes, DeviceBabbles, OtherTypes, OtherTakes, Other, SerialDone,
       serialVars, toolVars, PortClosed
<1> QED BY <1>1, <1>2, <1>3, <1>4, <1>5, ReadCloses
         DEF Next, toolsVars, SerialNext, SerialCall

\* "Port always closed on all exit paths", on the refusals, the failed open, the
\* failed login, the failed write and the deadlines as on the good path.
THEOREM PortAlwaysClosed == Spec => []PortClosed
<1>1. Init => PortClosed
  BY DEF Init, SerialInit, PortClosed
<1>2. PortClosed /\ [Next]_toolsVars => PortClosed'
  BY PortStep
<1> QED BY <1>1, <1>2, PTL DEF Spec

-----------------------------------------------------------------------------
(* Taking tokens out of a stream.  Keep is a recursive function: its equation *)
(* is established by the least position where it could fail, and what holds of *)
(* every sequence by the shortest one for which it could fail.                 *)

LEMMA First ==
  ASSUME NEW S \in SUBSET Nat, S # {}
  PROVE  \E k \in S : \A j \in S : k <= j
<1>1. PICK k \in S : \A j \in S : ~(<<j, k>> \in OpToRel(<, Nat))
  BY NatLessThanWellFounded, WFMin, Zenon
<1>2. \A j \in S : <<j, k>> \in OpToRel(<, Nat) <=> j < k
  BY Zenon DEF OpToRel
<1>3. \A j \in S : ~(j < k)
  BY <1>1, <1>2, Zenon
<1> QED BY <1>3

\* Sequences that Keep goes through.
Unfolds(f, s, I, len) ==
  f = [i \in 0 .. len |-> IF i = 0 THEN <<>>
                        ELSE IF i \in I THEN Append(f[i - 1], s[i]) ELSE f[i - 1]]

LEMMA UnfoldsExists ==
  ASSUME NEW s, NEW I, NEW len \in Nat
  PROVE  \E f : Unfolds(f, s, I, len)
<1> SUFFICES ASSUME ~ \E f : Unfolds(f, s, I, len) PROVE FALSE
  OBVIOUS
<1> DEFINE D == {k \in Nat : ~ \E f : Unfolds(f, s, I, k)}
<1>1. PICK k \in D : \A j \in D : k <= j
  <2>1. D \in SUBSET Nat /\ len \in D
    OBVIOUS
  <2> QED BY <2>1, First, Zenon
<1>2. CASE k = 0
  <2>1. Unfolds([i \in 0 .. 0 |-> <<>>], s, I, 0)
    BY DEF Unfolds
  <2> QED BY <1>1, <1>2, <2>1
<1>3. CASE k # 0
  <2>1. k - 1 \in Nat /\ k - 1 \notin D
    BY <1>1, <1>3
  <2>2. PICK f : Unfolds(f, s, I, k - 1)
    BY <2>1
  <2> DEFINE g == [i \in 0 .. k |-> IF i < k THEN f[i]
                       ELSE IF i \in I THEN Append(f[i - 1], s[i]) ELSE f[i - 1]]
  <2>3. \A i \in 0 .. k - 1 : f[i] = IF i = 0 THEN <<>>
                        ELSE IF i \in I THEN Append(f[i - 1], s[i]) ELSE f[i - 1]
    BY <2>2, <2>1 DEF Unfolds
  <2>4. \A i \in 0 .. k : g[i] = IF i = 0 THEN <<>>
                        ELSE IF i \in I THEN Append(g[i - 1], s[i]) ELSE g[i - 1]
    <3> SUFFICES ASSUME NEW i \in 0 .. k
                 PROVE g[i] = IF i = 0 THEN <<>>
                        ELSE IF i \in I THEN Append(g[i - 1], s[i]) ELSE g[i - 1]
      OBVIOUS
    <3>1. CASE i = 0
      BY <3>1, <2>3, <1>3, <2>1
    <3>2. CASE i # 0
      <4>1. g[i - 1] = f[i - 1]
        BY <3>2, <1>3, <2>1
      <4>2. g[i] = IF i \in I THEN Append(f[i - 1], s[i]) ELSE f[i - 1]
        BY <3>2, <2>3, <1>3, <2>1
      <4> QED BY <4>1, <4>2, <3>2
    <3> QED BY <3>1, <3>2
  <2>5. Unfolds(g, s, I, k)
    <3>. HIDE DEF g
    <3>1. g = [i \in 0 .. k |-> g[i]]
      BY DEF g
    <3> QED BY <3>1, <2>4 DEF Unfolds
  <2> QED BY <1>1, <2>5
<1> QED BY <1>2, <1>3

LEMMA KeepUnfolds ==
  ASSUME NEW s \in Seq(Toks), NEW I
  PROVE  \E f : Unfolds(f, s, I, Len(s)) /\ Keep(s, I) = f[Len(s)]
<1>1. Len(s) \in Nat
  OBVIOUS
<1> DEFINE h == CHOOSE f : Unfolds(f, s, I, Len(s))
<1>2. Unfolds(h, s, I, Len(s))
  BY <1>1, UnfoldsExists
<1>3. Keep(s, I) = h[Len(s)]
  BY Zenon DEF Keep, Unfolds
<1> QED BY <1>2, <1>3

LEMMA KeepNone ==
  ASSUME NEW I
  PROVE  Keep(<<>>, I) = <<>>
<1>1. <<>> \in Seq(Toks) /\ Len(<<>>) = 0
  OBVIOUS
<1>2. PICK f : Unfolds(f, <<>>, I, 0) /\ Keep(<<>>, I) = f[0]
  BY <1>1, KeepUnfolds
<1> QED BY <1>2 DEF Unfolds

LEMMA KeepAppend ==
  ASSUME NEW s \in Seq(Toks), NEW x \in Toks, NEW I, NEW J,
         \A i \in 1 .. Len(s) : i \in I <=> i \in J
  PROVE  Keep(Append(s, x), J)
           = IF Len(s) + 1 \in J THEN Append(Keep(s, I), x) ELSE Keep(s, I)
<1> DEFINE len == Len(s)
           t == Append(s, x)
<1>0. len \in Nat /\ t \in Seq(Toks) /\ Len(t) = len + 1 /\ t[len + 1] = x
  OBVIOUS
<1>1. \A i \in 1 .. len : t[i] = s[i]
  OBVIOUS
<1> HIDE DEF len, t
<1>2. PICK f : Unfolds(f, s, I, len) /\ Keep(s, I) = f[len]
  BY KeepUnfolds DEF len
<1>3. PICK g : Unfolds(g, t, J, len + 1) /\ Keep(t, J) = g[len + 1]
  BY <1>0, KeepUnfolds
<1>4. \A i \in 0 .. len :
        f[i] = IF i = 0 THEN <<>> ELSE IF i \in I THEN Append(f[i - 1], s[i]) ELSE f[i - 1]
  BY <1>2 DEF Unfolds
<1>5. \A i \in 0 .. len + 1 :
        g[i] = IF i = 0 THEN <<>> ELSE IF i \in J THEN Append(g[i - 1], t[i]) ELSE g[i - 1]
  BY <1>3 DEF Unfolds
<1>6. \A i \in 0 .. len : f[i] = g[i]
  <2> SUFFICES ASSUME NEW q \in 0 .. len, f[q] # g[q] PROVE FALSE
    OBVIOUS
  <2> DEFINE D == {i \in 0 .. len : f[i] # g[i]}
  <2>1. PICK k \in D : \A j \in D : k <= j
    <3>1. D \in SUBSET Nat /\ q \in D
      BY <1>0
    <3> QED BY <3>1, First, Zenon
  <2>2. k # 0
    BY <2>1, <1>4, <1>5, <1>0
  <2>3. k - 1 \in 0 .. len /\ k \in 1 .. len /\ k \in 0 .. len + 1
    BY <2>1, <2>2, <1>0
  <2>4. f[k - 1] = g[k - 1]
    BY <2>1, <2>3
  <2>5. t[k] = s[k] /\ (k \in I <=> k \in J)
    BY <2>3, <1>1 DEF len
  <2>6. f[k] = g[k]
    BY <2>2, <2>3, <2>4, <2>5, <1>4, <1>5
  <2> QED BY <2>1, <2>6
<1>7. len \in 0 .. len /\ len + 1 \in 0 .. len + 1 /\ len + 1 # 0 /\ (len + 1) - 1 = len
  BY <1>0
<1>8. g[len + 1] = IF len + 1 \in J THEN Append(g[len], t[len + 1]) ELSE g[len]
  BY <1>5, <1>7
<1>9. Keep(t, J) = IF len + 1 \in J THEN Append(Keep(s, I), x) ELSE Keep(s, I)
  BY <1>0, <1>2, <1>3, <1>6, <1>7, <1>8
<1> QED BY <1>9 DEF len, t

LEMMA WithoutNone ==
  ASSUME NEW T
  PROVE  Without(<<>>, T) = <<>>
  BY KeepNone DEF Without

LEMMA WithoutAppend ==
  ASSUME NEW s \in Seq(Toks), NEW x \in Toks, NEW T
  PROVE  Without(Append(s, x), T)
           = IF x.text \in T THEN Without(s, T) ELSE Append(Without(s, T), x)
<1> DEFINE I == {i \in DOMAIN s : s[i].text \notin T}
           J == {i \in DOMAIN Append(s, x) : Append(s, x)[i].text \notin T}
<1>1. \A i \in 1 .. Len(s) : i \in I <=> i \in J
  OBVIOUS
<1>2. Len(s) + 1 \in J <=> x.text \notin T
  OBVIOUS
<1> HIDE DEF I, J
<1>3. Keep(Append(s, x), J)
           = IF Len(s) + 1 \in J THEN Append(Keep(s, I), x) ELSE Keep(s, I)
  BY <1>1, KeepAppend
<1>4. Without(s, T) = Keep(s, I) /\ Without(Append(s, x), T) = Keep(Append(s, x), J)
  BY DEF Without, I, J
<1> QED BY <1>2, <1>3, <1>4

LEMMA Shortest ==
  ASSUME NEW B \in SUBSET Seq(Toks), B # {}
  PROVE  \E s \in B : \/ s = <<>>
                        \/ \E r \in Seq(Toks), x \in Toks : s = Append(r, x) /\ r \notin B
<1> DEFINE L == {Len(s) : s \in B}
<1>1. PICK k \in L : \A j \in L : k <= j
  <2>1. \A s \in B : Len(s) \in Nat
    OBVIOUS
  <2>2. L \in SUBSET Nat
    BY <2>1
  <2>3. L # {}
    OBVIOUS
  <2> QED BY <2>2, <2>3, First, Zenon
<1>2. PICK s \in B : Len(s) = k
  BY <1>1
<1>3. CASE s = <<>>
  BY <1>2, <1>3
<1>4. CASE s # <<>>
  <2>1. PICK r \in Seq(Toks), x \in Toks : s = Append(r, x)
    BY <1>2, <1>4, SequenceEmptyOrAppend
  <2>2. Len(r) = k - 1 /\ Len(r) \in Nat
    BY <2>1, <1>2
  <2>3. r \notin B
    BY <2>2, <1>1
  <2> QED BY <1>2, <2>1, <2>3
<1> QED BY <1>3, <1>4

LEMMA WithoutType ==
  ASSUME NEW s \in Seq(Toks), NEW T
  PROVE  Without(s, T) \in Seq(Toks)
<1> SUFFICES ASSUME Without(s, T) \notin Seq(Toks) PROVE FALSE
  OBVIOUS
<1> DEFINE B == {r \in Seq(Toks) : Without(r, T) \notin Seq(Toks)}
<1>1. PICK b \in B : \/ b = <<>>
                     \/ \E r \in Seq(Toks), x \in Toks : b = Append(r, x) /\ r \notin B
  <2>1. B \in SUBSET Seq(Toks) /\ B # {}
    OBVIOUS
  <2> QED BY <2>1, Shortest
<1>2. CASE b = <<>>
  BY <1>1, <1>2, WithoutNone
<1>3. CASE \E r \in Seq(Toks), x \in Toks : b = Append(r, x) /\ r \notin B
  <2>1. PICK r \in Seq(Toks), x \in Toks : b = Append(r, x) /\ r \notin B
    BY <1>3
  <2>2. Without(r, T) \in Seq(Toks)
    BY <2>1
  <2>3. Without(b, T) = IF x.text \in T THEN Without(r, T) ELSE Append(Without(r, T), x)
    BY <2>1, WithoutAppend
  <2>4. Without(b, T) \in Seq(Toks)
    BY <2>2, <2>3
  <2> QED BY <1>1, <2>4
<1> QED BY <1>1, <1>2, <1>3

LEMMA ConcatAppend ==
  ASSUME NEW u \in Seq(Toks), NEW v \in Seq(Toks), NEW x \in Toks
  PROVE  u \o Append(v, x) = Append(u \o v, x) /\ u \o v \in Seq(Toks)
  OBVIOUS

LEMMA WithoutConcat ==
  ASSUME NEW s \in Seq(Toks), NEW t \in Seq(Toks), NEW T
  PROVE  Without(s \o t, T) = Without(s, T) \o Without(t, T)
<1> SUFFICES ASSUME Without(s \o t, T) # Without(s, T) \o Without(t, T) PROVE FALSE
  OBVIOUS
<1> DEFINE B == {r \in Seq(Toks) : Without(s \o r, T) # Without(s, T) \o Without(r, T)}
<1>0. Without(s, T) \in Seq(Toks)
  BY WithoutType
<1>1. PICK b \in B : \/ b = <<>>
                     \/ \E r \in Seq(Toks), x \in Toks : b = Append(r, x) /\ r \notin B
  <2>1. B \in SUBSET Seq(Toks) /\ B # {}
    OBVIOUS
  <2> QED BY <2>1, Shortest
<1>2. CASE b = <<>>
  <2>1. s \o b = s /\ Without(b, T) = <<>>
    BY <1>2, WithoutNone
  <2>2. \A w \in Seq(Toks) : w \o <<>> = w
    OBVIOUS
  <2>3. Without(s, T) \o Without(b, T) = Without(s, T)
    BY <1>0, <2>1, <2>2
  <2> QED BY <1>1, <2>1, <2>3
<1>3. CASE \E r \in Seq(Toks), x \in Toks : b = Append(r, x) /\ r \notin B
  <2>1. PICK r \in Seq(Toks), x \in Toks : b = Append(r, x) /\ r \notin B
    BY <1>3
  <2> DEFINE ws == Without(s, T)
             wr == Without(r, T)
  <2>2. Without(s \o r, T) = ws \o wr
    BY <2>1
  <2>3. Without(b, T) = IF x.text \in T THEN wr ELSE Append(wr, x)
    BY <2>1, WithoutAppend
  <2>4. s \o b = Append(s \o r, x) /\ s \o r \in Seq(Toks)
    <3>1. s \o Append(r, x) = Append(s \o r, x) /\ s \o r \in Seq(Toks)
      BY ConcatAppend, ZenonT(30)
    <3>2. s \o b = s \o Append(r, x)
      BY <2>1, Zenon
    <3> QED BY <3>1, <3>2, Zenon
  <2>5. Without(s \o b, T) = IF x.text \in T THEN ws \o wr ELSE Append(ws \o wr, x)
    <3>1. Without(Append(s \o r, x), T)
            = IF x.text \in T THEN Without(s \o r, T) ELSE Append(Without(s \o r, T), x)
      BY <2>4, WithoutAppend, Zenon
    <3> QED BY <2>2, <2>4, <3>1, Zenon
  <2>6. wr \in Seq(Toks)
    BY WithoutType
  <2> HIDE DEF ws, wr
  <2>7. ws \o Append(wr, x) = Append(ws \o wr, x)
    BY <1>0, <2>6, ConcatAppend DEF ws
  <2>8. Without(s \o b, T) = ws \o Without(b, T)
    BY <2>3, <2>5, <2>7
  <2> QED BY <1>1, <2>8 DEF ws
<1> QED BY <1>1, <1>2, <1>3

LEMMA WithoutIdle ==
  ASSUME NEW s \in Seq(Toks), NEW T, \A i \in DOMAIN s : s[i].text \notin T
  PROVE  Without(s, T) = s
<1> SUFFICES ASSUME Without(s, T) # s PROVE FALSE
  OBVIOUS
<1> DEFINE B == {r \in Seq(Toks) : (\A i \in DOMAIN r : r[i].text \notin T) /\ Without(r, T) # r}
<1>1. PICK b \in B : \/ b = <<>>
                     \/ \E r \in Seq(Toks), x \in Toks : b = Append(r, x) /\ r \notin B
  <2>1. B \in SUBSET Seq(Toks) /\ B # {}
    OBVIOUS
  <2> QED BY <2>1, Shortest
<1>2. CASE b = <<>>
  BY <1>1, <1>2, WithoutNone
<1>3. CASE \E r \in Seq(Toks), x \in Toks : b = Append(r, x) /\ r \notin B
  <2>1. PICK r \in Seq(Toks), x \in Toks : b = Append(r, x) /\ r \notin B
    BY <1>3
  <2>2. b = Append(r, x) /\ DOMAIN b = 1 .. Len(r) + 1 /\ DOMAIN r = 1 .. Len(r)
        /\ \A i \in DOMAIN b : b[i].text \notin T
    <3>1. b = Append(r, x) /\ \A i \in DOMAIN b : b[i].text \notin T
      BY <2>1, <1>1
    <3>2. DOMAIN Append(r, x) = 1 .. Len(r) + 1 /\ DOMAIN r = 1 .. Len(r)
      OBVIOUS
    <3> QED BY <3>1, <3>2
  <2>3. x.text \notin T /\ \A i \in DOMAIN r : r[i].text \notin T
    BY <2>1, <2>2
  <2>4. Without(r, T) = r
    BY <2>1, <2>3
  <2>5. Without(b, T) = IF x.text \in T THEN Without(r, T) ELSE Append(Without(r, T), x)
    BY <2>1, WithoutAppend
  <2> QED BY <1>1, <2>1, <2>3, <2>4, <2>5
<1> QED BY <1>1, <1>2, <1>3

LEMMA KeepAll ==
  ASSUME NEW s \in Seq(Toks), NEW I, \A i \in 1 .. Len(s) : i \in I
  PROVE  Keep(s, I) = s
<1> SUFFICES ASSUME Keep(s, I) # s PROVE FALSE
  OBVIOUS
<1> DEFINE B == {r \in Seq(Toks) : (\A i \in 1 .. Len(r) : i \in I) /\ Keep(r, I) # r}
<1>1. PICK b \in B : \/ b = <<>>
                     \/ \E r \in Seq(Toks), x \in Toks : b = Append(r, x) /\ r \notin B
  <2>1. B \in SUBSET Seq(Toks) /\ B # {}
    OBVIOUS
  <2> QED BY <2>1, Shortest
<1>2. CASE b = <<>>
  BY <1>1, <1>2, KeepNone
<1>3. CASE \E r \in Seq(Toks), x \in Toks : b = Append(r, x) /\ r \notin B
  <2>1. PICK r \in Seq(Toks), x \in Toks : b = Append(r, x) /\ r \notin B
    BY <1>3
  <2>2. Len(r) \in Nat /\ Len(Append(r, x)) = Len(r) + 1
    OBVIOUS
  <2>3. \A i \in 1 .. Len(r) + 1 : i \in I
    BY <2>1, <2>2, <1>1
  <2>4. Keep(r, I) = r
    BY <2>1, <2>2, <2>3
  <2>5. Keep(b, I) = Append(Keep(r, I), x)
    BY <2>1, <2>2, <2>3, KeepAppend
  <2> QED BY <1>1, <2>1, <2>4, <2>5
<1> QED BY <1>1, <1>2, <1>3

LEMMA WithoutOne ==
  ASSUME NEW x \in Toks, NEW T
  PROVE  Without(<<x>>, T) = IF x.text \in T THEN <<>> ELSE <<x>>
<1>1. <<>> \in Seq(Toks) /\ Append(<<>>, x) = <<x>>
  OBVIOUS
<1>2. Without(Append(<<>>, x), T)
        = IF x.text \in T THEN Without(<<>>, T) ELSE Append(Without(<<>>, T), x)
  BY <1>1, WithoutAppend
<1> QED BY <1>1, <1>2, WithoutNone

Splits(s, t, T) == Without(s \o t, T) = Without(s, T) \o Without(t, T)

LEMMA WithoutSplits ==
  ASSUME NEW s \in Seq(Toks), NEW t \in Seq(Toks), NEW T
  PROVE  Splits(s, t, T)
  BY WithoutConcat DEF Splits

\* s cut at the position i.
LEMMA Cut ==
  ASSUME NEW s \in Seq(Toks), NEW i \in 1 .. Len(s)
  PROVE  \E a, d, m, c \in Seq(Toks) :
           /\ s = a \o d /\ d = m \o c /\ m = <<s[i]>>
           /\ a = SubSeq(s, 1, i - 1) /\ c = SubSeq(s, i + 1, Len(s))
<1>1. /\ SubSeq(s, 1, i - 1) \in Seq(Toks) /\ SubSeq(s, i + 1, Len(s)) \in Seq(Toks)
      /\ SubSeq(s, i, Len(s)) \in Seq(Toks) /\ <<s[i]>> \in Seq(Toks)
  OBVIOUS
<1>2. SubSeq(s, i, Len(s)) = <<s[i]>> \o SubSeq(s, i + 1, Len(s))
  OBVIOUS
<1>3. s = SubSeq(s, 1, i - 1) \o SubSeq(s, i, Len(s))
  OBVIOUS
<1> QED BY <1>1, <1>2, <1>3, Zenon

LEMMA WithoutHas ==
  ASSUME NEW s \in Seq(Toks), NEW i \in DOMAIN s, NEW T, s[i].text \notin T
  PROVE  \E j \in DOMAIN Without(s, T) : Without(s, T)[j] = s[i]
<1>0. i \in 1 .. Len(s) /\ s[i] \in Toks
  OBVIOUS
<1>1. PICK a, d, m, c \in Seq(Toks) :
           /\ s = a \o d /\ d = m \o c /\ m = <<s[i]>>
           /\ a = SubSeq(s, 1, i - 1) /\ c = SubSeq(s, i + 1, Len(s))
  BY <1>0, Cut, Zenon
<1>2. Without(d, T) = Without(m, T) \o Without(c, T)
      /\ Without(s, T) = Without(a, T) \o Without(d, T)
  <2>1. d = m \o c /\ s = a \o d
    BY <1>1
  <2>2. Splits(m, c, T) /\ Splits(a, d, T)
    BY WithoutSplits, Zenon
  <2>3. Without(d, T) = Without(m, T) \o Without(c, T)
    BY <2>1, <2>2, Zenon DEF Splits
  <2>4. Without(s, T) = Without(a, T) \o Without(d, T)
    BY <2>1, <2>2, Zenon DEF Splits
  <2> QED BY <2>3, <2>4, Zenon
<1>3. Without(m, T) = <<s[i]>>
  BY <1>0, <1>1, WithoutOne, Zenon
<1>4. Without(a, T) \in Seq(Toks) /\ Without(c, T) \in Seq(Toks)
  BY WithoutType
<1>5. \A u, v \in Seq(Toks), x \in Toks :
        Len(u) + 1 \in DOMAIN (u \o (<<x>> \o v)) /\ (u \o (<<x>> \o v))[Len(u) + 1] = x
  OBVIOUS
<1>6. PICK u, v \in Seq(Toks) : Without(s, T) = u \o (<<s[i]>> \o v)
  BY <1>2, <1>3, <1>4, Zenon
<1>7. Len(u) + 1 \in DOMAIN (u \o (<<s[i]>> \o v))
      /\ (u \o (<<s[i]>> \o v))[Len(u) + 1] = s[i]
  BY <1>0, <1>5, <1>6, Zenon
<1> QED BY <1>6, <1>7, Zenon

\* And nothing else.
LEMMA WithoutOnly ==
  ASSUME NEW s \in Seq(Toks), NEW T, NEW j \in DOMAIN Without(s, T)
  PROVE  \E i \in DOMAIN s : s[i].text \notin T /\ Without(s, T)[j] = s[i]
<1> DEFINE Fine(r) == \A k \in DOMAIN Without(r, T) :
                         \E i \in DOMAIN r : r[i].text \notin T /\ Without(r, T)[k] = r[i]
<1> SUFFICES ASSUME ~Fine(s) PROVE FALSE
  OBVIOUS
<1> DEFINE B == {r \in Seq(Toks) : ~Fine(r)}
<1>1. PICK b \in B : \/ b = <<>>
                     \/ \E r \in Seq(Toks), x \in Toks : b = Append(r, x) /\ r \notin B
  <2>1. B \in SUBSET Seq(Toks) /\ B # {}
    OBVIOUS
  <2> QED BY <2>1, Shortest
<1>2. CASE b = <<>>
  BY <1>1, <1>2, WithoutNone
<1>3. CASE \E r \in Seq(Toks), x \in Toks : b = Append(r, x) /\ r \notin B
  <2>1. PICK r \in Seq(Toks), x \in Toks : b = Append(r, x) /\ r \notin B
    BY <1>3
  <2>2. Fine(r)
    BY <2>1
  <2> DEFINE w == Without(r, T)
  <2>3. Without(b, T) = IF x.text \in T THEN w ELSE Append(w, x)
    BY <2>1, WithoutAppend
  <2>4. w \in Seq(Toks)
    BY WithoutType
  <2>5. /\ \A i \in DOMAIN r : i \in DOMAIN b /\ b[i] = r[i]
        /\ Len(r) + 1 \in DOMAIN b /\ b[Len(r) + 1] = x
    BY <2>1
  <2>6. \A k \in DOMAIN w : \E i \in DOMAIN b : b[i].text \notin T /\ w[k] = b[i]
    BY <2>2, <2>5
  <2> HIDE DEF w, Fine
  <2>7. CASE x.text \in T
    BY <2>3, <2>6, <2>7, <1>1 DEF Fine
  <2>8. CASE x.text \notin T
    <3>1. Without(b, T) = Append(w, x)
      BY <2>3, <2>8
    <3>2. \A k \in DOMAIN Append(w, x) : \/ k \in DOMAIN w /\ Append(w, x)[k] = w[k]
                                       \/ Append(w, x)[k] = x
      BY <2>4
    <3>3. Fine(b)
      BY <3>1, <3>2, <2>5, <2>6, <2>8 DEF Fine
    <3> QED BY <3>3, <1>1
  <2> QED BY <2>7, <2>8
<1> QED BY <1>1, <1>2, <1>3

LEMMA WithoutEmpty ==
  ASSUME NEW s \in Seq(Toks), NEW T
  PROVE  Without(s, T) = <<>> <=> \A i \in DOMAIN s : s[i].text \in T
<1>1. Without(s, T) \in Seq(Toks)
  BY WithoutType
<1>2. ASSUME Without(s, T) = <<>>, NEW i \in DOMAIN s, s[i].text \notin T PROVE FALSE
  <2>1. PICK j \in DOMAIN Without(s, T) : Without(s, T)[j] = s[i]
    BY <1>2, WithoutHas
  <2> QED BY <2>1, <1>2
<1>3. ASSUME Without(s, T) # <<>> PROVE \E i \in DOMAIN s : s[i].text \notin T
  <2>1. 1 \in DOMAIN Without(s, T)
    BY <1>1, <1>3
  <2> QED BY <2>1, WithoutOnly
<1> QED BY <1>2, <1>3

LEMMA WithoutTwice ==
  ASSUME NEW s \in Seq(Toks), NEW T, NEW U
  PROVE  Without(Without(s, T), U) = Without(s, T \cup U)
<1> DEFINE Fine(r) == Without(Without(r, T), U) = Without(r, T \cup U)
<1> SUFFICES ASSUME ~Fine(s) PROVE FALSE
  OBVIOUS
<1> DEFINE B == {r \in Seq(Toks) : ~Fine(r)}
<1>1. PICK b \in B : \/ b = <<>>
                     \/ \E r \in Seq(Toks), x \in Toks : b = Append(r, x) /\ r \notin B
  <2>1. B \in SUBSET Seq(Toks) /\ B # {}
    OBVIOUS
  <2> QED BY <2>1, Shortest
<1>2. CASE b = <<>>
  BY <1>1, <1>2, WithoutNone
<1>3. CASE \E r \in Seq(Toks), x \in Toks : b = Append(r, x) /\ r \notin B
  <2>1. PICK r \in Seq(Toks), x \in Toks : b = Append(r, x) /\ r \notin B
    BY <1>3
  <2>2. Fine(r)
    BY <2>1
  <2> DEFINE w == Without(r, T)
             v == Without(r, T \cup U)
  <2>3. Without(b, T) = IF x.text \in T THEN w ELSE Append(w, x)
    BY <2>1, WithoutAppend
  <2>4. Without(b, T \cup U) = IF x.text \in T \cup U THEN v ELSE Append(v, x)
    BY <2>1, WithoutAppend
  <2>5. w \in Seq(Toks)
    BY WithoutType
  <2>6. Without(Append(w, x), U) = IF x.text \in U THEN Without(w, U) ELSE Append(Without(w, U), x)
    BY <2>5, WithoutAppend
  <2>7. Without(w, U) = v
    BY <2>2
  <2> HIDE DEF w, v
  <2>8. Without(Without(b, T), U) = Without(b, T \cup U)
    BY <2>3, <2>4, <2>6, <2>7
  <2> QED BY <1>1, <2>8
<1> QED BY <1>1, <1>2, <1>3

Assoc(x, y, z) == (x \o y) \o z = x \o (y \o z)

LEMMA ConcatTwice ==
  ASSUME NEW x \in Seq(Toks), NEW y \in Seq(Toks), NEW z \in Seq(Toks)
  PROVE  Assoc(x, y, z)
  BY DEF Assoc

LEMMA StripPlain ==
  ASSUME NEW s \in Seq(Toks), \A i \in DOMAIN s : s[i].text # "csi"
  PROVE  strip_ansi(s) = s
<1> DEFINE I == {i \in DOMAIN s : /\ s[i].text # "csi"
                                  /\ ~(s[i].text = "fin" /\ InEscape(s, i))}
<1>1. \A i \in 1 .. Len(s) : i \in I
  <2> SUFFICES ASSUME NEW i \in 1 .. Len(s) PROVE i \in I
    OBVIOUS
  <2>1. i \in DOMAIN s /\ \A j \in 1 .. i - 1 : j \in DOMAIN s
    OBVIOUS
  <2>2. ~InEscape(s, i)
    BY <2>1 DEF InEscape
  <2> QED BY <2>1, <2>2
<1> HIDE DEF I
<1>2. Keep(s, I) = s
  BY <1>1, KeepAll
<1> QED BY <1>2 DEF strip_ansi, I

\* A read has taken s and w to b and v.
Chunk(s, w, b, v) ==
    /\ b \in Seq(Toks) /\ Len(b) <= MAX_OUTPUT
    /\ v \in Seq(Toks) /\ \A i \in DOMAIN v : v[i].text # "csi"
    /\ Len(s) = MAX_OUTPUT => b = s
    /\ \E d, r \in Seq(Toks) :
          s \o w = b \o d /\ d = r \o v /\ (r = <<>> \/ Len(b) = MAX_OUTPUT)

LEMMA ChunkRead ==
  ASSUME NEW s \in Seq(Toks), NEW w \in Seq(Toks), NEW k \in 1 .. Len(w),
         \A i \in DOMAIN w : w[i].text # "csi"
  PROVE  Chunk(s, w, Accumulated(s, SubSeq(w, 1, k)), SubSeq(w, k + 1, Len(w)))
<1>0. MAX_OUTPUT \in Nat
  BY SerialBounds
<1> DEFINE u == SubSeq(w, 1, k)
           v == SubSeq(w, k + 1, Len(w))
           all == s \o u
           m == IF Len(all) > MAX_OUTPUT THEN MAX_OUTPUT ELSE Len(all)
           b == SubSeq(all, 1, m)
           r == SubSeq(all, m + 1, Len(all))
<1>1. /\ u \in Seq(Toks) /\ \A i \in DOMAIN u : u[i].text # "csi"
      /\ v \in Seq(Toks) /\ \A i \in DOMAIN v : v[i].text # "csi"
  OBVIOUS
<1>2. w = u \o v
  OBVIOUS
<1>3. Accumulated(s, SubSeq(w, 1, k)) = b
  <2> HIDE DEF u
  <2>1. strip_ansi(u) = u
    BY <1>1, StripPlain
  <2> QED BY <2>1 DEF Accumulated, u
<1> HIDE DEF u, v
<1>4. all \in Seq(Toks) /\ s \o w = all \o v /\ Len(all) \in Nat
  <2>1. all \in Seq(Toks)
    BY <1>1
  <2>2. Len(all) \in Nat
    BY <2>1
  <2>3. Assoc(s, u, v)
    BY <1>1, ConcatTwice
  <2>4. s \o w = all \o v
    BY <1>2, <2>3, Zenon DEF Assoc, all
  <2> QED BY <2>1, <2>2, <2>4
<1>5. Len(s) = MAX_OUTPUT => b = s
  BY <1>0, <1>1
<1> HIDE DEF all
<1>6. m \in 0 .. Len(all) /\ m <= MAX_OUTPUT /\ (m = Len(all) \/ m = MAX_OUTPUT)
  BY <1>0, <1>4
<1> HIDE DEF m
<1>7. /\ b \in Seq(Toks) /\ Len(b) = m
      /\ r \in Seq(Toks) /\ (m = Len(all) => r = <<>>)
  BY <1>4, <1>6
<1>8. all = b \o r
  <2>1. 1 \in 1 .. Len(all) + 1 /\ m \in 1 - 1 .. Len(all) /\ Len(all) \in m .. Len(all)
    BY <1>4, <1>6
  <2>2. SubSeq(all, 1, m) \o SubSeq(all, m + 1, Len(all)) = SubSeq(all, 1, Len(all))
    BY <2>1, <1>4, ConcatAdjacentSubSeq, Zenon
  <2>3. SubSeq(all, 1, Len(all)) = all
    BY <1>4, SubSeqFull, Zenon
  <2> QED BY <2>2, <2>3
<1> HIDE DEF b, r
<1>9. s \o w = b \o (r \o v)
  <2>1. Assoc(b, r, v)
    BY <1>1, <1>7, ConcatTwice
  <2> QED BY <1>4, <1>8, <2>1, Zenon DEF Assoc
<1>10. r \o v \in Seq(Toks)
  BY <1>1, <1>7
<1>11. Len(b) <= MAX_OUTPUT /\ (r = <<>> \/ Len(b) = MAX_OUTPUT)
  BY <1>6, <1>7
<1>12. Chunk(s, w, b, v)
  BY <1>1, <1>5, <1>7, <1>9, <1>10, <1>11, Zenon DEF Chunk
<1> QED BY <1>3, <1>12, Zenon DEF v

Noise == {"noise"}

\* A is what b, some skipped text and v show together.
Streamed(b, v, A) ==
    \E r \in Seq(Toks) : \E d \in Seq(Toks) : d = r \o v /\ Without(b \o d, Noise) = A

\* If a token with the text of x is in A, it is the last one.
Closes(x, A) ==
    x.text \notin Noise /\ \A j \in 1 .. Len(A) - 1 : A[j].text # x.text

\* When the last token of an answer has been read, the whole answer has been.
LEMMA Consumed ==
  ASSUME NEW b \in Seq(Toks), NEW v \in Seq(Toks), NEW A \in Seq(Toks), Streamed(b, v, A),
         NEW i \in DOMAIN b, Closes(b[i], A)
  PROVE  /\ Without(b, Noise) = A /\ Without(v, Noise) = <<>>
         /\ A # <<>> /\ A[Len(A)] = b[i]
<1>1. PICK r \in Seq(Toks) : \E d \in Seq(Toks) : d = r \o v /\ Without(b \o d, Noise) = A
  BY Zenon DEF Streamed
<1>0. PICK d \in Seq(Toks) : d = r \o v /\ Without(b \o d, Noise) = A
  BY <1>1, Zenon
<1> DEFINE B == Without(b, Noise)
           R == Without(r, Noise)
           V == Without(v, Noise)
<1>2. A = B \o (R \o V)
  <2>1. Splits(r, v, Noise) /\ Splits(b, d, Noise)
    BY WithoutSplits
  <2> QED BY <1>0, <2>1, Zenon DEF Splits
<1>3. B \in Seq(Toks) /\ R \in Seq(Toks) /\ V \in Seq(Toks)
  BY WithoutType
<1>4. \E j \in DOMAIN B : B[j] = b[i]
  <2>1. b[i].text \notin Noise
    BY Zenon DEF Closes
  <2> QED BY <2>1, WithoutHas
<1> HIDE DEF B, R, V
<1>5. PICK j \in DOMAIN B : B[j] = b[i]
  BY <1>4
<1>6. j \in 1 .. Len(B) /\ A[j] = b[i] /\ Len(A) = Len(B) + (Len(R) + Len(V))
  BY <1>2, <1>3, <1>5
<1>7. j = Len(A) /\ Len(R) = 0 /\ Len(V) = 0
  <2>1. ~(j \in 1 .. Len(A) - 1)
    BY <1>6, Zenon DEF Closes
  <2>2. Len(B) \in Nat /\ Len(R) \in Nat /\ Len(V) \in Nat
    BY <1>3
  <2> QED BY <1>6, <2>1, <2>2
<1>8. B = A /\ V = <<>>
  BY <1>2, <1>3, <1>7
<1>9. A # <<>> /\ A[Len(A)] = b[i]
  BY <1>6, <1>7
<1> QED BY <1>8, <1>9 DEF B, V

Sites == {"login", "password", "shell"}
Ending == [login |-> "login:", password |-> "password:", shell |-> "#"]
Looked == {"login:", "password:", "#", "text#", "csi", "noise"}

\* An answer of the device is one text that a wait may look for, at its end.
Ends(s, text) ==
    /\ s \in Seq(Toks) /\ Len(s) > 0 /\ s[Len(s)].text = text
    /\ \A j \in 1 .. Len(s) - 1 : s[j].text \notin Looked

LEMMA LoginEnds ==
  ASSUME PlainDevice, NEW id \in Nat
  PROVE  Ends(AtLogin(id), "login:")
<1> DEFINE bs == [i \in DOMAIN Banner |-> Tok(Banner[i], id)]
<1>1. Banner \in Seq(Texts \ Looked)
  BY DEF PlainDevice, Looked
<1>2. \A i \in 1 .. Len(Banner) : Banner[i] \in Texts /\ Banner[i] \notin Looked
  BY <1>1
<1>3. /\ bs \in Seq(Toks) /\ Len(bs) = Len(Banner) /\ Len(Banner) \in Nat
      /\ \A i \in 1 .. Len(bs) : bs[i].text \notin Looked
  <2>1. \A i \in 1 .. Len(Banner) : bs[i] \in Toks /\ bs[i].text = Banner[i]
    BY <1>1, <1>2 DEF Tok, Toks
  <2>2. DOMAIN bs = 1 .. Len(Banner) /\ Len(Banner) \in Nat
    BY <1>1
  <2>3. bs \in [1 .. Len(Banner) -> Toks]
    BY <2>1, <2>2
  <2> HIDE DEF bs
  <2>4. bs \in Seq(Toks) /\ Len(bs) = Len(Banner)
    BY <2>2, <2>3
  <2> QED BY <1>2, <2>1, <2>2, <2>4
<1>4. Tok("login:", id) \in Toks /\ Tok("login:", id).text = "login:"
  BY DEF Tok, Toks, Texts
<1> HIDE DEF bs
<1>5. \A x \in Toks : x.text = "login:" => Ends(bs \o <<x>>, "login:")
  BY <1>3 DEF Ends
<1> QED BY <1>4, <1>5 DEF AtLogin, bs

LEMMA AnswerShape ==
  ASSUME PlainDevice, NEW p \in Sites, NEW ln \in Toks, NEW a \in PlainAnswers(p, ln)
  PROVE  a[1] \in Sites /\ Ends(a[2], Ending[a[1]])
<1>0. ln.cmd \in Nat /\ ~Colour
  BY DEF Toks, PlainDevice
<1>1. \A x \in Toks : x.text \in {"login:", "password:", "#"} => Ends(<<x>>, x.text)
  BY DEF Ends
<1>2. \A t \in Texts : Tok(t, ln.cmd) \in Toks /\ Tok(t, ln.cmd).text = t
  BY <1>0 DEF Tok, Toks
<1>3. Prompt(ln.cmd) = <<Tok("#", ln.cmd)>>
  BY <1>0, <1>2 DEF Prompt
<1>4. Ends(Prompt(ln.cmd), "#") /\ Ends(<<Tok("password:", ln.cmd)>>, "password:")
  BY <1>1, <1>2, <1>3 DEF Texts
<1>5. Ends(AtLogin(ln.cmd), "login:")
  BY <1>0, LoginEnds
<1>6. Ends(<<Tok("incorrect", ln.cmd)>> \o AtLogin(ln.cmd), "login:")
  <2>1. \A x \in Toks : \A s : x.text \notin Looked /\ Ends(s, "login:")
                                  => Ends(<<x>> \o s, "login:")
    BY DEF Ends
  <2> QED BY <1>2, <1>5, <2>1 DEF Texts, Looked
<1>7. Ends(<<Tok("echo", ln.cmd), Tok("out", ln.cmd)>> \o Prompt(ln.cmd), "#")
  <2>1. ASSUME NEW x \in Toks, NEW y \in Toks, x.text \notin Looked, y.text \notin Looked,
               NEW s, Ends(s, "#")
        PROVE  Ends(<<x, y>> \o s, "#")
    <3>1. s \in Seq(Toks) /\ Len(s) > 0 /\ <<x, y>> \in Seq(Toks) /\ Len(<<x, y>>) = 2
          /\ <<x, y>>[1] = x /\ <<x, y>>[2] = y
      BY <2>1 DEF Ends
    <3>2. /\ <<x, y>> \o s \in Seq(Toks) /\ Len(<<x, y>> \o s) = Len(s) + 2
          /\ (<<x, y>> \o s)[1] = x /\ (<<x, y>> \o s)[2] = y
          /\ \A j \in 1 .. Len(s) : (<<x, y>> \o s)[j + 2] = s[j]
      BY <3>1
    <3>3. \A j \in 1 .. Len(s) + 1 : j = 1 \/ j = 2 \/ (j - 2 \in 1 .. Len(s) - 1 /\ (j - 2) + 2 = j)
      BY <3>1
    <3> QED BY <2>1, <3>1, <3>2, <3>3 DEF Ends
  <2> QED BY <1>2, <1>4, <2>1 DEF Texts, Looked
<1>8. \/ a[1] = "login" /\ Ends(a[2], "login:")
      \/ a[1] = "password" /\ Ends(a[2], "password:")
      \/ a[1] = "shell" /\ Ends(a[2], "#")
  <2>1. CASE p = "login" /\ ln.text = ""
    <3>1. a = <<"login", AtLogin(ln.cmd)>>
      BY <2>1 DEF PlainAnswers
    <3> QED BY <1>4, <1>5, <1>6, <1>7, <3>1
  <2>2. CASE p = "login" /\ ln.text # ""
    <3>1. a = <<"password", <<Tok("password:", ln.cmd)>>>> \/ a = <<"shell", Prompt(ln.cmd)>>
      BY <2>2 DEF PlainAnswers
    <3> QED BY <1>4, <1>5, <1>6, <1>7, <3>1
  <2>3. CASE p = "password" /\ ln.text = "secret"
    <3>1. a = <<"shell", Prompt(ln.cmd)>>
      BY <2>3 DEF PlainAnswers
    <3> QED BY <1>4, <1>5, <1>6, <1>7, <3>1
  <2>4. CASE p = "password" /\ ln.text # "secret"
    <3>1. a = <<"login", <<Tok("incorrect", ln.cmd)>> \o AtLogin(ln.cmd)>>
      BY <2>4 DEF PlainAnswers
    <3> QED BY <1>4, <1>5, <1>6, <1>7, <3>1
  <2>5. CASE p = "shell" /\ ln.text = ""
    <3>1. a = <<"shell", Prompt(ln.cmd)>>
      BY <2>5 DEF PlainAnswers
    <3> QED BY <1>4, <1>5, <1>6, <1>7, <3>1
  <2>6. CASE p = "shell" /\ ln.text # ""
    <3>1. a = <<"shell", <<Tok("echo", ln.cmd), Tok("out", ln.cmd)>>
                                \o Prompt(ln.cmd)>>
      BY <2>6 DEF PlainAnswers
    <3> QED BY <1>4, <1>5, <1>6, <1>7, <3>1
  <2> QED BY <2>1, <2>2, <2>3, <2>4, <2>5, <2>6 DEF Sites
<1> QED BY <1>8 DEF Sites, Ending

\* What is left of the output when a member is taken out of it.
Kept(b, text) ==
    LET echoes == {i \in DOMAIN b : text = "" \/ b[i].text = "echo"}
    IN IF echoes = {} THEN b
       ELSE RemoveAt(b, CHOOSE i \in echoes : \A j \in echoes : i <= j)

LEMMA KeptShape ==
  ASSUME NEW b \in Seq(Toks), NEW text
  PROVE  \/ Kept(b, text) = b /\ \A i \in DOMAIN b : text # "" /\ b[i].text # "echo"
         \/ \E i \in 1 .. Len(b) :
              /\ text = "" \/ b[i].text = "echo"
              /\ Kept(b, text) = SubSeq(b, 1, i - 1) \o SubSeq(b, i + 1, Len(b))
<1> DEFINE echoes == {i \in DOMAIN b : text = "" \/ b[i].text = "echo"}
<1>0. DOMAIN b = 1 .. Len(b) /\ Len(b) \in Nat
  OBVIOUS
<1>1. CASE echoes = {}
  BY <1>1 DEF Kept
<1>2. CASE echoes # {}
  <2> DEFINE e == CHOOSE i \in echoes : \A j \in echoes : i <= j
  <2>1. e \in echoes
    <3>1. echoes \in SUBSET Nat
      <4>1. \A i \in echoes : i \in Nat
        <5>1. \A i \in DOMAIN b : i \in Nat
          BY <1>0
        <5> QED BY <5>1, Zenon
      <4> QED BY <4>1, Zenon
    <3>2. \E i \in echoes : \A j \in echoes : i <= j
      BY <1>2, <3>1, First, Zenon
    <3> QED BY <3>2, Zenon
  <2>2. Kept(b, text) = RemoveAt(b, e)
    BY <1>2 DEF Kept
  <2> HIDE DEF e
  <2>3. e \in 1 .. Len(b) /\ (text = "" \/ b[e].text = "echo")
    BY <1>0, <2>1
  <2> QED BY <2>2, <2>3 DEF RemoveAt
<1> QED BY <1>1, <1>2

LEMMA Halves ==
  ASSUME NEW b \in Seq(Toks), NEW i \in 1 .. Len(b)
  PROVE  /\ SubSeq(b, 1, i - 1) \in Seq(Toks) /\ SubSeq(b, i + 1, Len(b)) \in Seq(Toks)
         /\ \A j \in 1 .. Len(SubSeq(b, 1, i - 1)) :
               \E k \in DOMAIN b : SubSeq(b, 1, i - 1)[j] = b[k]
         /\ \A j \in 1 .. Len(SubSeq(b, i + 1, Len(b))) :
               \E k \in DOMAIN b : SubSeq(b, i + 1, Len(b))[j] = b[k]
<1>1. SubSeq(b, 1, i - 1) \in Seq(Toks) /\ SubSeq(b, i + 1, Len(b)) \in Seq(Toks)
  OBVIOUS
<1>2. \A j \in 1 .. Len(SubSeq(b, 1, i - 1)) :
         j \in DOMAIN b /\ SubSeq(b, 1, i - 1)[j] = b[j]
  OBVIOUS
<1>3. \A j \in 1 .. Len(SubSeq(b, i + 1, Len(b))) :
         j + i \in DOMAIN b /\ SubSeq(b, i + 1, Len(b))[j] = b[j + i]
  OBVIOUS
<1> QED BY <1>1, <1>2, <1>3

LEMMA KeptType ==
  ASSUME NEW b \in Seq(Toks), NEW text
  PROVE  /\ Kept(b, text) \in Seq(Toks)
         /\ \A j \in DOMAIN Kept(b, text) : \E i \in DOMAIN b : Kept(b, text)[j] = b[i]
<1>1. CASE Kept(b, text) = b
  BY <1>1
<1>2. ASSUME NEW i \in 1 .. Len(b),
             Kept(b, text) = SubSeq(b, 1, i - 1) \o SubSeq(b, i + 1, Len(b))
      PROVE  /\ Kept(b, text) \in Seq(Toks)
             /\ \A j \in DOMAIN Kept(b, text) : \E k \in DOMAIN b : Kept(b, text)[j] = b[k]
  <2> DEFINE x == SubSeq(b, 1, i - 1)
             y == SubSeq(b, i + 1, Len(b))
  <2>1. /\ x \in Seq(Toks) /\ \A j \in 1 .. Len(x) : \E k \in DOMAIN b : x[j] = b[k]
        /\ y \in Seq(Toks) /\ \A j \in 1 .. Len(y) : \E k \in DOMAIN b : y[j] = b[k]
    BY Halves
  <2> HIDE DEF x, y
  <2>2. /\ x \o y \in Seq(Toks)
        /\ \A j \in DOMAIN (x \o y) :
              \/ j \in 1 .. Len(x) /\ (x \o y)[j] = x[j]
              \/ j - Len(x) \in 1 .. Len(y) /\ (x \o y)[j] = y[j - Len(x)]
    BY <2>1
  <2>3. Kept(b, text) = x \o y
    BY <1>2 DEF x, y
  <2>4. \A j \in DOMAIN (x \o y) : \E k \in DOMAIN b : (x \o y)[j] = b[k]
    BY <2>1, <2>2
  <2> QED BY <2>2, <2>3, <2>4, Zenon
<1> QED BY <1>1, <1>2, KeptShape

LEMMA CleanedType ==
  ASSUME NEW b \in Seq(Toks), NEW text
  PROVE  Cleaned(b, text) = Without(Kept(b, text), {dev.prompt})
         /\ Cleaned(b, text) \in Seq(Toks)
<1>1. Cleaned(b, text) = Without(Kept(b, text), {dev.prompt})
  BY DEF Cleaned, Kept
<1>2. Kept(b, text) \in Seq(Toks)
  BY KeptType
<1> QED BY <1>1, <1>2, WithoutType

\* The text that a command is reported with, apart from what the console printed
\* unasked.
LEMMA CleanedAs ==
  ASSUME NEW b \in Seq(Toks), NEW text, dev.prompt = "#"
  PROVE  /\ Without(Cleaned(b, text), Noise) = Without(Kept(b, text), {"#"} \cup Noise)
         /\ Without(Without(b, Noise), {"#"}) = Without(b, {"#"} \cup Noise)
<1>1. Kept(b, text) \in Seq(Toks)
  BY KeptType
<1>2. Cleaned(b, text) = Without(Kept(b, text), {"#"})
  BY CleanedType
<1>3. Without(Without(Kept(b, text), {"#"}), Noise) = Without(Kept(b, text), {"#"} \cup Noise)
  BY <1>1, WithoutTwice
<1>4. Without(Without(b, Noise), {"#"}) = Without(b, Noise \cup {"#"})
  BY WithoutTwice
<1>5. Noise \cup {"#"} = {"#"} \cup Noise
  OBVIOUS
<1> QED BY <1>2, <1>3, <1>4, <1>5, Zenon

LEMMA CleanedPrompt ==
  ASSUME NEW b \in Seq(Toks), NEW text, dev.prompt = "#", NEW x \in Toks, x.text = "#",
         Without(b, Noise) = <<x>>
  PROVE  Without(Cleaned(b, text), Noise) = <<>>
<1> DEFINE U == {"#"} \cup Noise
<1> HIDE DEF U
<1>1. Without(<<x>>, {"#"}) = <<>>
  BY WithoutOne
<1>2. Without(b, U) = <<>> /\ Without(Cleaned(b, text), Noise) = Without(Kept(b, text), U)
  BY <1>1, CleanedAs DEF U
<1>3. \A i \in DOMAIN b : b[i].text \in U
  BY <1>2, WithoutEmpty
<1>4. \A j \in DOMAIN Kept(b, text) : Kept(b, text)[j].text \in U
  <2>1. \A j \in DOMAIN Kept(b, text) : \E i \in DOMAIN b : Kept(b, text)[j] = b[i]
    BY KeptType
  <2> QED BY <1>3, <2>1
<1>5. Without(Kept(b, text), U) = <<>>
  BY <1>4, KeptType, WithoutEmpty
<1> QED BY <1>2, <1>5

Around(u, e, v, s) == s = u \o (<<e>> \o v)

\* The echo of the command is taken out of the answer.
LEMMA EchoTaken ==
  ASSUME NEW x \in Toks, x.text = "echo", NEW y \in Toks, y.text = "out",
         NEW u \in Seq(Toks), NEW v \in Seq(Toks), NEW e \in Toks, e.text = "echo",
         Around(u, e, v, <<x, y>>)
  PROVE  u \o v = <<y>>
<1>0. <<x, y>> = u \o (<<e>> \o v)
  BY Zenon DEF Around
<1>1. /\ Len(u \o (<<e>> \o v)) = Len(u) + 1 + Len(v)
      /\ (u \o (<<e>> \o v))[Len(u) + 1] = e
      /\ \A j \in 1 .. Len(v) : (u \o (<<e>> \o v))[Len(u) + 1 + j] = v[j]
  OBVIOUS
<1>2. Len(<<x, y>>) = 2 /\ <<x, y>>[1] = x /\ <<x, y>>[2] = y
  OBVIOUS
<1>3. Len(u) \in Nat /\ Len(v) \in Nat
  OBVIOUS
<1>4. Len(u) + Len(v) = 1
  BY <1>0, <1>1, <1>2, <1>3
<1>5. Len(u) # 1
  <2>1. Len(u) = 1 => e = y
    BY <1>0, <1>1, <1>2
  <2> QED BY <2>1
<1>6. Len(u) = 0 /\ Len(v) = 1
  <2>1. \A f, g \in Nat : f + g = 1 /\ f # 1 => f = 0 /\ g = 1
    OBVIOUS
  <2> QED BY <1>3, <1>4, <1>5, <2>1
<1>7. v[1] = y
  BY <1>0, <1>1, <1>2, <1>6
<1>8. u = <<>> /\ v = <<y>>
  BY <1>6, <1>7
<1> QED BY <1>8

LEMMA CleanedOut ==
  ASSUME NEW b \in Seq(Toks), dev.prompt = "#",
         NEW x \in Toks, x.text = "echo", NEW y \in Toks, y.text = "out",
         NEW z \in Toks, z.text = "#",
         Without(b, Noise) = <<x, y>> \o <<z>>
  PROVE  Without(Cleaned(b, "cmd"), Noise) = <<y>>
<1> DEFINE U == {"#"} \cup Noise
<1>0. "echo" \notin U /\ "out" \notin {"#"} /\ "echo" \notin {"#"}
  BY DEF Noise
<1> HIDE DEF U
<1>1. Without(<<x, y>> \o <<z>>, {"#"}) = <<x, y>>
  <2>0. <<x, y>> \in Seq(Toks) /\ <<z>> \in Seq(Toks)
    OBVIOUS
  <2>1. Splits(<<x, y>>, <<z>>, {"#"})
    BY <2>0, WithoutSplits
  <2>2. Without(<<z>>, {"#"}) = <<>>
    BY WithoutOne
  <2>3. Without(<<x, y>>, {"#"}) = <<x, y>>
    <3>1. \A i \in DOMAIN <<x, y>> : <<x, y>>[i].text \notin {"#"}
      OBVIOUS
    <3> QED BY <2>0, <3>1, WithoutIdle
  <2>4. <<x, y>> \o <<>> = <<x, y>>
    BY <2>0
  <2> QED BY <2>1, <2>2, <2>3, <2>4, Zenon DEF Splits
<1>2. Without(b, U) = <<x, y>> /\ Without(Cleaned(b, "cmd"), Noise) = Without(Kept(b, "cmd"), U)
  BY <1>1, CleanedAs DEF U
<1>3. PICK k \in DOMAIN b : b[k].text = "echo"
  <2>1. 1 \in DOMAIN <<x, y>> /\ <<x, y>>[1] = x
    OBVIOUS
  <2> QED BY <2>1, <1>2, WithoutOnly
<1>4. PICK i \in 1 .. Len(b) :
         /\ b[i].text = "echo"
         /\ Kept(b, "cmd") = SubSeq(b, 1, i - 1) \o SubSeq(b, i + 1, Len(b))
  BY <1>3, KeptShape
<1>5. PICK a, d, m, c \in Seq(Toks) :
           /\ b = a \o d /\ d = m \o c /\ m = <<b[i]>>
           /\ a = SubSeq(b, 1, i - 1) /\ c = SubSeq(b, i + 1, Len(b))
  BY <1>4, Cut, Zenon
<1>6. Splits(a, d, U) /\ Splits(m, c, U) /\ Splits(a, c, U)
  <2>1. Splits(a, d, U)
    BY WithoutSplits, Zenon
  <2>2. Splits(m, c, U)
    BY WithoutSplits, Zenon
  <2>3. Splits(a, c, U)
    BY WithoutSplits, Zenon
  <2> QED BY <2>1, <2>2, <2>3, Zenon
<1>7. b[i] \in Toks /\ Without(m, U) = <<b[i]>>
  <2>1. b[i] \in Toks
    BY <1>4
  <2>2. \A e \in Toks : e.text = "echo" => Without(<<e>>, U) = <<e>>
    BY <1>0, WithoutOne
  <2> QED BY <2>1, <2>2, <1>4, <1>5
<1> DEFINE wa == Without(a, U)
           wc == Without(c, U)
<1>8. wa \in Seq(Toks) /\ wc \in Seq(Toks)
  BY WithoutType
<1>9. <<x, y>> = wa \o (<<b[i]>> \o wc)
  BY <1>2, <1>5, <1>6, <1>7, Zenon DEF Splits
<1>10. Without(Kept(b, "cmd"), U) = wa \o wc
  BY <1>4, <1>5, <1>6, Zenon DEF Splits
<1> HIDE DEF wa, wc
<1>12. wa \o wc = <<y>>
  <2>1. PICK e \in Toks : e = b[i] /\ e.text = "echo"
    BY <1>4, <1>7, Zenon
  <2>2. Around(wa, e, wc, <<x, y>>)
    BY <1>9, <2>1, Zenon DEF Around
  <2>3. \A p, q \in Seq(Toks) : Around(p, e, q, <<x, y>>) => p \o q = <<y>>
    BY <2>1, EchoTaken
  <2> QED BY <1>8, <2>2, <2>3, Zenon
<1> QED BY <1>2, <1>10, <1>12

-----------------------------------------------------------------------------
(* A line and its answer, as the state of the stream: what the device has not *)
(* taken is t, where it is p, what the tool has read b, what it has not w.     *)

\* The line is on its way and nothing else is.
Owed(text, sites, id, t, p, b, w) ==
    t = <<Tok(text, id)>> /\ p \in sites /\ Without(b \o w, Noise) = <<>>

\* What was read and what is to be read is the answer.
Answered(text, sites, id, t, p, b, w) ==
    /\ t = <<>>
    /\ \E q \in sites : \E a \in PlainAnswers(q, Tok(text, id)) :
          p = a[1] /\ Without(b \o w, Noise) = a[2]

\* The buffer is full: what the wait looks for is not in it and never will be.
Lost(t, b) == t = <<>> /\ Len(b) = MAX_OUTPUT

Awaiting(text, sites, id, t, p, b, w) ==
    \/ Owed(text, sites, id, t, p, b, w)
    \/ Answered(text, sites, id, t, p, b, w)
    \/ Lost(t, b)

LEMMA TokType ==
  ASSUME NEW text \in Texts, NEW id \in Nat
  PROVE  Tok(text, id) \in Toks /\ Tok(text, id).text = text /\ Tok(text, id).cmd = id
  BY DEF Tok, Toks

\* The texts that a wait looks for.
Signs == {"login:", "password:", "#"}

LEMMA ShowsLooked ==
  ASSUME NEW x \in Toks, NEW pat \in Signs, Shows(x, pat)
  PROVE  x.text \in Looked \ Noise /\ (x.text = "text#" \/ x.text = pat)
  BY DEF Shows, Looked, Noise, Signs

LEMMA NoiseShowsNothing ==
  ASSUME NEW b \in Seq(Toks), Without(b, Noise) = <<>>, NEW pat \in Signs
  PROVE  ~Found(b, pat)
<1>1. \A i \in DOMAIN b : b[i].text \in Noise /\ b[i] \in Toks
  BY WithoutEmpty
<1>2. \A i \in DOMAIN b : ~Shows(b[i], pat)
  BY <1>1, ShowsLooked
<1> QED BY <1>2 DEF Found

\* Finding a text means that the answer has been read to its end, and tells where
\* the device is.
LEMMA ReadsAnswer ==
  ASSUME PlainDevice, NEW b \in Seq(Toks), NEW v \in Seq(Toks),
         NEW q \in Sites, NEW ln \in Toks, NEW a \in PlainAnswers(q, ln), Streamed(b, v, a[2]),
         NEW pat \in Signs, Found(b, pat)
  PROVE  Without(b, Noise) = a[2] /\ Without(v, Noise) = <<>> /\ pat = Ending[a[1]]
<1>1. PICK i \in DOMAIN b : Shows(b[i], pat)
  BY DEF Found
<1>2. b[i] \in Toks /\ b[i].text \in Looked \ Noise /\ (b[i].text = "text#" \/ b[i].text = pat)
  <2>1. b[i] \in Toks
    OBVIOUS
  <2> QED BY <1>1, <2>1, ShowsLooked
<1>3. a[1] \in Sites /\ Ends(a[2], Ending[a[1]])
  BY AnswerShape
<1>4. PICK A \in Seq(Toks) : A = a[2] /\ Ends(A, Ending[a[1]]) /\ Streamed(b, v, A)
  BY <1>3 DEF Ends
<1>5. \A j \in 1 .. Len(A) - 1 : A[j].text # b[i].text
  BY <1>2, <1>4 DEF Ends
<1>6. Closes(b[i], A)
  BY <1>2, <1>5 DEF Closes
<1>7. Without(b, Noise) = A /\ Without(v, Noise) = <<>> /\ A[Len(A)] = b[i]
  BY <1>4, <1>6, Consumed, Zenon
<1>8. b[i].text = Ending[a[1]]
  BY <1>4, <1>7 DEF Ends
<1>9. Ending[a[1]] \in Signs
  BY <1>3 DEF Ending, Sites, Signs
<1>10. pat = Ending[a[1]]
  BY <1>2, <1>8, <1>9 DEF Signs
<1> QED BY <1>4, <1>7, <1>10

\* A read leaves the wait as it is.
LEMMA ReadKeepsWait ==
  ASSUME NEW text \in Texts, NEW sites \in SUBSET Sites, NEW id \in Nat, NEW t, NEW p,
         NEW s \in Seq(Toks), NEW w \in Seq(Toks),
         Awaiting(text, sites, id, t, p, s, w),
         NEW b \in Seq(Toks), NEW d \in Seq(Toks), NEW r \in Seq(Toks), NEW v \in Seq(Toks),
         s \o w = b \o d, d = r \o v,
         Len(s) = MAX_OUTPUT => b = s, r = <<>> \/ Len(b) = MAX_OUTPUT
  PROVE  Awaiting(text, sites, id, t, p, b, v)
<1>1. Splits(b, d, Noise) /\ Splits(r, v, Noise) /\ Splits(b, v, Noise)
  BY WithoutSplits
<1>2. CASE Owed(text, sites, id, t, p, s, w)
  <2>1. Without(b, Noise) \o (Without(r, Noise) \o Without(v, Noise)) = <<>>
    BY <1>1, <1>2, Zenon DEF Owed, Splits
  <2>2. \A x, y, z \in Seq(Toks) : x \o (y \o z) = <<>> => x = <<>> /\ z = <<>>
    OBVIOUS
  <2>3. Without(b, Noise) = <<>> /\ Without(v, Noise) = <<>>
    BY <2>1, <2>2, WithoutType
  <2>4. <<>> \o <<>> = <<>>
    OBVIOUS
  <2>5. Without(b \o v, Noise) = <<>>
    BY <1>1, <2>3, <2>4, Zenon DEF Splits
  <2> QED BY <1>2, <2>5, Zenon DEF Owed, Awaiting
<1>3. CASE Answered(text, sites, id, t, p, s, w)
  <2>1. CASE r = <<>>
    <3>1. d = v
      BY <2>1
    <3> QED BY <1>3, <3>1, Zenon DEF Answered, Awaiting
  <2>2. CASE Len(b) = MAX_OUTPUT
    BY <1>3, <2>2, Zenon DEF Answered, Lost, Awaiting
  <2> QED BY <2>1, <2>2
<1>4. CASE Lost(t, s)
  BY <1>4, Zenon DEF Lost, Awaiting
<1> QED BY <1>2, <1>3, <1>4 DEF Awaiting

\* The answer is read, and the text found is the one it ends with.
Heard(text, sites, id, p, b, pat) ==
    \E q \in sites : \E a \in PlainAnswers(q, Tok(text, id)) :
        p = a[1] /\ Without(b, Noise) = a[2] /\ pat = Ending[p]

\* A text is only found once the answer is read.
LEMMA FindsAnswer ==
  ASSUME PlainDevice,
         NEW text \in Texts, NEW sites \in SUBSET Sites, NEW id \in Nat, NEW t, NEW p,
         NEW s \in Seq(Toks), NEW w \in Seq(Toks),
         Awaiting(text, sites, id, t, p, s, w),
         NEW b, NEW v, Chunk(s, w, b, v),
         NEW pat \in Signs, ~Found(s, pat), Found(b, pat)
  PROVE  t = <<>> /\ Without(v, Noise) = <<>> /\ Heard(text, sites, id, p, b, pat)
<1>0. PICK d, r \in Seq(Toks) :
          s \o w = b \o d /\ d = r \o v /\ (r = <<>> \/ Len(b) = MAX_OUTPUT)
  BY Zenon DEF Chunk
<1>9. b \in Seq(Toks) /\ v \in Seq(Toks) /\ (Len(s) = MAX_OUTPUT => b = s)
  BY Zenon DEF Chunk
<1>1. ~Owed(text, sites, id, t, p, s, w)
  <2> SUFFICES ASSUME Owed(text, sites, id, t, p, s, w) PROVE FALSE
    OBVIOUS
  <2>1. Splits(b, d, Noise)
    BY <1>0, <1>9, WithoutSplits
  <2>2. Without(b, Noise) \o Without(d, Noise) = <<>>
    BY <1>0, <2>1, Zenon DEF Owed, Splits
  <2>3. \A x, y \in Seq(Toks) : x \o y = <<>> => x = <<>>
    OBVIOUS
  <2>4. Without(b, Noise) = <<>>
    BY <1>9, <2>2, <2>3, WithoutType
  <2> QED BY <1>9, <2>4, NoiseShowsNothing
<1>2. ~Lost(t, s)
  BY <1>9, Zenon DEF Lost
<1>3. Answered(text, sites, id, t, p, s, w)
  BY <1>1, <1>2 DEF Awaiting
<1>4. PICK q \in sites : \E a \in PlainAnswers(q, Tok(text, id)) :
         p = a[1] /\ Without(b \o d, Noise) = a[2]
  BY <1>0, <1>3, Zenon DEF Answered
<1>5. PICK a \in PlainAnswers(q, Tok(text, id)) : p = a[1] /\ Without(b \o d, Noise) = a[2]
  BY <1>4
<1>6. q \in Sites /\ Tok(text, id) \in Toks
  BY TokType
<1>8. Streamed(b, v, a[2])
  BY <1>0, <1>5, Zenon DEF Streamed
<1>7. Without(b, Noise) = a[2] /\ Without(v, Noise) = <<>> /\ pat = Ending[a[1]]
  BY <1>6, <1>8, <1>9, ReadsAnswer
<1> QED BY <1>3, <1>5, <1>7, Zenon DEF Answered, Heard

\* The device answers.
LEMMA AnswerKeepsWait ==
  ASSUME PlainDevice,
         NEW text \in Texts, NEW sites \in SUBSET Sites, NEW id \in Nat, NEW t, NEW p,
         NEW b \in Seq(Toks), NEW w \in Seq(Toks),
         Awaiting(text, sites, id, t, p, b, w), t # <<>>,
         NEW a \in PlainAnswers(p, Head(t))
  PROVE  Awaiting(text, sites, id, Tail(t), a[1], b, w \o a[2])
<1>1. Owed(text, sites, id, t, p, b, w)
  BY DEF Awaiting, Answered, Lost
<1>2. t = <<Tok(text, id)>> /\ p \in sites /\ p \in Sites /\ Without(b \o w, Noise) = <<>>
  BY <1>1 DEF Owed
<1>3. Head(t) = Tok(text, id) /\ Tail(t) = <<>> /\ Tok(text, id) \in Toks
  BY <1>2, TokType
<1>4. Ends(a[2], Ending[a[1]]) /\ a[1] \in Sites
  BY <1>2, <1>3, AnswerShape
<1> DEFINE A == a[2]
<1>5. A \in Seq(Toks) /\ \A i \in DOMAIN A : A[i].text \notin Noise
  <2>1. Ending[a[1]] \notin Noise
    BY <1>4 DEF Ending, Sites, Noise
  <2> HIDE DEF A
  <2>2. Ends(A, Ending[a[1]])
    BY <1>4 DEF A
  <2>3. \A x \in Looked : TRUE
    OBVIOUS
  <2>4. "noise" \in Looked
    BY DEF Looked
  <2> QED BY <2>1, <2>2, <2>4 DEF Ends, Noise
<1> HIDE DEF A
<1>6. Without(A, Noise) = A
  BY <1>5, WithoutIdle
<1>7. Without((b \o w) \o A, Noise) = A
  <2>1. b \o w \in Seq(Toks)
    OBVIOUS
  <2>2. Splits(b \o w, A, Noise)
    BY <1>5, <2>1, WithoutSplits
  <2>3. <<>> \o A = A
    BY <1>5
  <2> QED BY <1>2, <1>6, <2>2, <2>3, Zenon DEF Splits
<1>8. Assoc(b, w, A)
  BY <1>5, ConcatTwice
<1>9. Without(b \o (w \o A), Noise) = A
  BY <1>7, <1>8, Zenon DEF Assoc
<1>10. Without(b \o (w \o a[2]), Noise) = a[2] /\ a \in PlainAnswers(p, Tok(text, id))
  BY <1>3, <1>9 DEF A
<1> QED BY <1>2, <1>3, <1>10, Zenon DEF Answered, Awaiting

\* The console prints something unasked.
LEMMA NoiseKeepsWait ==
  ASSUME NEW text, NEW sites, NEW id, NEW t, NEW p,
         NEW b \in Seq(Toks), NEW w \in Seq(Toks),
         NEW x \in Toks, x.text \in Noise,
         Awaiting(text, sites, id, t, p, b, w)
  PROVE  Awaiting(text, sites, id, t, p, b, Append(w, x))
<1>1. b \o w \in Seq(Toks) /\ b \o Append(w, x) = Append(b \o w, x)
  BY ConcatAppend
<1>2. \A s \in Seq(Toks) : Without(Append(s, x), Noise) = Without(s, Noise)
  BY WithoutAppend
<1>3. Without(b \o Append(w, x), Noise) = Without(b \o w, Noise)
  BY <1>1, <1>2
<1> QED BY <1>3, Zenon DEF Owed, Answered, Awaiting

-----------------------------------------------------------------------------
(* The calls of serial_exec *)

Results == [status : {"ok", "timeout", "error"}, output : Seq(Toks),
            own : [id : Nat, quiet : BOOLEAN]]

SerialSteps == {"idle", "open", "tickle", "seek", "user", "ask", "pass", "confirm",
                "send", "read"}

\* The answers of the call.
Answering ==
    /\ step \in SerialSteps /\ asked \in Nat /\ fd \in BOOLEAN
    /\ login_status \in {"none", "skipped", "already_authenticated", "ok"}
    /\ answer \in {"none", "ok", "error", "timeout", "login_failed"}
    /\ ncalls \in 0 .. MaxSerialCalls

\* There is a result for each command that was run, and one is left to be run
\* while the call lasts.
Jobs ==
    /\ todo \in Seq({"cmd", ""}) /\ results \in Seq(Results)
    /\ n = Len(results) /\ n <= Len(todo)
    /\ step # "idle" => n < Len(todo)

\* The stream: it has no escape sequence, and the buffer is within its cap.
Lines ==
    /\ PlainProfile(dev) /\ (step \in {"ask", "pass"} => dev.password # "")
    /\ buf \in Seq(Toks) /\ Len(buf) <= MAX_OUTPUT
    /\ typed \in Seq(Toks) /\ at \in Sites /\ sent \in Nat
    /\ wire \in Seq(Toks) /\ \A i \in DOMAIN wire : wire[i].text # "csi"

Flags == part \in BOOLEAN /\ quiet \in BOOLEAN

SerialTypes == Answering /\ Jobs /\ Lines /\ Flags

\* The texts that a wait looks for.
Awaited == [seek |-> {"login:", "#"}, ask |-> {"password:"}, confirm |-> {"#"},
            read |-> {"#"}]

LEMMA AppendThird ==
  ASSUME NEW S, NEW x \in S, NEW y \in S, NEW z \in S
  PROVE  Append(<<x, y>>, z) = <<x, y, z>>
<1>1. <<x, y>> \in Seq(S) /\ Len(<<x, y>>) = 2 /\ <<x, y>>[1] = x /\ <<x, y>>[2] = y
  OBVIOUS
<1>2. /\ Append(<<x, y>>, z) \in Seq(S) /\ Len(Append(<<x, y>>, z)) = 3
      /\ Append(<<x, y>>, z)[1] = x /\ Append(<<x, y>>, z)[2] = y
      /\ Append(<<x, y>>, z)[3] = z
  BY <1>1
<1>3. /\ <<x, y, z>> \in Seq(S) /\ Len(<<x, y, z>>) = 3
      /\ <<x, y, z>>[1] = x /\ <<x, y, z>>[2] = y /\ <<x, y, z>>[3] = z
  OBVIOUS
<1>4. \A i \in 1 .. 3 : i \in {1, 2, 3}
  OBVIOUS
<1>5. \A i \in 1 .. 3 : Append(<<x, y>>, z)[i] = <<x, y, z>>[i]
  BY <1>2, <1>3, <1>4, Zenon
<1> QED BY <1>2, <1>3, <1>5, SeqEqual, Zenon

LEMMA ConcatOne ==
  ASSUME NEW s \in Seq(Toks), NEW x \in Toks
  PROVE  s \o <<x>> \in Seq(Toks) /\ (s = <<>> => s \o <<x>> = <<x>>)
<1>1. <<x>> \in Seq(Toks)
  OBVIOUS
<1>2. \A t \in Seq(Toks) : s \o t \in Seq(Toks)
  OBVIOUS
<1>3. <<>> \o <<x>> = <<x>>
  BY <1>1, ConcatEmptySeq
<1> QED BY <1>1, <1>2, <1>3, Zenon

\* One of the texts is in the buffer.
Sees(b, pats) == \E i \in DOMAIN pats : Found(b, pats[i])

LEMMA SeesOne ==
  ASSUME NEW b, NEW x
  PROVE  Sees(b, <<x>>) <=> Found(b, x)
<1>1. DOMAIN <<x>> = {1} /\ <<x>>[1] = x
  OBVIOUS
<1> QED BY <1>1, Zenon DEF Sees

LEMMA SeesTwo ==
  ASSUME NEW b, NEW x, NEW y
  PROVE  Sees(b, <<x, y>>) <=> Found(b, x) \/ Found(b, y)
<1>1. DOMAIN <<x, y>> = {1, 2} /\ <<x, y>>[1] = x /\ <<x, y>>[2] = y
  OBVIOUS
<1> QED BY <1>1, Zenon DEF Sees

LEMMA SeesThree ==
  ASSUME NEW b, NEW x, NEW y, NEW z
  PROVE  Sees(b, <<x, y, z>>) <=> Found(b, x) \/ Found(b, y) \/ Found(b, z)
<1>1. /\ DOMAIN <<x, y, z>> = {1, 2, 3} /\ <<x, y, z>>[1] = x
      /\ <<x, y, z>>[2] = y /\ <<x, y, z>>[3] = z
  OBVIOUS
<1> QED BY <1>1, Zenon DEF Sees

LEMMA SeenAs ==
  ASSUME PlainProfile(dev), step \in DOMAIN Waits, NEW b
  PROVE  /\ step \in {"seek", "ask", "confirm", "read"}
         /\ Sees(b, Waits[step]) <=> \E pat \in Awaited[step] : Found(b, pat)
<1>0. /\ dev.prompt = "#" /\ dev.login_prompt \in {"", "login:"} /\ ~Found(b, "")
      /\ step \in {"seek", "ask", "confirm", "read"}
  BY DEF PlainProfile, Found, Waits
<1>1. /\ Waits["seek"] = Append(<<dev.login_prompt, "login:">>, dev.prompt)
      /\ Waits["ask"] = <<"password:">> /\ Waits["confirm"] = <<dev.prompt>>
      /\ Waits["read"] = <<dev.prompt>>
  BY Zenon DEF Waits, LoginPatterns
<1>2. /\ Awaited["seek"] = {"login:", "#"} /\ Awaited["ask"] = {"password:"}
      /\ Awaited["confirm"] = {"#"} /\ Awaited["read"] = {"#"}
  BY Zenon DEF Awaited
<1>4. CASE step = "seek"
  <2>0. dev.login_prompt \in {"", "login:", "#"} /\ dev.prompt \in {"", "login:", "#"}
        /\ "login:" \in {"", "login:", "#"}
    BY <1>0
  <2>1. Append(<<dev.login_prompt, "login:">>, dev.prompt) = <<dev.login_prompt, "login:", dev.prompt>>
    BY <2>0, AppendThird, Zenon
  <2>2. Sees(b, <<dev.login_prompt, "login:", dev.prompt>>)
          <=> Found(b, dev.login_prompt) \/ Found(b, "login:") \/ Found(b, dev.prompt)
    BY SeesThree, Zenon
  <2>3. Sees(b, Waits[step]) <=> Found(b, dev.login_prompt) \/ Found(b, "login:") \/ Found(b, dev.prompt)
    BY <1>1, <1>4, <2>1, <2>2, Zenon
  <2>4. Awaited[step] = {"login:", "#"}
    BY <1>2, <1>4, Zenon
  <2> QED BY <1>0, <2>3, <2>4, Zenon
<1>5. CASE step = "ask"
  <2>1. Sees(b, Waits[step]) <=> Found(b, "password:")
    BY <1>1, <1>5, SeesOne, Zenon
  <2> QED BY <1>0, <1>2, <1>5, <2>1, Zenon
<1>6. CASE step \in {"confirm", "read"}
  <2>1. Waits[step] = <<dev.prompt>> /\ Awaited[step] = {"#"}
    BY <1>1, <1>2, <1>6, Zenon
  <2>2. Sees(b, Waits[step]) <=> Found(b, dev.prompt)
    BY <2>1, SeesOne, Zenon
  <2> QED BY <1>0, <2>1, <2>2, Zenon
<1> QED BY <1>0, <1>4, <1>5, <1>6, Zenon

LEMMA LoginSeen ==
  ASSUME PlainProfile(dev), NEW b
  PROVE  (\E i \in DOMAIN LoginPatterns : Found(b, LoginPatterns[i])) <=> Found(b, "login:")
<1>1. dev.login_prompt \in {"", "login:"} /\ ~Found(b, "")
  BY DEF PlainProfile, Found
<1>2. Sees(b, LoginPatterns) <=> Found(b, dev.login_prompt) \/ Found(b, "login:")
  BY SeesTwo, Zenon DEF LoginPatterns
<1> QED BY <1>1, <1>2, Zenon DEF Sees

-----------------------------------------------------------------------------
(* Types *)

LEMMA SerialStart == PlainDevice /\ SerialInit => SerialTypes
<1> SUFFICES ASSUME PlainDevice, SerialInit PROVE SerialTypes
  OBVIOUS
<1>0. MAX_OUTPUT \in Nat /\ MaxSerialCalls \in Nat
  BY SerialBounds
<1>1. Answering
  <2>1. ncalls \in 0 .. MaxSerialCalls /\ asked \in Nat
    BY <1>0 DEF SerialInit
  <2>2. fd \in BOOLEAN /\ step \in SerialSteps
    BY Zenon DEF SerialInit, SerialSteps
  <2> QED BY <2>1, <2>2, Zenon DEF SerialInit, Answering
<1>5. Flags
  BY Zenon DEF SerialInit, Flags
<1>2. Jobs
  BY DEF SerialInit, Jobs
<1>3. PlainProfile(dev)
  <2>1. /\ Default.prompt = "#" /\ Default.login_prompt = ""
        /\ Default.username = "" /\ Default.password = ""
    BY DEF Default
  <2>2. "" \in Texts \ {"secret", "cmd"} /\ "" \in Texts \ {"cmd"}
    BY DEF Texts
  <2> QED BY <2>1, <2>2, Zenon DEF SerialInit, PlainProfile
<1>6. typed \in Seq(Toks)
  <2>1. Tok("cmd", 0) \in Toks
    BY DEF Tok, Toks, Texts
  <2>2. \A x \in Toks : <<>> \in Seq(Toks) /\ <<x>> \in Seq(Toks)
    OBVIOUS
  <2> QED BY <2>1, <2>2, Zenon DEF SerialInit
<1>7. /\ buf = <<>> /\ wire = <<>> /\ sent = 0 /\ at \in Sites /\ step = "idle"
  BY Zenon DEF SerialInit, Sites
<1>4. Lines
  BY <1>0, <1>3, <1>6, <1>7 DEF Lines
<1> QED BY <1>1, <1>2, <1>4, <1>5 DEF SerialTypes

\* What a result does to the call.
LEMMA ResultCounted ==
  ASSUME Jobs, step # "idle", todo' = todo, NEW r \in Results,
         results' = Append(results, r), n' = n + 1,
         step' = (IF n + 1 < Len(todo) THEN "send" ELSE "idle")
  PROVE  Jobs' /\ Len(results) = n /\ n + 1 <= Len(todo)
<1>1. ASSUME NEW s \in Seq(Results), NEW x \in Results
      PROVE  Append(s, x) \in Seq(Results) /\ Len(Append(s, x)) = Len(s) + 1 /\ Len(s) \in Nat
  OBVIOUS
<1>2. results \in Seq(Results) /\ n = Len(results) /\ n < Len(todo) /\ todo \in Seq({"cmd", ""})
  BY Zenon DEF Jobs
<1>3. results' \in Seq(Results) /\ Len(results') = n' /\ n \in Nat
  BY <1>1, <1>2, Zenon
<1>4. Len(todo) \in Nat
  BY <1>2, LenProperties, Zenon
<1>5. n' <= Len(todo) /\ (n + 1 < Len(todo) <=> n' < Len(todo))
  <2>1. \A a, b \in Nat : a < b => a + 1 <= b
    OBVIOUS
  <2> QED BY <1>2, <1>3, <1>4, <2>1, Zenon
<1>6. step' # "idle" => n' < Len(todo)
  BY <1>5, Zenon
<1>7. Jobs'
  BY <1>2, <1>3, <1>5, <1>6, Zenon DEF Jobs
<1> QED BY <1>2, <1>5, <1>7, Zenon

LEMMA Recorded ==
  ASSUME SerialTypes, step # "idle", todo' = todo, NEW status, NEW output, NEW own,
         Record(status, output, own), [status |-> status, output |-> output, own |-> own] \in Results
  PROVE  /\ Jobs' /\ step' \in {"idle", "send"} /\ fd' \in BOOLEAN
         /\ answer' \in {"none", "ok", "error", "timeout", "login_failed"}
         /\ results' = Append(results, [status |-> status, output |-> output, own |-> own])
         /\ Len(results) = n /\ n + 1 <= Len(todo)
<1>1. PICK r \in Results :
        /\ r = [status |-> status, output |-> output, own |-> own]
        /\ results' = Append(results, r) /\ n' = n + 1
        /\ \/ n + 1 < Len(todo) /\ step' = "send" /\ fd' = fd /\ answer' = answer
           \/ ~(n + 1 < Len(todo)) /\ step' = "idle" /\ fd' = FALSE
              /\ answer' = overall(Append(results, r))
  BY Zenon DEF Record
<1>2. overall(Append(results, r)) \in {"error", "timeout", "ok"}
  BY Zenon DEF overall
<1>3. Jobs /\ Answering
  BY Zenon DEF SerialTypes
<1>4. step' = (IF n + 1 < Len(todo) THEN "send" ELSE "idle")
  BY <1>1, Zenon
<1>5. Jobs' /\ Len(results) = n /\ n + 1 <= Len(todo)
  BY <1>1, <1>3, <1>4, ResultCounted, Zenon
<1>6. /\ step' \in {"idle", "send"} /\ fd' \in BOOLEAN
      /\ answer' \in {"none", "ok", "error", "timeout", "login_failed"}
  BY <1>1, <1>2, <1>3, Zenon DEF Answering
<1> QED BY <1>1, <1>5, <1>6, Zenon

\* What is left in flight by a read or a flush.
LEMMA Suffix ==
  ASSUME NEW w \in Seq(Toks), \A i \in DOMAIN w : w[i].text # "csi", NEW k \in 0 .. Len(w)
  PROVE  /\ SubSeq(w, k + 1, Len(w)) \in Seq(Toks)
         /\ \A i \in DOMAIN SubSeq(w, k + 1, Len(w)) : SubSeq(w, k + 1, Len(w))[i].text # "csi"
         /\ \A i \in DOMAIN SubSeq(w, k + 1, Len(w)) :
               \E j \in DOMAIN w : SubSeq(w, k + 1, Len(w))[i] = w[j]
  OBVIOUS

LEMMA FlushedType ==
  ASSUME Lines, Flushed
  PROVE  /\ wire' \in Seq(Toks) /\ \A i \in DOMAIN wire' : wire'[i].text # "csi"
         /\ Without(wire, Noise) = <<>> => Without(wire', Noise) = <<>>
<1>1. PICK k \in 0 .. Len(wire) : wire' = SubSeq(wire, k + 1, Len(wire))
  BY DEF Flushed
<1>2. /\ wire \in Seq(Toks) /\ wire' \in Seq(Toks)
      /\ \A i \in DOMAIN wire' : wire'[i].text # "csi"
      /\ \A i \in DOMAIN wire' : \E j \in DOMAIN wire : wire'[i] = wire[j]
  BY <1>1, Suffix DEF Lines
<1>3. ASSUME Without(wire, Noise) = <<>> PROVE Without(wire', Noise) = <<>>
  <2>1. \A j \in DOMAIN wire : wire[j].text \in Noise
    BY <1>2, <1>3, WithoutEmpty
  <2>2. \A i \in DOMAIN wire' : wire'[i].text \in Noise
    BY <1>2, <2>1
  <2> QED BY <1>2, <2>2, WithoutEmpty
<1> QED BY <1>2, <1>3

\* One line more is on its way.
LEMMA SendType ==
  ASSUME PlainDevice, Lines, Flags, NEW text \in Texts, serial_send(text)
  PROVE  /\ sent' = sent + 1 /\ sent' \in Nat /\ part' = FALSE /\ typed' \in Seq(Toks)
         /\ part = FALSE /\ typed = <<>> => typed' = <<Tok(text, sent')>>
<1> DEFINE it == IF part THEN "garbled" ELSE text
           tok == Tok(it, sent + 1)
<1>8. sent' = sent + 1 /\ sent \in Nat /\ typed \in Seq(Toks) /\ LineEnds = 1
  BY Zenon DEF serial_send, Lines, PlainDevice
<1>1. sent' = sent + 1 /\ sent + 1 \in Nat /\ typed \in Seq(Toks) /\ LineEnds = 1
  BY <1>8
<1>6. part' = FALSE
  BY DEF serial_send
<1>2. it \in Texts /\ (part = FALSE => it = text)
  BY DEF Texts
<1> HIDE DEF it
<1>3. tok \in Toks
  BY <1>1, <1>2, TokType
<1>4. typed' = typed \o <<tok>> \o <<>>
  BY <1>1 DEF serial_send, it
<1> HIDE DEF tok
<1>5. typed' \in Seq(Toks) /\ (typed = <<>> => typed' = <<tok>>)
  <2>1. ASSUME NEW s \in Seq(Toks), NEW x \in Toks
        PROVE  /\ s \o <<x>> \o <<>> \in Seq(Toks)
               /\ s = <<>> => s \o <<x>> \o <<>> = <<x>>
    <3>1. s \o <<x>> \in Seq(Toks) /\ (s = <<>> => s \o <<x>> = <<x>>)
      BY ConcatOne, Zenon
    <3>2. \A u \in Seq(Toks) : u \o <<>> = u
      OBVIOUS
    <3> QED BY <3>1, <3>2, Zenon
  <2> QED BY <1>1, <1>3, <1>4, <2>1, Zenon
<1>7. part = FALSE /\ typed = <<>> => typed' = <<Tok(text, sent')>>
  BY <1>1, <1>2, <1>5, Zenon DEF tok
<1> QED BY <1>1, <1>5, <1>6, <1>7
-----------------------------------------------------------------------------
(* The inductive invariant *)

\* The device has nothing to say and waits for a line at one of these places.
Rests(sites) == typed = <<>> /\ Without(wire, Noise) = <<>> /\ at \in sites

\* The line whose answer the tool waits for, and where it was typed.
Said == IF step = "seek" THEN ""
        ELSE IF step = "read" THEN todo[n + 1]
        ELSE IF step = "ask" \/ dev.password = "" THEN dev.username ELSE dev.password

SaidAt == IF step = "seek" THEN Sites
          ELSE IF step = "read" THEN {"shell"}
          ELSE IF step = "ask" \/ dev.password = "" THEN {"login"} ELSE {"password"}

\* The device has at most one line to take, and is where that line belongs.
AtPlace(t, p) ==
    \/ t = <<>>
    \/ \E text \in Texts, id \in Nat :
          /\ t = <<Tok(text, id)>>
          /\ text = "secret" => p = "password"
          /\ text = "cmd" => p = "shell"

\* Where the tool and the device are, each step of a quiet call.
InTune ==
    /\ part = FALSE
    /\ step \in {"open", "tickle"} => Rests(Sites)
    /\ step = "user" => Rests({"login"})
    /\ step = "pass" => Rests({"password"})
    /\ step = "send" => Rests({"shell"})
    /\ step \in {"seek", "ask", "confirm", "read"} =>
          Awaiting(Said, SaidAt, sent, typed, at, buf, wire)
    /\ step = "idle" => AtPlace(typed, at)

\* A wait goes on while the buffer has none of its texts.
NotYet ==
    step \in {"seek", "ask", "confirm", "read"} =>
        \A pat \in Awaited[step] : ~Found(buf, pat)

SerialInv == SerialTypes /\ NotYet /\ (quiet => InTune) /\ OwnOutput

LEMMA NextIn ==
  ASSUME NEW S, NEW s \in Seq(S), NEW m \in Nat, m < Len(s)
  PROVE  s[m + 1] \in S
<1>1. Len(s) \in Nat
  BY LenProperties, Zenon
<1>2. \A a, b \in Nat : a < b => a + 1 \in 1 .. b
  OBVIOUS
<1>3. m + 1 \in 1 .. Len(s)
  BY <1>1, <1>2, Zenon
<1> QED BY <1>3, ElementOfSeq, Zenon

LEMMA SaidType ==
  ASSUME SerialTypes, step \in {"seek", "ask", "confirm", "read"}
  PROVE  /\ Said \in Texts /\ SaidAt \in SUBSET Sites
         /\ (Said = "secret" => SaidAt = {"password"}) /\ (Said = "cmd" => SaidAt = {"shell"})
<1>1. /\ dev.username \in Texts \ {"secret", "cmd"} /\ dev.password \in Texts \ {"cmd"}
  BY Zenon DEF SerialTypes, Lines, PlainProfile
<1>2. todo[n + 1] \in {"cmd", ""}
  <2>1. /\ todo \in Seq({"cmd", ""}) /\ results \in Seq(Results) /\ n = Len(results)
        /\ n < Len(todo)
    BY Zenon DEF SerialTypes, Jobs
  <2>3. n \in Nat
    BY <2>1, LenProperties, Zenon
  <2> QED BY <2>1, <2>3, NextIn, Zenon
<1>3. "cmd" \in Texts /\ "" \in Texts
  BY DEF Texts
<1>4. {"shell"} \in SUBSET Sites /\ {"login"} \in SUBSET Sites /\ {"password"} \in SUBSET Sites
  BY DEF Sites
<1> QED BY <1>1, <1>2, <1>3, <1>4 DEF Said, SaidAt

\* In step with the device, whatever the tool is doing.
LEMMA TunePlaces ==
  ASSUME SerialTypes, InTune
  PROVE  AtPlace(typed, at)
<1>1. CASE step \in {"seek", "ask", "confirm", "read"}
  <2>1. Awaiting(Said, SaidAt, sent, typed, at, buf, wire)
    BY <1>1, Zenon DEF InTune
  <2>2. typed = <<>> \/ (typed = <<Tok(Said, sent)>> /\ at \in SaidAt)
    BY <2>1, Zenon DEF Awaiting, Owed, Answered, Lost
  <2>3. sent \in Nat
    BY Zenon DEF SerialTypes, Lines
  <2>4. /\ Said \in Texts
        /\ (Said = "secret" => SaidAt = {"password"}) /\ (Said = "cmd" => SaidAt = {"shell"})
    BY <1>1, SaidType, Zenon
  <2> QED BY <2>2, <2>3, <2>4, Zenon DEF AtPlace
<1>2. CASE step \notin {"seek", "ask", "confirm", "read"}
  <2>1. step \in {"open", "tickle"} \/ step = "user" \/ step = "pass" \/ step = "send" \/ step = "idle"
    BY <1>2, Zenon DEF SerialTypes, Answering, SerialSteps
  <2> QED BY <2>1, Zenon DEF InTune, Rests, AtPlace
<1> QED BY <1>1, <1>2, Zenon

LEMMA JobsStay ==
  ASSUME SerialInv, UNCHANGED <<todo, results, n>>, step' = "idle" \/ step # "idle"
  PROVE  Jobs' /\ OwnOutput'
  BY Zenon DEF SerialInv, SerialTypes, Jobs, OwnOutput

\* The call gives up: the steps OpenFails and LoginDeadline.
LEMMA GivesUp ==
  ASSUME SerialInv, NEW status \in {"error", "login_failed"}, GiveUp(status),
         UNCHANGED <<deviceVars, sent, quiet>>
  PROVE  SerialInv'
<1>1. /\ step' = "idle" /\ fd' = FALSE /\ answer' = status
      /\ UNCHANGED <<dev, todo, asked, n, buf, results, login_status, ncalls, at, typed, part, wire, sent, quiet>>
  BY Zenon DEF GiveUp, deviceVars
<1>2. Jobs' /\ OwnOutput'
  BY <1>1, JobsStay, Zenon
<1>3. Answering' /\ Flags'
  BY <1>1, Zenon DEF SerialInv, SerialTypes, Answering, SerialSteps, Flags
<1>4. Lines'
  BY <1>1, Zenon DEF SerialInv, SerialTypes, Lines
<1>5. NotYet'
  BY <1>1 DEF NotYet
<1>6. ASSUME quiet' PROVE InTune'
  <2>1. InTune /\ AtPlace(typed, at)
    BY <1>1, <1>6, TunePlaces, Zenon DEF SerialInv
  <2>2. part' = FALSE /\ AtPlace(typed', at')
    BY <1>1, <2>1, Zenon DEF InTune
  <2>3. step' = "idle"
    BY <1>1
  <2> QED BY <2>2, <2>3 DEF InTune
<1> QED BY <1>2, <1>3, <1>4, <1>5, <1>6 DEF SerialInv, SerialTypes

LEMMA LenNat ==
  ASSUME NEW S, NEW s \in Seq(S)
  PROVE  Len(s) \in Nat /\ 0 <= Len(s)
  BY LenProperties

\* The commands that are run.
Part(s, m) == SubSeq(s, 1, IF Len(s) > m THEN m ELSE Len(s))

LEMMA FirstPart ==
  ASSUME NEW S, NEW s \in Seq(S), s # <<>>, NEW m \in Nat \ {0}
  PROVE  Part(s, m) \in Seq(S) /\ 0 < Len(Part(s, m)) /\ Len(s) \in Nat
<1> DEFINE k == IF Len(s) > m THEN m ELSE Len(s)
<1>1. Len(s) \in Nat \ {0}
  BY EmptySeq, LenProperties
<1>2. k \in 1 .. Len(s)
  BY <1>1
<1>3. Part(s, m) = SubSeq(s, 1, k)
  BY Zenon DEF Part
<1> HIDE DEF k
<1>4. SubSeq(s, 1, k) \in Seq(S) /\ Len(SubSeq(s, 1, k)) = k
  BY <1>1, <1>2
<1> QED BY <1>1, <1>2, <1>3, <1>4

\* A call begins.
LEMMA CallBegins ==
  ASSUME PlainDevice, SerialInv, serial_execute
  PROVE  SerialInv'
<1>0. PICK args \in Calls :
        /\ ncalls' = ncalls + 1
        /\ results' = <<>> /\ login_status' = "none" /\ n' = 0 /\ buf' = <<>>
        /\ IF Refused(args)
           THEN /\ answer' = "error"
                /\ UNCHANGED <<step, dev, todo, asked, quiet>>
           ELSE /\ answer' = "none" /\ step' = "open"
                /\ dev' = Profile(args)
                /\ asked' = Len(args.commands)
                /\ todo' = SubSeq(args.commands, 1,
                              IF Len(args.commands) > SERIAL_MAX_COMMANDS
                              THEN SERIAL_MAX_COMMANDS ELSE Len(args.commands))
                /\ quiet' = (typed = <<>> /\ wire = <<>> /\ ~part)
  BY Zenon DEF serial_execute
<1>1. UNCHANGED <<fd, at, typed, part, wire, sent>> /\ step = "idle" /\ ncalls < MaxSerialCalls
  BY Zenon DEF serial_execute, deviceVars
<1>2. SerialTypes /\ Answering /\ Jobs /\ Lines /\ Flags /\ (quiet => InTune)
  BY Zenon DEF SerialInv, SerialTypes
<1>3. ncalls' \in 0 .. MaxSerialCalls
  <2>1. ncalls \in 0 .. MaxSerialCalls /\ MaxSerialCalls \in Nat
    BY <1>2, SerialBounds, Zenon DEF Answering
  <2>2. \A a \in Nat : \A b \in 0 .. a : b < a => b + 1 \in 0 .. a
    OBVIOUS
  <2> QED BY <1>0, <1>1, <2>1, <2>2, Zenon
<1>4. OwnOutput'
  <2>1. DOMAIN results' = {}
    BY <1>0
  <2> QED BY <2>1, Zenon DEF OwnOutput
<1>5. results' \in Seq(Results) /\ n' = Len(results') /\ n' = 0 /\ Len(buf') = 0
      /\ buf' \in Seq(Toks) /\ MAX_OUTPUT \in Nat
  BY <1>0, SerialBounds
<1>6. Len(buf') <= MAX_OUTPUT
  BY <1>5
<1>7. step' \in {"idle", "open"}
  BY <1>0, <1>1, Zenon
<1>8. NotYet'
  BY <1>7 DEF NotYet
<1>9. CASE Refused(args)
  <2>1. answer' = "error" /\ UNCHANGED <<step, dev, todo, asked, quiet>>
    BY <1>0, <1>9, Zenon
  <2>2. Answering' /\ Flags'
    BY <1>0, <1>1, <1>2, <1>3, <2>1, Zenon DEF Answering, Flags
  <2>3. Lines'
    BY <1>1, <1>2, <1>5, <1>6, <2>1, Zenon DEF Lines
  <2>4. Jobs'
    <3>1. 0 <= Len(todo) /\ todo \in Seq({"cmd", ""})
      <4>1. todo \in Seq({"cmd", ""})
        BY <1>2, Zenon DEF Jobs
      <4> QED BY <4>1, LenNat, Zenon
    <3> QED BY <1>1, <1>5, <2>1, <3>1, Zenon DEF Jobs
  <2>5. ASSUME quiet' PROVE InTune'
    <3>1. part' = FALSE /\ AtPlace(typed', at') /\ step' = "idle"
      BY <1>1, <1>2, <2>1, <2>5, Zenon DEF InTune
    <3> QED BY <3>1 DEF InTune
  <2> QED BY <1>4, <1>8, <2>2, <2>3, <2>4, <2>5, Zenon DEF SerialInv, SerialTypes
<1>10. CASE ~Refused(args)
  <2>1. /\ answer' = "none" /\ step' = "open" /\ dev' = Profile(args)
        /\ asked' = Len(args.commands)
        /\ todo' = SubSeq(args.commands, 1,
                       IF Len(args.commands) > SERIAL_MAX_COMMANDS
                       THEN SERIAL_MAX_COMMANDS ELSE Len(args.commands))
        /\ quiet' = (typed = <<>> /\ wire = <<>> /\ ~part)
    BY <1>0, <1>10, Zenon
  <2>2. PlainProfile(dev') /\ args.commands \in Seq({"cmd", ""}) /\ args.commands # <<>>
    BY <1>10, <2>1, Zenon DEF PlainDevice, Refused
  <2>4. todo' \in Seq({"cmd", ""}) /\ 0 < Len(todo') /\ asked' \in Nat
    <3>1. SERIAL_MAX_COMMANDS \in Nat \ {0}
      BY SerialBounds, Zenon
    <3> QED BY <2>1, <2>2, <3>1, FirstPart, Zenon DEF Part
  <2>5. quiet' \in BOOLEAN
    BY <2>1, Zenon
  <2>6. Answering' /\ Flags'
    <3>1. step' \in SerialSteps
      BY <2>1 DEF SerialSteps
    <3> QED BY <1>0, <1>1, <1>2, <1>3, <2>1, <2>4, <2>5, <3>1, Zenon DEF Answering, Flags
  <2>7. Lines'
    <3>1. step' \notin {"ask", "pass"}
      BY <2>1
    <3> QED BY <1>1, <1>2, <1>5, <1>6, <2>2, <3>1, Zenon DEF Lines
  <2>8. Jobs'
    <3>1. 0 <= Len(todo')
      BY <2>4, LenNat, Zenon
    <3> QED BY <1>5, <2>4, <3>1, Zenon DEF Jobs
  <2>9. ASSUME quiet' PROVE InTune'
    <3>1. part = FALSE /\ typed = <<>> /\ wire = <<>>
      BY <1>2, <2>1, <2>9, Zenon DEF Flags
    <3>2. part' = FALSE /\ typed' = <<>> /\ Without(wire', Noise) = <<>> /\ at' \in Sites
      BY <1>1, <1>2, <3>1, WithoutNone, Zenon DEF Lines
    <3> QED BY <2>1, <3>2 DEF InTune, Rests
  <2> QED BY <1>4, <1>8, <2>6, <2>7, <2>8, <2>9, Zenon DEF SerialInv, SerialTypes
<1> QED BY <1>9, <1>10, Zenon

\* The port is open.
LEMMA OpenStep ==
  ASSUME SerialInv, serial_open
  PROVE  SerialInv'
<1>0. SerialTypes /\ Answering /\ Jobs /\ Lines /\ Flags /\ (quiet => InTune)
  BY Zenon DEF SerialInv, SerialTypes
<1>1. /\ step = "open" /\ fd' = TRUE /\ Flushed
      /\ \/ /\ step' = "send" /\ login_status' = "skipped"
            /\ quiet' = (quiet /\ at = "shell")
         \/ step' = "tickle" /\ UNCHANGED <<login_status, quiet>>
      /\ UNCHANGED <<dev, todo, asked, n, buf, results, answer, ncalls, at, typed, part, sent>>
  BY Zenon DEF serial_open
<1>2. /\ wire' \in Seq(Toks) /\ \A i \in DOMAIN wire' : wire'[i].text # "csi"
      /\ Without(wire, Noise) = <<>> => Without(wire', Noise) = <<>>
  BY <1>0, <1>1, FlushedType, Zenon
<1>3. Jobs' /\ OwnOutput'
  <2>1. step # "idle"
    BY <1>1
  <2> QED BY <1>1, <2>1, JobsStay, Zenon
<1>4. step' \in SerialSteps /\ step' \notin {"ask", "pass"} /\ NotYet'
  BY <1>1 DEF SerialSteps, NotYet
<1>5. Answering' /\ Flags'
  BY <1>0, <1>1, <1>4, Zenon DEF Answering, Flags
<1>6. Lines'
  BY <1>0, <1>1, <1>2, <1>4, Zenon DEF Lines
<1>7. ASSUME quiet' PROVE InTune'
  <2>1. quiet /\ (step' = "send" => at = "shell")
    <3>1. step' = "send" => step' # "tickle"
      OBVIOUS
    <3> QED BY <1>1, <1>7, <3>1, Zenon
  <2>2. part = FALSE /\ typed = <<>> /\ Without(wire, Noise) = <<>> /\ at \in Sites
    BY <1>0, <1>1, <2>1, Zenon DEF InTune, Rests
  <2>3. part' = FALSE /\ typed' = <<>> /\ Without(wire', Noise) = <<>> /\ at' \in Sites
        /\ (step' = "send" => at' \in {"shell"})
    BY <1>1, <1>2, <2>1, <2>2, Zenon
  <2> QED BY <1>1, <2>3 DEF InTune, Rests
<1> QED BY <1>3, <1>4, <1>5, <1>6, <1>7, Zenon DEF SerialInv, SerialTypes

\* A line typed to a device that rests: its answer is all that is to come.
LEMMA LineOwed ==
  ASSUME NEW text, NEW sites, NEW id, NEW p \in sites, NEW w, Without(w, Noise) = <<>>,
         w \in Seq(Toks)
  PROVE  Awaiting(text, sites, id, <<Tok(text, id)>>, p, <<>>, w)
<1>1. <<>> \o w = w
  BY ConcatEmptySeq
<1> QED BY <1>1, Zenon DEF Awaiting, Owed

LEMMA EmptyBuffer ==
  ASSUME buf' = <<>>
  PROVE  /\ buf' \in Seq(Toks) /\ Len(buf') <= MAX_OUTPUT
         /\ \A pat : ~Found(buf', pat)
<1>1. MAX_OUTPUT \in Nat /\ Len(buf') = 0 /\ buf' \in Seq(Toks)
  BY SerialBounds
<1>2. DOMAIN buf' = {}
  OBVIOUS
<1> QED BY <1>1, <1>2 DEF Found

\* A line of the login is typed, or the write fails.
LEMMA SaysStep ==
  ASSUME PlainDevice, SerialInv, LoginSays
  PROVE  SerialInv'
<1>0. SerialTypes /\ Answering /\ Jobs /\ Lines /\ Flags /\ (quiet => InTune)
  BY Zenon DEF SerialInv, SerialTypes
<1>1. /\ step \in {"tickle", "user", "pass"} /\ buf' = <<>>
      /\ UNCHANGED <<dev, todo, asked, n, fd, results, login_status, answer, ncalls, at, wire>>
  BY DEF LoginSays, Says
<1>2. /\ step = "tickle" => step' = "seek"
      /\ step = "user" => step' = IF dev.password # "" THEN "ask" ELSE "confirm"
      /\ step = "pass" => step' = "confirm"
  BY <1>1 DEF LoginSays, AfterSaying
<1>3. step' \in {"seek", "ask", "confirm"} /\ (step' \in {"ask", "pass"} => dev.password # "")
  BY <1>1, <1>2
<1>4. /\ Says["tickle"] = "" /\ Says["user"] = dev.username /\ Says["pass"] = dev.password
  BY Zenon DEF Says
<1>5. Says[step] \in Texts /\ Says[step] = Said' /\ (quiet /\ InTune => Rests(SaidAt'))
  <2>1. "" \in Texts /\ dev.username \in Texts /\ dev.password \in Texts
        /\ (step = "pass" => dev.password # "")
    BY <1>0 DEF Lines, PlainProfile, Texts
  <2>2. Says[step] \in Texts
    BY <1>1, <1>4, <2>1, Zenon
  <2>3. CASE step = "tickle"
    <3>1. step' = "seek"
      BY <1>2, <2>3
    <3>2. Said' = "" /\ SaidAt' = Sites
      BY <3>1 DEF Said, SaidAt
    <3>3. InTune => Rests(Sites)
      BY <2>3, Zenon DEF InTune
    <3> QED BY <1>4, <2>2, <2>3, <3>2, <3>3, Zenon
  <2>4. CASE step = "user"
    <3>1. (dev.password # "" /\ step' = "ask") \/ (dev.password = "" /\ step' = "confirm")
      BY <1>2, <2>4
    <3>2. Said' = dev.username /\ SaidAt' = {"login"}
      BY <1>1, <3>1 DEF Said, SaidAt
    <3>3. InTune => Rests({"login"})
      BY <2>4, Zenon DEF InTune
    <3> QED BY <1>4, <2>2, <2>4, <3>2, <3>3, Zenon
  <2>5. CASE step = "pass"
    <3>1. dev.password # "" /\ step' = "confirm"
      BY <1>2, <2>1, <2>5
    <3>2. Said' = dev.password /\ SaidAt' = {"password"}
      BY <1>1, <3>1 DEF Said, SaidAt
    <3>3. InTune => Rests({"password"})
      BY <2>5, Zenon DEF InTune
    <3> QED BY <1>4, <2>2, <2>5, <3>2, <3>3, Zenon
  <2> QED BY <1>1, <2>3, <2>4, <2>5, Zenon
<1>6. Jobs' /\ OwnOutput'
  <2>1. step # "idle"
    BY <1>1
  <2> QED BY <1>1, <2>1, JobsStay, Zenon
<1>7. Answering'
  <2>1. step' \in SerialSteps
    BY <1>3 DEF SerialSteps
  <2> QED BY <1>0, <1>1, <2>1, Zenon DEF Answering
<1>8. NotYet'
  BY <1>1, EmptyBuffer, Zenon DEF NotYet
<1>9. buf' \in Seq(Toks) /\ Len(buf') <= MAX_OUTPUT
  BY <1>1, EmptyBuffer, Zenon
<1>10. CASE serial_send(Says[step]) /\ UNCHANGED quiet
  <2>1. /\ sent' \in Nat /\ part' = FALSE /\ typed' \in Seq(Toks)
        /\ part = FALSE /\ typed = <<>> => typed' = <<Tok(Said', sent')>>
    BY <1>0, <1>5, <1>10, SendType, Zenon
  <2>2. Lines'
    BY <1>0, <1>1, <1>3, <1>9, <2>1, Zenon DEF Lines
  <2>3. Flags'
    BY <1>0, <1>10, <2>1, Zenon DEF Flags
  <2>4. ASSUME quiet' PROVE InTune'
    <3>1. quiet /\ InTune /\ part = FALSE /\ Rests(SaidAt')
      BY <1>0, <1>5, <1>10, <2>4, Zenon DEF InTune
    <3>2. typed' = <<Tok(Said', sent')>> /\ Without(wire', Noise) = <<>> /\ at' \in SaidAt'
      BY <1>1, <2>1, <3>1, Zenon DEF Rests
    <3>3. wire' \in Seq(Toks)
      BY <2>2, Zenon DEF Lines
    <3>4. Awaiting(Said', SaidAt', sent', typed', at', buf', wire')
      BY <1>1, <3>2, <3>3, LineOwed, Zenon
    <3>5. step' \notin {"open", "tickle", "user", "pass", "send", "idle"}
      BY <1>3
    <3> QED BY <2>1, <3>4, <3>5, Zenon DEF InTune
  <2> QED BY <1>6, <1>7, <1>8, <2>2, <2>3, <2>4, Zenon DEF SerialInv, SerialTypes
<1>11. CASE SendFails
  <2>1. part' \in BOOLEAN /\ quiet' = FALSE /\ UNCHANGED <<sent, typed>>
    BY <1>0, <1>11, Zenon DEF SendFails, Flags
  <2>2. Lines'
    BY <1>0, <1>1, <1>3, <1>9, <2>1, Zenon DEF Lines
  <2>3. Flags'
    BY <2>1, Zenon DEF Flags
  <2> QED BY <1>6, <1>7, <1>8, <2>1, <2>2, <2>3, Zenon DEF SerialInv, SerialTypes
<1> QED BY <1>10, <1>11, Zenon DEF LoginSays

\* A command is typed.
LEMMA RunStep ==
  ASSUME PlainDevice, SerialInv, RunSends
  PROVE  SerialInv'
<1>0. SerialTypes /\ Answering /\ Jobs /\ Lines /\ Flags /\ (quiet => InTune)
  BY Zenon DEF SerialInv, SerialTypes
<1>1. /\ step = "send" /\ step' = "read" /\ buf' = <<>> /\ Flushed
      /\ serial_send(todo[n + 1])
      /\ UNCHANGED <<dev, todo, asked, n, fd, results, login_status, answer, ncalls, at, quiet>>
  BY Zenon DEF RunSends
<1>2. Said' = todo[n + 1] /\ SaidAt' = {"shell"} /\ step # "idle"
      /\ step' \in SerialSteps /\ step' \notin {"ask", "pass"}
  BY <1>1 DEF Said, SaidAt, SerialSteps
<1>3. todo[n + 1] \in Texts
  <2>1. todo \in Seq({"cmd", ""}) /\ results \in Seq(Results) /\ n = Len(results) /\ n < Len(todo)
    BY <1>0, <1>2, Zenon DEF Jobs
  <2>2. n \in Nat
    BY <2>1, LenProperties, Zenon
  <2>3. todo[n + 1] \in {"cmd", ""}
    BY <2>1, <2>2, NextIn, Zenon
  <2> QED BY <2>3 DEF Texts
<1>4. /\ sent' \in Nat /\ part' = FALSE /\ typed' \in Seq(Toks)
      /\ part = FALSE /\ typed = <<>> => typed' = <<Tok(Said', sent')>>
  BY <1>0, <1>1, <1>2, <1>3, SendType, Zenon
<1>5. /\ wire' \in Seq(Toks) /\ \A i \in DOMAIN wire' : wire'[i].text # "csi"
      /\ Without(wire, Noise) = <<>> => Without(wire', Noise) = <<>>
  BY <1>0, <1>1, FlushedType, Zenon
<1>6. Jobs' /\ OwnOutput'
  BY <1>1, <1>2, JobsStay, Zenon
<1>7. Answering' /\ Flags'
  BY <1>0, <1>1, <1>2, <1>4, Zenon DEF Answering, Flags
<1>8. NotYet'
  BY <1>1, EmptyBuffer, Zenon DEF NotYet
<1>9. Lines'
  <2>1. buf' \in Seq(Toks) /\ Len(buf') <= MAX_OUTPUT
    BY <1>1, EmptyBuffer, Zenon
  <2> QED BY <1>0, <1>1, <1>2, <1>4, <1>5, <2>1, Zenon DEF Lines
<1>10. ASSUME quiet' PROVE InTune'
  <2>1. InTune /\ part = FALSE /\ Rests({"shell"})
    BY <1>0, <1>1, <1>10, Zenon DEF InTune
  <2>2. typed' = <<Tok(Said', sent')>> /\ Without(wire', Noise) = <<>> /\ at' \in SaidAt'
    BY <1>1, <1>2, <1>4, <1>5, <2>1, Zenon DEF Rests
  <2>3. Awaiting(Said', SaidAt', sent', typed', at', buf', wire')
    BY <1>1, <1>5, <2>2, LineOwed, Zenon
  <2>4. step' \notin {"open", "tickle", "user", "pass", "send", "idle"}
    BY <1>1
  <2> QED BY <1>4, <2>3, <2>4, Zenon DEF InTune
<1> QED BY <1>6, <1>7, <1>8, <1>9, <1>10, Zenon DEF SerialInv, SerialTypes

\* What OwnOutput says of one result.
OwnEntry(r, text) ==
    (r.status = "ok" /\ r.own.quiet) =>
        Without(r.output, Noise) = IF text = "" THEN <<>> ELSE <<Tok("out", r.own.id)>>

LEMMA OwnAppended ==
  ASSUME SerialInv, todo' = todo, NEW r \in Results, results' = Append(results, r),
         Len(results) = n, OwnEntry(r, todo[n + 1])
  PROVE  OwnOutput'
<1>0. results \in Seq(Results) /\ \A i \in DOMAIN results : OwnEntry(results[i], todo[i])
  BY Zenon DEF SerialInv, SerialTypes, Jobs, OwnOutput, OwnEntry, Noise
<1>1. ASSUME NEW s \in Seq(Results), NEW i \in DOMAIN Append(s, r)
      PROVE  \/ i = Len(s) + 1 /\ Append(s, r)[i] = r
             \/ i \in DOMAIN s /\ Append(s, r)[i] = s[i]
  OBVIOUS
<1>2. \A i \in DOMAIN results' : OwnEntry(results'[i], todo'[i])
  <2> SUFFICES ASSUME NEW i \in DOMAIN results' PROVE OwnEntry(results'[i], todo[i])
    BY Zenon
  <2>1. \/ i = n + 1 /\ results'[i] = r
        \/ i \in DOMAIN results /\ results'[i] = results[i]
    BY <1>0, <1>1, Zenon
  <2> QED BY <1>0, <2>1, Zenon
<1> QED BY <1>2, Zenon DEF OwnOutput, OwnEntry, Noise

\* A command that failed or timed out: the call is no longer quiet.
LEMMA FailStep ==
  ASSUME SerialInv, RunSendFails \/ RunDeadline
  PROVE  SerialInv'
<1>0. SerialTypes /\ Answering /\ Jobs /\ Lines /\ Flags
  BY Zenon DEF SerialInv, SerialTypes
<1>1. /\ step \in {"send", "read"} /\ quiet' = FALSE /\ part' \in BOOLEAN
      /\ UNCHANGED <<dev, todo, asked, buf, login_status, ncalls, at, typed, sent>>
      /\ wire' = wire \/ Flushed
  BY <1>0, Zenon DEF RunSendFails, RunDeadline, SendFails, deviceVars, Flags
<1>2. wire' \in Seq(Toks) /\ \A i \in DOMAIN wire' : wire'[i].text # "csi"
  BY <1>0, <1>1, FlushedType, Zenon DEF Lines
<1>3. step # "idle"
  BY <1>1
<1>4. PICK status \in {"error", "timeout"}, o \in Seq(Toks), own \in [id : Nat, quiet : BOOLEAN] :
         Record(status, o, own)
  <2>1. CASE RunSendFails
    <3>1. <<>> \in Seq(Toks) /\ [id |-> 0, quiet |-> FALSE] \in [id : Nat, quiet : BOOLEAN]
      OBVIOUS
    <3> QED BY <2>1, <3>1, Zenon DEF RunSendFails
  <2>2. CASE RunDeadline
    <3>1. buf \in Seq(Toks) /\ sent \in Nat
      BY <1>0, Zenon DEF Lines
    <3>2. Cleaned(buf, todo[n + 1]) \in Seq(Toks)
      BY <3>1, CleanedType, Zenon
    <3>3. [id |-> sent, quiet |-> FALSE] \in [id : Nat, quiet : BOOLEAN]
      BY <3>1
    <3> QED BY <2>2, <3>2, <3>3, Zenon DEF RunDeadline
  <2> QED BY <2>1, <2>2
<1>5. PICK r \in Results : r = [status |-> status, output |-> o, own |-> own]
  BY DEF Results
<1>6. /\ Jobs' /\ step' \in {"idle", "send"} /\ fd' \in BOOLEAN
      /\ answer' \in {"none", "ok", "error", "timeout", "login_failed"}
      /\ results' = Append(results, r) /\ Len(results) = n
  BY <1>0, <1>1, <1>3, <1>4, <1>5, Recorded, Zenon
<1>7. OwnEntry(r, todo[n + 1])
  <2>1. r.status # "ok"
    BY <1>5
  <2> QED BY <2>1, Zenon DEF OwnEntry
<1>8. OwnOutput'
  BY <1>1, <1>6, <1>7, OwnAppended, Zenon
<1>9. step' \in SerialSteps /\ step' \notin {"ask", "pass"} /\ NotYet'
  BY <1>6 DEF SerialSteps, NotYet
<1>10. Answering' /\ Flags'
  BY <1>0, <1>1, <1>6, <1>9, Zenon DEF Answering, Flags
<1>11. Lines'
  BY <1>0, <1>1, <1>2, <1>9, Zenon DEF Lines
<1> QED BY <1>1, <1>6, <1>8, <1>9, <1>10, <1>11, Zenon DEF SerialInv, SerialTypes

\* The device answers the line it is next to take.
LEMMA AnswerType ==
  ASSUME PlainDevice, NEW p \in Sites, NEW ln \in Toks, NEW a \in Answers(p, ln)
  PROVE  a[1] \in Sites /\ a[2] \in Seq(Toks) /\ \A i \in DOMAIN a[2] : a[2][i].text # "csi"
<1>1. CASE a \in PlainAnswers(p, ln)
  <2>1. a[1] \in Sites /\ Ends(a[2], Ending[a[1]])
    BY <1>1, AnswerShape
  <2>2. Ending[a[1]] # "csi" /\ "csi" \in Looked
    BY <2>1 DEF Sites, Ending, Looked
  <2>3. PICK A : A = a[2] /\ Ends(A, Ending[a[1]])
    BY <2>1
  <2>4. A \in Seq(Toks) /\ \A i \in DOMAIN A : A[i].text # "csi"
    BY <2>2, <2>3 DEF Ends
  <2> QED BY <2>1, <2>3, <2>4, Zenon
<1>2. CASE a \notin PlainAnswers(p, ln)
  <2>1. ~Colour /\ ln.cmd \in Nat
    BY DEF PlainDevice, Toks
  <2>2. Prompt(ln.cmd) = <<Tok("#", ln.cmd)>>
    BY <2>1 DEF Prompt
  <2>3. a = <<"shell", <<Tok("echo", ln.cmd), Tok("text#", ln.cmd)>> \o <<Tok("#", ln.cmd)>>>>
    BY <1>2, <2>2 DEF Answers
  <2>4. PICK x, y, z \in Toks : /\ x = Tok("echo", ln.cmd) /\ y = Tok("text#", ln.cmd)
                                /\ z = Tok("#", ln.cmd)
    BY <2>1 DEF Tok, Toks, Texts
  <2>5. x.text # "csi" /\ y.text # "csi" /\ z.text # "csi"
    BY <2>4 DEF Tok
  <2>6. <<x, y>> \o <<z>> \in Seq(Toks) /\ \A i \in DOMAIN (<<x, y>> \o <<z>>) :
                                           (<<x, y>> \o <<z>>)[i].text # "csi"
    <3>1. <<x, y>> \o <<z>> = <<x, y, z>>
      <4>1. Append(<<x, y>>, z) = <<x, y, z>>
        BY AppendThird, Zenon
      <4>2. <<x, y>> \in Seq(Toks)
        OBVIOUS
      <4>3. Append(<<x, y>>, z) = <<x, y>> \o <<z>>
        BY <4>2, AppendIsConcat, Zenon
      <4> QED BY <4>1, <4>3, Zenon
    <3>2. <<x, y, z>> \in Seq(Toks) /\ \A i \in DOMAIN <<x, y, z>> : <<x, y, z>>[i].text # "csi"
      BY <2>5
    <3> QED BY <3>1, <3>2
  <2>7. a[1] = "shell" /\ a[2] = <<x, y>> \o <<z>>
    BY <2>3, <2>4
  <2> QED BY <2>6, <2>7, Zenon DEF Sites
<1> QED BY <1>1, <1>2

LEMMA ConcatPlain ==
  ASSUME NEW u \in Seq(Toks), NEW v \in Seq(Toks), \A i \in DOMAIN u : u[i].text # "csi",
         \A i \in DOMAIN v : v[i].text # "csi"
  PROVE  u \o v \in Seq(Toks) /\ \A i \in DOMAIN (u \o v) : (u \o v)[i].text # "csi"
<1>1. /\ u \o v \in Seq(Toks)
      /\ \A j \in DOMAIN (u \o v) :
            \/ j \in DOMAIN u /\ (u \o v)[j] = u[j]
            \/ j - Len(u) \in DOMAIN v /\ (u \o v)[j] = v[j - Len(u)]
  OBVIOUS
<1> QED BY <1>1, Zenon

LEMMA TakesStep ==
  ASSUME PlainDevice, SerialInv, DeviceTakes
  PROVE  SerialInv'
<1>0. SerialTypes /\ Answering /\ Jobs /\ Lines /\ Flags /\ (quiet => InTune)
  BY Zenon DEF SerialInv, SerialTypes
<1>1. /\ typed # <<>> /\ typed' = Tail(typed)
      /\ UNCHANGED <<step, dev, todo, asked, n, fd, buf, results, login_status, answer, ncalls,
                     part, sent>>
  BY Zenon DEF DeviceTakes, toolVars
<1>2. PICK a \in Answers(at, Head(typed)) :
         /\ at' = a[1] /\ wire' = wire \o a[2]
         /\ quiet' = (quiet /\ a \in PlainAnswers(at, Head(typed)))
  BY Zenon DEF DeviceTakes
<1>3. /\ typed \in Seq(Toks) /\ at \in Sites /\ wire \in Seq(Toks) /\ buf \in Seq(Toks)
      /\ sent \in Nat /\ \A i \in DOMAIN wire : wire[i].text # "csi"
  BY <1>0, Zenon DEF Lines
<1>4. Head(typed) \in Toks /\ Tail(typed) \in Seq(Toks)
  BY <1>1, <1>3
<1>5. a[1] \in Sites /\ a[2] \in Seq(Toks) /\ \A i \in DOMAIN a[2] : a[2][i].text # "csi"
  BY <1>3, <1>4, AnswerType, Zenon
<1>6. wire' \in Seq(Toks) /\ \A i \in DOMAIN wire' : wire'[i].text # "csi"
  BY <1>2, <1>3, <1>5, ConcatPlain, Zenon
<1>7. Answering' /\ Flags' /\ Jobs' /\ OwnOutput' /\ NotYet'
  <2>1. quiet' \in BOOLEAN
    BY <1>2, Zenon
  <2> QED BY <1>1, <2>1, Zenon
             DEF SerialInv, SerialTypes, Answering, Flags, Jobs, OwnOutput, NotYet
<1>8. Lines'
  BY <1>0, <1>1, <1>2, <1>4, <1>5, <1>6, Zenon DEF Lines
<1>9. ASSUME quiet' PROVE InTune'
  <2>0. quiet /\ a \in PlainAnswers(at, Head(typed))
    BY <1>0, <1>2, <1>9, Zenon DEF Flags
  <2>1. InTune
    BY <1>0, <2>0, Zenon
  <2>2. step \in {"seek", "ask", "confirm", "read", "idle"}
    <3>1. step \notin {"open", "tickle"} /\ step # "user" /\ step # "pass" /\ step # "send"
      BY <1>1, <2>1, Zenon DEF InTune, Rests
    <3>2. step \in SerialSteps
      BY <1>0, Zenon DEF Answering
    <3> QED BY <3>1, <3>2 DEF SerialSteps
  <2>3. ASSUME step = "idle" PROVE AtPlace(typed', at')
    <3>1. AtPlace(typed, at)
      BY <2>1, <2>3, Zenon DEF InTune
    <3>2. PICK x : typed = <<x>>
      BY <1>1, <3>1, Zenon DEF AtPlace
    <3>3. typed' = <<>>
      BY <1>1, <3>2
    <3> QED BY <3>3, Zenon DEF AtPlace
  <2>4. ASSUME step \in {"seek", "ask", "confirm", "read"}
        PROVE  Awaiting(Said', SaidAt', sent', typed', at', buf', wire')
    <3>1. Awaiting(Said, SaidAt, sent, typed, at, buf, wire)
      BY <2>1, <2>4, Zenon DEF InTune
    <3>2. Said \in Texts /\ SaidAt \in SUBSET Sites
      BY <1>0, <2>4, SaidType, Zenon
    <3>3. Awaiting(Said, SaidAt, sent, Tail(typed), a[1], buf, wire \o a[2])
      BY <1>1, <1>3, <2>0, <3>1, <3>2, AnswerKeepsWait, Zenon
    <3>4. Said' = Said /\ SaidAt' = SaidAt
      BY <1>1, Zenon DEF Said, SaidAt
    <3> QED BY <1>1, <1>2, <3>3, <3>4, Zenon
  <2>5. step' = step /\ part' = FALSE
    BY <1>1, <2>1, Zenon DEF InTune
  <2>6. step' \notin {"open", "tickle", "user", "pass", "send"}
    BY <2>2, <2>5
  <2> QED BY <2>3, <2>4, <2>5, <2>6, Zenon DEF InTune
<1> QED BY <1>7, <1>8, <1>9, Zenon DEF SerialInv, SerialTypes

LEMMA BabbleStep ==
  ASSUME SerialInv, DeviceBabbles
  PROVE  SerialInv'
<1>0. SerialTypes /\ Answering /\ Jobs /\ Lines /\ Flags /\ (quiet => InTune)
  BY Zenon DEF SerialInv, SerialTypes
<1>1. UNCHANGED <<step, dev, todo, asked, n, fd, buf, results, login_status, answer, ncalls,
                  at, typed, part, sent, quiet>>
  BY Zenon DEF DeviceBabbles, toolVars
<1>2. PICK x \in Toks : x.text = "noise" /\ wire' = Append(wire, x)
  BY DEF DeviceBabbles, Tok, Toks, Texts
<1>3. wire \in Seq(Toks) /\ buf \in Seq(Toks) /\ \A i \in DOMAIN wire : wire[i].text # "csi"
  BY <1>0, Zenon DEF Lines
<1>4. wire' \in Seq(Toks) /\ \A i \in DOMAIN wire' : wire'[i].text # "csi"
  BY <1>2, <1>3
<1>5. x.text \in Noise
  BY <1>2 DEF Noise
<1>6. Without(wire', Noise) = Without(wire, Noise)
  BY <1>2, <1>3, <1>5, WithoutAppend
<1>7. Answering' /\ Flags' /\ Jobs' /\ OwnOutput' /\ NotYet'
  BY <1>1, Zenon DEF SerialInv, SerialTypes, Answering, Flags, Jobs, OwnOutput, NotYet
<1>8. Lines'
  BY <1>0, <1>1, <1>4, Zenon DEF Lines
<1>9. ASSUME quiet' PROVE InTune'
  <2>1. InTune
    BY <1>0, <1>1, <1>9, Zenon
  <2>3. Awaiting(Said, SaidAt, sent, typed, at, buf, wire)
          => Awaiting(Said, SaidAt, sent, typed, at, buf, wire')
    BY <1>2, <1>3, <1>5, NoiseKeepsWait, Zenon
  <2>4. Said' = Said /\ SaidAt' = SaidAt
    BY <1>1, Zenon DEF Said, SaidAt
  <2>5. /\ part' = FALSE
        /\ step' \in {"open", "tickle"} => Rests(Sites)'
        /\ step' = "user" => Rests({"login"})'
        /\ step' = "pass" => Rests({"password"})'
        /\ step' = "send" => Rests({"shell"})'
    BY <1>1, <1>6, <2>1, Zenon DEF InTune, Rests
  <2>6. step' \in {"seek", "ask", "confirm", "read"} =>
           Awaiting(Said', SaidAt', sent', typed', at', buf', wire')
    BY <1>1, <2>1, <2>3, <2>4, Zenon DEF InTune
  <2>7. step' = "idle" => AtPlace(typed', at')
    BY <1>1, <2>1, Zenon DEF InTune
  <2> QED BY <2>5, <2>6, <2>7, Zenon DEF InTune
<1> QED BY <1>7, <1>8, <1>9, Zenon DEF SerialInv, SerialTypes

LEMMA ChunkTaken ==
  ASSUME Lines, NEW k \in 1 .. Len(wire)
  PROVE  Chunk(buf, wire, Accumulated(buf, SubSeq(wire, 1, k)), SubSeq(wire, k + 1, Len(wire)))
<1>1. buf \in Seq(Toks) /\ wire \in Seq(Toks) /\ \A i \in DOMAIN wire : wire[i].text # "csi"
  BY Zenon DEF Lines
<1> QED BY <1>1, ChunkRead, Zenon

\* The wait goes on.
LEMMA ChunkKeepsWait ==
  ASSUME SerialTypes, InTune, step \in {"seek", "ask", "confirm", "read"},
         NEW b, NEW v, Chunk(buf, wire, b, v)
  PROVE  Awaiting(Said, SaidAt, sent, typed, at, b, v)
<1>1. PICK d, r \in Seq(Toks) :
          buf \o wire = b \o d /\ d = r \o v /\ (r = <<>> \/ Len(b) = MAX_OUTPUT)
  BY Zenon DEF Chunk
<1>2. /\ buf \in Seq(Toks) /\ wire \in Seq(Toks) /\ sent \in Nat
      /\ b \in Seq(Toks) /\ v \in Seq(Toks) /\ (Len(buf) = MAX_OUTPUT => b = buf)
  BY Zenon DEF SerialTypes, Lines, Chunk
<1>3. Said \in Texts /\ SaidAt \in SUBSET Sites
  BY SaidType, Zenon
<1>4. Awaiting(Said, SaidAt, sent, typed, at, buf, wire)
  BY Zenon DEF InTune
<1> QED BY <1>1, <1>2, <1>3, <1>4, ReadKeepsWait, Zenon

\* The wait is over: the answer was read to its end and the device rests.
LEMMA ChunkEndsWait ==
  ASSUME PlainDevice, SerialTypes, InTune, NotYet,
         step \in {"seek", "ask", "confirm", "read"},
         NEW b, NEW v, Chunk(buf, wire, b, v), NEW pat \in Awaited[step], Found(b, pat)
  PROVE  /\ typed = <<>> /\ Without(v, Noise) = <<>> /\ pat = Ending[at]
         /\ \E q \in SaidAt : \E a \in PlainAnswers(q, Tok(Said, sent)) : Without(b, Noise) = a[2]
<1>2. buf \in Seq(Toks) /\ wire \in Seq(Toks) /\ sent \in Nat
  BY Zenon DEF SerialTypes, Lines
<1>3. Said \in Texts /\ SaidAt \in SUBSET Sites
  BY SaidType, Zenon
<1>4. Awaiting(Said, SaidAt, sent, typed, at, buf, wire)
  BY Zenon DEF InTune
<1>5. pat \in Signs /\ ~Found(buf, pat)
  <2>1. ~Found(buf, pat)
    BY Zenon DEF NotYet
  <2>2. pat \in Signs
    BY DEF Awaited, Signs
  <2> QED BY <2>1, <2>2
<1>6. /\ typed = <<>> /\ Without(v, Noise) = <<>>
      /\ Heard(Said, SaidAt, sent, at, b, pat)
  BY <1>2, <1>3, <1>4, <1>5, FindsAnswer, Zenon
<1> QED BY <1>6, Zenon DEF Heard

LEMMA OneTok ==
  ASSUME NEW x \in Toks
  PROVE  <<x>> \in Seq(Toks)
  OBVIOUS

\* The answer of the shell, cleaned.
LEMMA CleanedOwn ==
  ASSUME PlainDevice, dev.prompt = "#", NEW b \in Seq(Toks), NEW id \in Nat,
         NEW text \in {"cmd", ""}, NEW a \in PlainAnswers("shell", Tok(text, id)),
         Without(b, Noise) = a[2]
  PROVE  Without(Cleaned(b, text), Noise) = IF text = "" THEN <<>> ELSE <<Tok("out", id)>>
<1>1. /\ Tok(text, id).text = text /\ Tok(text, id).cmd = id
  BY DEF Tok
<1>2. \A t \in Texts : Tok(t, id) \in Toks /\ Tok(t, id).text = t
  BY TokType, Zenon
<1>3. "#" \in Texts /\ "echo" \in Texts /\ "out" \in Texts
  BY DEF Texts
<1>4. Prompt(id) = <<Tok("#", id)>>
  <2>1. Tok("#", id) \in Toks /\ ~Colour
    BY <1>2, <1>3, Zenon DEF PlainDevice
  <2>2. <<Tok("#", id)>> \in Seq(Toks)
    BY <2>1, OneTok, Zenon
  <2> QED BY <2>1, <2>2, ConcatEmptySeq DEF Prompt
<1>5. CASE text = ""
  <2>1. a = <<"shell", Prompt(id)>>
    BY <1>1, <1>5 DEF PlainAnswers
  <2>2. Without(b, Noise) = <<Tok("#", id)>>
    BY <1>4, <2>1
  <2>3. Without(Cleaned(b, text), Noise) = <<>>
    BY <1>2, <1>3, <2>2, CleanedPrompt, Zenon
  <2> QED BY <1>5, <2>3, Zenon
<1>6. CASE text = "cmd"
  <2>1. a = <<"shell", <<Tok("echo", id), Tok("out", id)>> \o Prompt(id)>>
    BY <1>1, <1>6 DEF PlainAnswers
  <2>2. Without(b, Noise) = <<Tok("echo", id), Tok("out", id)>> \o <<Tok("#", id)>>
    BY <1>4, <2>1
  <2>3. Without(Cleaned(b, "cmd"), Noise) = <<Tok("out", id)>>
    <3>4. PICK x \in Toks : x = Tok("echo", id) /\ x.text = "echo"
      BY <1>2, <1>3, Zenon
    <3>5. PICK y \in Toks : y = Tok("out", id) /\ y.text = "out"
      BY <1>2, <1>3, Zenon
    <3>1. PICK z \in Toks : z = Tok("#", id) /\ z.text = "#"
      BY <1>2, <1>3, Zenon
    <3>2. Without(b, Noise) = <<x, y>> \o <<z>>
      BY <2>2, <3>1, <3>4, <3>5, Zenon
    <3>3. Without(Cleaned(b, "cmd"), Noise) = <<y>>
      BY <3>1, <3>2, <3>4, <3>5, CleanedOut
    <3> QED BY <3>3, <3>5, Zenon
  <2>4. text # ""
    BY <1>6
  <2> QED BY <1>6, <2>3, <2>4, Zenon
<1> QED BY <1>5, <1>6

LEMMA ReadStep ==
  ASSUME PlainDevice, SerialInv, read_until
  PROVE  SerialInv'
<1>0. SerialTypes /\ Answering /\ Jobs /\ Lines /\ Flags /\ NotYet /\ (quiet => InTune)
  BY Zenon DEF SerialInv, SerialTypes
<1>1. step \in DOMAIN Waits /\ PlainProfile(dev)
  BY <1>0, Zenon DEF read_until, Lines
<1>2. step \in {"seek", "ask", "confirm", "read"} /\ step # "idle"
  BY <1>1, SeenAs
<1>3. PICK k \in 1 .. Len(wire) :
        LET b == Accumulated(buf, SubSeq(wire, 1, k))
        IN /\ wire' = SubSeq(wire, k + 1, Len(wire))
           /\ buf' = b
           /\ IF ~ Sees(b, Waits[step])
              THEN UNCHANGED <<step, login_status, n, fd, results, answer>>
              ELSE IF step = "read"
              THEN /\ Record("ok", Cleaned(b, todo[n + 1]), [id |-> sent, quiet |-> quiet])
                   /\ UNCHANGED login_status
              ELSE LoginFound(b) /\ UNCHANGED <<n, fd, results, answer>>
  BY Zenon DEF read_until, Sees
<1>4. UNCHANGED <<dev, todo, asked, ncalls, at, typed, part, sent, quiet>>
  BY Zenon DEF read_until
<1>5. Chunk(buf, wire, buf', wire')
  BY <1>0, <1>3, ChunkTaken, Zenon
<1>6. IF ~ Sees(buf', Waits[step])
      THEN UNCHANGED <<step, login_status, n, fd, results, answer>>
      ELSE IF step = "read"
      THEN /\ Record("ok", Cleaned(buf', todo[n + 1]), [id |-> sent, quiet |-> quiet])
           /\ UNCHANGED login_status
      ELSE LoginFound(buf') /\ UNCHANGED <<n, fd, results, answer>>
  BY <1>3, Zenon
<1>7. /\ buf' \in Seq(Toks) /\ Len(buf') <= MAX_OUTPUT
      /\ wire' \in Seq(Toks) /\ \A i \in DOMAIN wire' : wire'[i].text # "csi"
  BY <1>5, Zenon DEF Chunk
<1>8. (step' \in {"ask", "pass"} => dev.password # "") => Lines'
  BY <1>0, <1>4, <1>7, Zenon DEF Lines
<1>9. Flags' /\ (quiet' => InTune /\ part' = FALSE)
  BY <1>0, <1>4, Zenon DEF Flags, InTune
<1>10. CASE ~Sees(buf', Waits[step])
  <2>1. UNCHANGED <<step, login_status, n, fd, results, answer>>
    BY <1>6, <1>10, Zenon
  <2>2. Answering' /\ Jobs' /\ OwnOutput'
    BY <1>4, <2>1, Zenon DEF SerialInv, SerialTypes, Answering, Jobs, OwnOutput
  <2>3. Lines'
    <3>1. step' \in {"ask", "pass"} => dev.password # ""
      BY <1>0, <2>1, Zenon DEF Lines
    <3> QED BY <1>8, <3>1, Zenon
  <2>4. NotYet'
    <3>1. \A pat \in Awaited[step] : ~Found(buf', pat)
      BY <1>1, <1>10, SeenAs, Zenon
    <3> QED BY <2>1, <3>1, Zenon DEF NotYet, Awaited
  <2>5. ASSUME quiet' PROVE InTune'
    <3>1. Awaiting(Said, SaidAt, sent, typed, at, buf', wire')
      BY <1>0, <1>2, <1>5, <1>9, <2>5, ChunkKeepsWait, Zenon
    <3>2. Said' = Said /\ SaidAt' = SaidAt
      BY <1>4, <2>1, Zenon DEF Said, SaidAt
    <3>3. Awaiting(Said', SaidAt', sent', typed', at', buf', wire')
      BY <1>4, <3>1, <3>2, Zenon
    <3>4. step' \notin {"open", "tickle", "user", "pass", "send", "idle"}
      BY <1>2, <2>1
    <3> QED BY <1>9, <2>5, <3>3, <3>4, Zenon DEF InTune
  <2> QED BY <1>9, <2>2, <2>3, <2>4, <2>5, Zenon DEF SerialInv, SerialTypes
<1>11. CASE Sees(buf', Waits[step]) /\ step # "read"
  <2>1. LoginFound(buf') /\ UNCHANGED <<n, fd, results, answer>>
    BY <1>6, <1>11, Zenon
  <2>2. \/ step = "seek" /\ Found(buf', "login:") /\ step' = "user" /\ UNCHANGED login_status
        \/ step = "seek" /\ ~Found(buf', "login:") /\ step' = "send"
           /\ login_status' = "already_authenticated"
        \/ step = "ask" /\ step' = "pass" /\ UNCHANGED login_status
        \/ step = "confirm" /\ step' = "send" /\ login_status' = "ok"
    <3>1. (\E i \in DOMAIN LoginPatterns : Found(buf', LoginPatterns[i])) <=> Found(buf', "login:")
      BY <1>1, LoginSeen, Zenon
    <3>2. CASE step = "seek"
      <4>1. IF \E i \in DOMAIN LoginPatterns : Found(buf', LoginPatterns[i])
            THEN step' = "user" /\ UNCHANGED login_status
            ELSE step' = "send" /\ login_status' = "already_authenticated"
        BY <2>1, <3>2 DEF LoginFound
      <4> QED BY <3>1, <3>2, <4>1, Zenon
    <3>3. CASE step = "ask"
      BY <2>1, <3>3 DEF LoginFound
    <3>4. CASE step = "confirm"
      BY <2>1, <3>4 DEF LoginFound
    <3> QED BY <1>2, <1>11, <3>2, <3>3, <3>4
  <2>3. /\ step' \in {"user", "send", "pass"} /\ step' \in SerialSteps /\ step' # "ask"
        /\ (step' = "pass" => step = "ask")
    BY <2>2 DEF SerialSteps
  <2>4. Answering'
    BY <1>0, <1>4, <2>1, <2>2, <2>3, Zenon DEF Answering
  <2>5. Jobs' /\ OwnOutput'
    BY <1>2, <1>4, <2>1, JobsStay, Zenon
  <2>6. Lines'
    <3>1. step' \in {"ask", "pass"} => dev.password # ""
      BY <1>0, <2>3, Zenon DEF Lines
    <3> QED BY <1>8, <3>1, Zenon
  <2>7. NotYet'
    BY <2>3 DEF NotYet
  <2>8. ASSUME quiet' PROVE InTune'
    <3>1. PICK pat \in Awaited[step] : Found(buf', pat)
      BY <1>1, <1>11, SeenAs, Zenon
    <3>2. \A p \in Awaited[step] : Found(buf', p) =>
             typed = <<>> /\ Without(wire', Noise) = <<>> /\ p = Ending[at]
      BY <1>0, <1>2, <1>5, <1>9, <2>8, ChunkEndsWait, Zenon
    <3>3. typed' = <<>> /\ Without(wire', Noise) = <<>> /\ pat = Ending[at]
      BY <1>4, <3>1, <3>2, Zenon
    <3>4. /\ Ending["login"] = "login:" /\ Ending["password"] = "password:" /\ Ending["shell"] = "#"
          /\ at \in {"login", "password", "shell"}
      BY <1>0 DEF Ending, Lines, Sites
    <3>5. /\ Awaited["seek"] = {"login:", "#"} /\ Awaited["ask"] = {"password:"}
          /\ Awaited["confirm"] = {"#"}
      BY Zenon DEF Awaited
    <3>6. CASE step = "seek" /\ Found(buf', "login:") /\ step' = "user"
      <4>1. Ending[at] = "login:"
        BY <3>2, <3>5, <3>6
      <4>2. at' \in {"login"}
        BY <1>4, <3>4, <4>1
      <4> QED BY <1>9, <2>8, <3>3, <3>6, <4>2 DEF InTune, Rests
    <3>7. CASE step' = "send" /\ ((step = "seek" /\ ~Found(buf', "login:")) \/ step = "confirm")
      <4>1. pat = "#"
        BY <3>1, <3>5, <3>7
      <4>2. at' \in {"shell"}
        BY <1>4, <3>3, <3>4, <4>1
      <4> QED BY <1>9, <2>8, <3>3, <3>7, <4>2 DEF InTune, Rests
    <3>8. CASE step = "ask" /\ step' = "pass"
      <4>1. pat = "password:"
        BY <3>1, <3>5, <3>8
      <4>2. at' \in {"password"}
        BY <1>4, <3>3, <3>4, <4>1
      <4> QED BY <1>9, <2>8, <3>3, <3>8, <4>2 DEF InTune, Rests
    <3> QED BY <2>2, <3>6, <3>7, <3>8, Zenon
  <2> QED BY <1>9, <2>4, <2>5, <2>6, <2>7, <2>8, Zenon DEF SerialInv, SerialTypes
<1>12. CASE Sees(buf', Waits[step]) /\ step = "read"
  <2>1. /\ Record("ok", Cleaned(buf', todo[n + 1]), [id |-> sent, quiet |-> quiet])
        /\ UNCHANGED login_status
    BY <1>6, <1>12, Zenon
  <2> DEFINE o == Cleaned(buf', todo[n + 1])
             own == [id |-> sent, quiet |-> quiet]
  <2>2. o \in Seq(Toks)
    BY <1>7, CleanedType, Zenon
  <2>3. own \in [id : Nat, quiet : BOOLEAN]
    <3>1. sent \in Nat /\ quiet \in BOOLEAN
      BY <1>0, Zenon DEF Lines, Flags
    <3> QED BY <3>1, Zenon
  <2> HIDE DEF o, own
  <2>4. PICK r \in Results : r = [status |-> "ok", output |-> o, own |-> own]
    BY <2>2, <2>3 DEF Results
  <2>5. /\ Jobs' /\ step' \in {"idle", "send"} /\ fd' \in BOOLEAN
        /\ answer' \in {"none", "ok", "error", "timeout", "login_failed"}
        /\ results' = Append(results, r) /\ Len(results) = n
    <3>1. Record("ok", o, own)
      BY <2>1, Zenon DEF o, own
    <3> QED BY <1>0, <1>2, <1>4, <2>4, <3>1, Recorded, Zenon
  <2>6. Awaited[step] = {"#"} /\ Said = todo[n + 1] /\ SaidAt = {"shell"}
    BY <1>12 DEF Awaited, Said, SaidAt
  <2>7. quiet => /\ typed = <<>> /\ Without(wire', Noise) = <<>> /\ at = "shell"
                 /\ \E a \in PlainAnswers("shell", Tok(todo[n + 1], sent)) : Without(buf', Noise) = a[2]
    <3> SUFFICES ASSUME quiet
                 PROVE  /\ typed = <<>> /\ Without(wire', Noise) = <<>> /\ at = "shell"
                        /\ \E a \in PlainAnswers("shell", Tok(todo[n + 1], sent)) : Without(buf', Noise) = a[2]
      OBVIOUS
    <3>1. PICK pat \in Awaited[step] : Found(buf', pat)
      BY <1>1, <1>12, SeenAs, Zenon
    <3>2. /\ typed = <<>> /\ Without(wire', Noise) = <<>> /\ pat = Ending[at]
          /\ \E q \in SaidAt : \E a \in PlainAnswers(q, Tok(Said, sent)) : Without(buf', Noise) = a[2]
      BY <1>0, <1>2, <1>5, <3>1, ChunkEndsWait, Zenon
    <3>3. pat = "#" /\ at \in {"login", "password", "shell"}
      BY <1>0, <2>6, <3>1, Zenon DEF Lines, Sites
    <3>4. at = "shell"
      BY <3>2, <3>3 DEF Ending
    <3> QED BY <2>6, <3>2, <3>4, Zenon
  <2>8. OwnEntry(r, todo[n + 1])
    <3>1. r.status = "ok" /\ r.output = o /\ r.own = own /\ own.id = sent /\ own.quiet = quiet
      BY <2>4 DEF own
    <3>2. ASSUME quiet
          PROVE  Without(o, Noise) = IF todo[n + 1] = "" THEN <<>> ELSE <<Tok("out", sent)>>
      <4>1. PICK a \in PlainAnswers("shell", Tok(todo[n + 1], sent)) : Without(buf', Noise) = a[2]
        BY <2>7, <3>2, Zenon
      <4>2. todo[n + 1] \in {"cmd", ""}
        <5>1. todo \in Seq({"cmd", ""}) /\ results \in Seq(Results) /\ n = Len(results) /\ n < Len(todo)
          BY <1>0, <1>2, Zenon DEF Jobs
        <5>2. n \in Nat
          BY <5>1, LenProperties, Zenon
        <5> QED BY <5>1, <5>2, NextIn, Zenon
      <4>3. sent \in Nat /\ dev.prompt = "#"
        BY <1>0, Zenon DEF Lines, PlainProfile
      <4> QED BY <1>7, <4>1, <4>2, <4>3, CleanedOwn, Zenon DEF o
    <3> QED BY <3>1, <3>2, Zenon DEF OwnEntry
  <2>9. OwnOutput'
    BY <1>4, <2>4, <2>5, <2>8, OwnAppended, Zenon
  <2>10. step' \in SerialSteps /\ step' \notin {"ask", "pass"} /\ NotYet'
    BY <2>5 DEF SerialSteps, NotYet
  <2>11. Answering'
    BY <1>0, <1>4, <2>1, <2>5, <2>10, Zenon DEF Answering
  <2>12. ASSUME quiet' PROVE InTune'
    <3>1. typed' = <<>> /\ Without(wire', Noise) = <<>> /\ at' \in {"shell"}
      BY <1>4, <2>7, <2>12, Zenon
    <3> QED BY <1>9, <2>5, <2>12, <3>1 DEF InTune, Rests, AtPlace
  <2> QED BY <1>8, <1>9, <2>5, <2>9, <2>10, <2>11, <2>12, Zenon DEF SerialInv, SerialTypes
<1> QED BY <1>10, <1>11, <1>12, Zenon

\* A call of another thread uses the line: nothing is claimed of this one now.
LEMMA OtherStep ==
  ASSUME SerialInv, OtherTypes \/ OtherTakes
  PROVE  SerialInv'
<1>0. SerialTypes /\ Answering /\ Jobs /\ Lines /\ Flags
  BY Zenon DEF SerialInv, SerialTypes
<1>1. /\ UNCHANGED <<step, dev, todo, asked, n, fd, buf, results, login_status, answer, ncalls,
                     at, sent>>
      /\ quiet' = FALSE
  BY Zenon DEF OtherTypes, OtherTakes, Other, toolVars
<1>2. Answering' /\ Jobs' /\ OwnOutput' /\ NotYet'
  BY <1>1, Zenon DEF SerialInv, SerialTypes, Answering, Jobs, OwnOutput, NotYet
<1>3. CASE OtherTypes
  <2>1. PICK text \in {"", "secret", "cmd"} :
           typed' = Append(typed, Tok(IF part THEN "garbled" ELSE text, 0))
    BY <1>3, Zenon DEF OtherTypes
  <2>2. part' = FALSE /\ wire' = wire
    BY <1>3, Zenon DEF OtherTypes
  <2>3. (IF part THEN "garbled" ELSE text) \in Texts
    BY <2>1 DEF Texts
  <2>4. \A t \in Texts : Tok(t, 0) \in Toks
    BY DEF Tok, Toks
  <2>5. \A u \in Seq(Toks) : \A x \in Toks : Append(u, x) \in Seq(Toks)
    BY AppendProperties, Zenon
  <2>6. typed' \in Seq(Toks)
    BY <1>0, <2>1, <2>3, <2>4, <2>5, Zenon DEF Lines
  <2>7. Lines' /\ Flags'
    BY <1>0, <1>1, <2>2, <2>6, Zenon DEF Lines, Flags
  <2> QED BY <1>1, <1>2, <2>7, Zenon DEF SerialInv, SerialTypes
<1>4. CASE OtherTakes
  <2>1. Flushed /\ UNCHANGED <<typed, part>>
    BY <1>4, Zenon DEF OtherTakes
  <2>2. wire' \in Seq(Toks) /\ \A i \in DOMAIN wire' : wire'[i].text # "csi"
    BY <1>0, <2>1, FlushedType, Zenon
  <2>3. Lines' /\ Flags'
    BY <1>0, <1>1, <2>1, <2>2, Zenon DEF Lines, Flags
  <2> QED BY <1>1, <1>2, <2>3, Zenon DEF SerialInv, SerialTypes
<1> QED BY <1>3, <1>4

LEMMA StillStep ==
  ASSUME SerialInv, UNCHANGED serialVars
  PROVE  SerialInv'
<1>1. UNCHANGED <<step, dev, todo, asked, n, fd, buf, results, login_status, answer, ncalls,
                  at, typed, part, wire, sent, quiet>>
  BY Zenon DEF serialVars, toolVars, deviceVars
<1>2. Answering' /\ Jobs' /\ Lines' /\ Flags' /\ NotYet' /\ OwnOutput'
  <2>1. Answering' /\ Flags'
    BY <1>1, Zenon DEF SerialInv, SerialTypes, Answering, Flags
  <2>2. Jobs' /\ OwnOutput'
    BY <1>1, Zenon DEF SerialInv, SerialTypes, Jobs, OwnOutput
  <2>3. Lines'
    BY <1>1, Zenon DEF SerialInv, SerialTypes, Lines
  <2>4. NotYet'
    BY <1>1, Zenon DEF SerialInv, NotYet
  <2> QED BY <2>1, <2>2, <2>3, <2>4, Zenon
<1>3. Said' = Said /\ SaidAt' = SaidAt
  BY <1>1, Zenon DEF Said, SaidAt
<1>4. quiet' => InTune'
  BY <1>1, <1>3, Zenon DEF SerialInv, InTune, Rests
<1> QED BY <1>2, <1>4, Zenon DEF SerialInv, SerialTypes

LEMMA SerialStep ==
  ASSUME PlainDevice, SerialInv, [Next]_toolsVars
  PROVE  SerialInv'
<1>1. SerialNext \/ UNCHANGED serialVars
  BY Zenon DEF Next, toolsVars
<1>2. CASE OpenFails \/ LoginDeadline
  <2>1. PICK status \in {"error", "login_failed"} :
           GiveUp(status) /\ UNCHANGED <<deviceVars, sent, quiet>>
    BY <1>2, Zenon DEF OpenFails, LoginDeadline
  <2> QED BY <2>1, GivesUp, Zenon
<1>3. CASE SerialDone
  BY <1>3, StillStep, Zenon DEF SerialDone
<1> QED BY <1>1, <1>2, <1>3, CallBegins, OpenStep, SaysStep, RunStep, FailStep, ReadStep,
           TakesStep, BabbleStep, OtherStep, StillStep, Zenon DEF SerialNext, SerialCall

LEMMA SerialBegins ==
  ASSUME PlainDevice, SerialInit
  PROVE  SerialInv
<1>1. SerialTypes
  BY SerialStart, Zenon
<1>2. step = "idle" /\ DOMAIN results = {}
  BY DEF SerialInit
<1>3. NotYet /\ OwnOutput
  BY <1>2 DEF NotYet, OwnOutput
<1>4. part = FALSE /\ (quiet => typed = <<>>)
  BY Zenon DEF SerialInit
<1>5. quiet => InTune
  BY <1>2, <1>4 DEF InTune, AtPlace
<1> QED BY <1>1, <1>3, <1>5, Zenon DEF SerialInv

\* What other threads do on the line is bounded.
LEMMA OthersBounded == Spec => [](others \in 0 .. MaxOthers)
<1>1. Init => others \in 0 .. MaxOthers
  BY SerialBounds DEF Init, SerialInit
<1>2. others \in 0 .. MaxOthers /\ [Next]_toolsVars => (others \in 0 .. MaxOthers)'
  <2> SUFFICES ASSUME others \in 0 .. MaxOthers, [Next]_toolsVars
               PROVE  others' \in 0 .. MaxOthers
    OBVIOUS
  <2>1. others' = others \/ (others < MaxOthers /\ others' = others + 1)
    <3>1. CASE SerialCall
      BY <3>1, Zenon DEF SerialCall, serial_execute, OpenFails, serial_open, LoginSays,
           LoginDeadline, RunSends, RunSendFails, RunDeadline, read_until, deviceVars
    <3>2. CASE DeviceTakes \/ DeviceBabbles \/ SerialDone
      BY <3>2, Zenon DEF DeviceTakes, DeviceBabbles, SerialDone, serialVars, deviceVars
    <3>3. CASE OtherTypes \/ OtherTakes
      BY <3>3, Zenon DEF OtherTypes, OtherTakes, Other
    <3>4. CASE UNCHANGED serialVars
      BY <3>4, Zenon DEF serialVars, deviceVars
    <3> QED BY <3>1, <3>2, <3>3, <3>4, Zenon DEF Next, SerialNext, toolsVars
  <2> QED BY <2>1, SerialBounds
<1> QED BY <1>1, <1>2, PTL DEF Spec

\* Type correctness of serial_exec, above all that the buffer of a read stays
\* within its cap and that there is a command left while a call goes on, for a
\* device in the setting of PlainDevice.
THEOREM SerialTypeCorrect == PlainDevice => (Spec => []SerialTypeOK)
<1> SUFFICES ASSUME PlainDevice PROVE Spec => []SerialTypeOK
  OBVIOUS
<1>1. Init => SerialInv
  BY SerialBegins, Zenon DEF Init
<1>2. SerialInv /\ [Next]_toolsVars => SerialInv'
  BY SerialStep, Zenon
<1>3. SerialInv /\ others \in 0 .. MaxOthers => SerialTypeOK
  <2> SUFFICES ASSUME SerialInv, others \in 0 .. MaxOthers PROVE SerialTypeOK
    OBVIOUS
  <2>1. Answering /\ Jobs /\ Lines /\ Flags
    BY Zenon DEF SerialInv, SerialTypes
  <2>2. n \in 0 .. Len(todo)
    <3>1. todo \in Seq({"cmd", ""}) /\ results \in Seq(Results) /\ n = Len(results) /\ n <= Len(todo)
      BY <2>1, Zenon DEF Jobs
    <3>2. n \in Nat /\ Len(todo) \in Nat
      BY <3>1, LenNat, Zenon
    <3>3. \A x, y \in Nat : x <= y => x \in 0 .. y
      OBVIOUS
    <3> QED BY <3>1, <3>2, <3>3, Zenon
  <2>3. \A i \in DOMAIN results : results[i].status \in {"ok", "timeout", "error"}
    <3>1. \A s \in Seq(Results) : \A i \in DOMAIN s : s[i] \in Results
      OBVIOUS
    <3>2. \A x \in Results : x.status \in {"ok", "timeout", "error"}
      BY DEF Results
    <3> QED BY <2>1, <3>1, <3>2, Zenon DEF Jobs
  <2>4. step \in SerialSteps /\ at \in Sites /\ DOMAIN dev = DOMAIN Default
    BY <2>1, Zenon DEF Answering, Lines, PlainProfile
  <2>5. {part, quiet} \subseteq BOOLEAN
    BY <2>1, Zenon DEF Flags
  <2> QED BY <2>1, <2>2, <2>3, <2>4, <2>5, Zenon
             DEF SerialTypeOK, Answering, Jobs, Lines, SerialSteps, Sites
<1> QED BY <1>1, <1>2, <1>3, OthersBounded, PTL DEF Spec

\* However the answers of the device are cut into reads and however late they
\* come, a command reported "ok" in a call that began with a quiet device, and
\* that no failure, no other call and no prompt within an output has disturbed,
\* is reported with its own output, all of it and no other.
THEOREM OutputAlwaysOwn == PlainDevice => (Spec => []OwnOutput)
<1> SUFFICES ASSUME PlainDevice PROVE Spec => []OwnOutput
  OBVIOUS
<1>1. Init => SerialInv
  BY SerialBegins, Zenon DEF Init
<1>2. SerialInv /\ [Next]_toolsVars => SerialInv'
  BY SerialStep, Zenon
<1>3. SerialInv => OwnOutput
  BY Zenon DEF SerialInv
<1> QED BY <1>1, <1>2, <1>3, PTL DEF Spec

\* In such a call the password is only ever read by the password prompt of the
\* device, and a command only by its shell.
THEOREM AlwaysInStep == PlainDevice => (Spec => InStep)
<1> SUFFICES ASSUME PlainDevice PROVE Spec => InStep
  OBVIOUS
<1>1. Init => SerialInv
  BY SerialBegins, Zenon DEF Init
<1>2. SerialInv /\ [Next]_toolsVars => SerialInv'
  BY SerialStep, Zenon
<1>3. SerialInv => ((quiet /\ typed # <<>>) => at = Place(Head(typed)))
  <2> SUFFICES ASSUME SerialInv, quiet, typed # <<>> PROVE at = Place(Head(typed))
    OBVIOUS
  <2>1. AtPlace(typed, at)
    BY TunePlaces, Zenon DEF SerialInv
  <2>2. PICK text \in Texts, id \in Nat :
          /\ typed = <<Tok(text, id)>>
          /\ text = "secret" => at = "password"
          /\ text = "cmd" => at = "shell"
    BY <2>1, Zenon DEF AtPlace
  <2>3. Head(typed) = Tok(text, id)
    BY <2>2
  <2>4. Head(typed).text = text
    BY <2>3 DEF Tok
  <2> QED BY <2>2, <2>4 DEF Place
<1>4. SerialInv => [(quiet /\ typed # <<>> /\ typed' = Tail(typed)) =>
                       at = Place(Head(typed))]_serialVars
  BY <1>3, Zenon
<1> QED BY <1>1, <1>2, <1>4, PTL DEF Spec, InStep
=============================================================================
