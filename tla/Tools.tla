-------------------------------- MODULE Tools --------------------------------
(***************************************************************************)
(* The tools a turn runs, each with the world it acts on: a serial device  *)
(* (Serial), a child process and the terminal (Shell), the bridge and the  *)
(* threads that share its socket (WhatsApp).  The loop of agent_run makes  *)
(* one call at a time, but sub-agents run that loop in threads of their    *)
(* own: what two calls of one tool share (the line of a device, the        *)
(* terminal, the socket) is in the module of the tool.  No two tools have  *)
(* state in common, so the calls of each are explored on their own: `tool` *)
(* is the tool being exercised.                                            *)
(***************************************************************************)
EXTENDS Serial, Shell, WhatsApp

VARIABLE tool

toolsVars == <<tool, serialVars, shellVars, waVars>>

Init ==
    /\ tool \in {"serial_exec", "shell_exec", "send_whatsapp"}
    /\ SerialInit /\ ShellInit /\ WaInit
    /\ tool # "serial_exec" => at = "login" /\ typed = <<>>

Next ==
    /\ UNCHANGED tool
    /\ \/ tool = "serial_exec" /\ SerialNext /\ UNCHANGED <<shellVars, waVars>>
       \/ tool = "shell_exec" /\ ShellNext /\ UNCHANGED <<serialVars, waVars>>
       \/ tool = "send_whatsapp" /\ WaNext /\ UNCHANGED <<serialVars, shellVars>>

Spec == Init /\ [][Next]_toolsVars

FairSpec == Spec /\ SerialFairness /\ ShellFairness

TypeOK == SerialTypeOK /\ ShellTypeOK /\ WaTypeOK

\* Each call of serial_exec and of shell_exec comes back, so that the loop of
\* the agent goes on, unless it is for good in a write to the device or in the
\* drain of a command that goes on writing (CallReturns, ShellReturns): every
\* other wait ends by its deadline.
ToolCallsReturn == CallReturns /\ ShellReturns
=============================================================================
