------------------------------ MODULE WhatsApp ------------------------------
(***************************************************************************)
(* The WhatsApp channel (channels/whatsapp/whatsapp_channel.c) and its tool*)
(* (tools/whatsapp/whatsapp_tool.c).  Three threads use the socket to the  *)
(* bridge: "recv" connects, authenticates and reads, "dispatch" (the       *)
(* dispatcher) sends the replies, "tool" (the thread of a turn) sends what *)
(* the model asks for.  The bridge, the network and the descriptors of the *)
(* rest of the process are external.                                       *)
(*                                                                         *)
(* Descriptor numbers are reused: `desc` is what the number in ch->sock   *)
(* stands for now.  A frame travels in two writes, the JSON text and its   *)
(* newline; an inbound frame arrives in pieces.                            *)
(***************************************************************************)
EXTENDS Integers, Sequences, FiniteSets, SequencesExt

CONSTANTS
    Messages,    \* inbound messages: records [id, allowed, pieces]
    LINE_MAX,    \* pieces the line buffer holds
    HasToken,       \* bridge_token is configured
    Http,        \* the gateway runs, so SIGPIPE is ignored
    MaxConns,    \* bound: connections made
    MaxSends,    \* bound: frames each sender sends
    Cuts         \* the connection may break in the middle of a frame

ASSUME WhatsAppBounds == {LINE_MAX, MaxConns, MaxSends} \subseteq Nat

Senders == {"dispatch", "tool"}
Threads == Senders \cup {"recv"}

VARIABLES
    running, rpc,           \* recv_thread
    sock, desc, peer, conns,  \* ch->sock # -1, its descriptor, the other end
    line, published,        \* the line buffer, what went to the bus
    spc, lock, sends, told, \* send_line of each thread
    stream,                 \* what this connection has carried to the bridge
    inq, said, whole,       \* what the bridge has sent on it
    destroy, alive

recvVars == <<running, rpc, line, published>>
sockVars == <<sock, desc, peer, conns>>
sendVars == <<spc, lock, sends, told, stream>>
bridgeVars == <<inq, said, whole>>
waVars == <<recvVars, sockVars, sendVars, bridgeVars, destroy, alive>>

WaInit ==
    /\ running = TRUE /\ rpc = "loop" /\ line = <<>> /\ published = <<>>
    /\ sock = FALSE /\ desc = "closed" /\ peer = FALSE /\ conns = 0
    /\ spc = [t \in Threads |-> "idle"] /\ lock = "free"
    /\ sends = [s \in Senders |-> 0] /\ told = [s \in Senders |-> "none"]
    /\ stream = <<>> /\ inq = <<>> /\ said = {} /\ whole = {}
    /\ destroy = "no" /\ alive = TRUE
-----------------------------------------------------------------------------
(* send_line *)

\* Where a thread goes when send_line is over.
Over(t, ok) ==
    /\ spc' = [spc EXCEPT ![t] = "idle"]
    /\ told' = IF t \in Senders THEN [told EXCEPT ![t] = IF ok THEN "sent" ELSE "failed"]
               ELSE told
    /\ rpc' = IF t = "recv" THEN "read" ELSE rpc

\* whatsapp_dispatch_send drops the reply of a channel that is not connected;
\* the tool first asks the allowlist (the [email] one) about the recipient.
SendStart(s) ==
    /\ spc[s] = "idle" /\ sends[s] < MaxSends
    /\ destroy = "no" \/ s = "tool"
    /\ sends' = [sends EXCEPT ![s] = @ + 1]
    /\ \/ /\ sock \/ s = "tool"
          /\ spc' = [spc EXCEPT ![s] = "check"] /\ UNCHANGED told
       \/ /\ ~sock \/ s = "tool"
          /\ told' = [told EXCEPT ![s] = "failed"] /\ UNCHANGED spc
    /\ UNCHANGED <<recvVars, sockVars, lock, stream, bridgeVars, destroy, alive>>

\* The socket is tested before the lock is taken, and read again after.
SendCheck(t) ==
    /\ spc[t] = "check"
    /\ IF sock
       THEN spc' = [spc EXCEPT ![t] = "lock"] /\ UNCHANGED <<told, rpc>>
       ELSE Over(t, FALSE)
    /\ UNCHANGED <<running, line, published, sockVars, lock, sends, stream,
                   bridgeVars, destroy, alive>>

\* Mutant of SendLock: only the senders of messages exclude each other.
SendLock_senders(t) ==
    /\ spc[t] = "lock" /\ (lock = "free" \/ t = "recv")
    /\ lock' = t /\ spc' = [spc EXCEPT ![t] = "json"]
    /\ UNCHANGED <<recvVars, sockVars, sends, told, stream, bridgeVars, destroy, alive>>

SendLock(t) ==
    /\ spc[t] = "lock" /\ lock = "free"
    /\ lock' = t /\ spc' = [spc EXCEPT ![t] = "json"]
    /\ UNCHANGED <<recvVars, sockVars, sends, told, stream, bridgeVars, destroy, alive>>

\* write(ch->sock, ...): the bridge gets it, or it is lost in a connection
\* whose other end is gone, or it fails; a second write to a gone end raises
\* SIGPIPE, which only the gateway's start-up has ignored.
Write(t, kind) ==
    LET after == IF kind = "json" THEN "nl" ELSE "unlock"
        failed == "unlock_failed"
    IN \/ /\ sock /\ desc = "conn" /\ peer
          /\ stream' = Append(stream, [kind |-> kind, by |-> t])
          /\ spc' = [spc EXCEPT ![t] = after] /\ UNCHANGED <<alive, desc>>
       \/ /\ sock /\ desc = "conn" /\ ~peer
          /\ \/ spc' = [spc EXCEPT ![t] = after] /\ UNCHANGED alive
             \/ spc' = [spc EXCEPT ![t] = failed] /\ alive' = Http
          /\ UNCHANGED <<stream, desc>>
       \/ /\ sock /\ desc \in {"other", "spoilt"}
          /\ desc' = "spoilt"
          /\ spc' = [spc EXCEPT ![t] = after] /\ UNCHANGED <<stream, alive>>
       \/ /\ ~sock \/ desc = "closed"
          /\ spc' = [spc EXCEPT ![t] = failed] /\ UNCHANGED <<stream, alive, desc>>

SendJson(t) ==
    /\ spc[t] = "json" /\ Write(t, "json")
    /\ UNCHANGED <<recvVars, sock, peer, conns, lock, sends, told, bridgeVars, destroy>>

SendNewline(t) ==
    /\ spc[t] = "nl" /\ Write(t, "nl")
    /\ UNCHANGED <<recvVars, sock, peer, conns, lock, sends, told, bridgeVars, destroy>>

SendUnlock(t) ==
    /\ spc[t] \in {"unlock", "unlock_failed"}
    /\ lock' = "free"
    /\ Over(t, spc[t] = "unlock")
    /\ UNCHANGED <<running, line, published, sockVars, sends, stream, bridgeVars,
                   destroy, alive>>
-----------------------------------------------------------------------------
(* recv_thread *)

\* The connection is made, or not: then the loop tries again later.  The line
\* buffer keeps what the last connection left in it.
RecvConnect ==
    /\ rpc = "loop" /\ running /\ ~sock /\ conns < MaxConns
    /\ rpc' = "connect"
    /\ UNCHANGED <<running, line, published, sockVars, sendVars, bridgeVars, destroy,
                   alive>>

tcp_connect ==
    /\ rpc = "connect"
    /\ \/ /\ sock' = TRUE /\ desc' = "conn" /\ peer' = TRUE /\ conns' = conns + 1
          /\ stream' = <<>> /\ inq' = <<>> /\ whole' = {}
          /\ IF HasToken
             THEN rpc' = "auth" /\ spc' = [spc EXCEPT !["recv"] = "check"]
             ELSE rpc' = "read" /\ UNCHANGED spc
       \/ rpc' = "loop" /\ UNCHANGED <<sockVars, stream, inq, whole, spc>>
    /\ UNCHANGED <<running, line, published, lock, sends, told, said, destroy, alive>>

RecvLoop ==
    /\ rpc = "loop" /\ (sock \/ ~running)
    /\ IF running THEN rpc' = "read" /\ UNCHANGED <<sock, desc>>
       ELSE /\ rpc' = "done" /\ sock' = FALSE
            /\ desc' = IF sock THEN "closed" ELSE desc
    /\ UNCHANGED <<running, line, published, peer, conns, sendVars, bridgeVars, destroy,
                   alive>>

\* A line is a message if it is the whole text of one; messages that are not
\* allowed, and text that is not JSON, are dropped.
Parsed(l) == {m \in Messages : l = [i \in 1 .. m.pieces |-> <<m.id, i>>] /\ m.allowed}

handle_message(pub, l) == pub \o SetToSeq({m.id : m \in Parsed(l)})

\* One byte group of the chunk: a newline ends the line, the rest is kept while
\* it fits.
Take(acc, piece) ==
    CASE piece[2] = 0 -> [line |-> <<>>, pub |-> handle_message(acc.pub, acc.line)]
      [] piece[2] > 0 /\ Len(acc.line) < LINE_MAX ->
            [acc EXCEPT !.line = Append(@, piece)]
      [] OTHER -> acc

RecvRead ==
    /\ rpc = "read" /\ sock /\ desc = "conn"
    /\ \E k \in 1 .. Len(inq) :
        LET got == FoldLeft(Take, [line |-> line, pub |-> published],
                            SubSeq(inq, 1, k))
        IN /\ line' = got.line /\ published' = got.pub
           /\ inq' = SubSeq(inq, k + 1, Len(inq))
    /\ rpc' = "loop"
    /\ UNCHANGED <<running, sockVars, sendVars, said, whole, destroy, alive>>

\* read returns 0 or an error: the descriptor is closed, and in a second step
\* forgotten.
RecvEnds ==
    /\ rpc = "read" /\ (~sock \/ desc # "conn" \/ (~peer /\ inq = <<>>))
    /\ rpc' = "forget" /\ desc' = IF sock THEN "closed" ELSE desc
    /\ UNCHANGED <<running, line, published, sock, peer, conns, sendVars, bridgeVars,
                   destroy, alive>>

RecvForgets ==
    /\ rpc = "forget" /\ rpc' = "loop" /\ sock' = FALSE
    /\ UNCHANGED <<running, line, published, desc, peer, conns, sendVars, bridgeVars,
                   destroy, alive>>
-----------------------------------------------------------------------------
(* Shutdown: the worker and the dispatcher have ended, sub-agents not yet *)

DestroyStart ==
    /\ destroy = "no" /\ spc["dispatch"] = "idle"
    /\ destroy' = "joining" /\ running' = FALSE
    /\ sock' = FALSE
    /\ desc' = IF sock THEN "closed" ELSE desc
    /\ UNCHANGED <<rpc, line, published, peer, conns, sendVars, bridgeVars, alive>>

whatsapp_channel_destroy ==
    /\ destroy = "joining" /\ rpc = "done"
    /\ destroy' = "done"
    /\ UNCHANGED <<recvVars, sockVars, sendVars, bridgeVars, alive>>
-----------------------------------------------------------------------------
(* External: the bridge, and the other descriptors of the process *)

Frame(m) == [i \in 1 .. m.pieces |-> <<m.id, i>>] \o <<<<m.id, 0>>>>

BridgeSends ==
    /\ desc = "conn" /\ peer
    /\ \E m \in Messages :
        /\ m.id \notin said
        /\ said' = said \cup {m.id}
        /\ \/ inq' = inq \o Frame(m) /\ whole' = whole \cup {m.id} /\ UNCHANGED peer
           \/ /\ Cuts /\ peer' = FALSE /\ UNCHANGED whole
              /\ inq' = inq \o SubSeq(Frame(m), 1, 1)
    /\ UNCHANGED <<recvVars, sock, desc, conns, sendVars, destroy, alive>>

BridgeCloses ==
    /\ desc = "conn" /\ peer /\ peer' = FALSE
    /\ UNCHANGED <<recvVars, sock, desc, conns, sendVars, bridgeVars, destroy, alive>>

\* Another thread opens a file and gets the number that was closed.
OtherOpens ==
    /\ desc = "closed" /\ sock /\ desc' = "other"
    /\ UNCHANGED <<recvVars, sock, peer, conns, sendVars, bridgeVars, destroy, alive>>

Recv == RecvConnect \/ tcp_connect \/ RecvLoop \/ RecvRead \/ RecvEnds \/ RecvForgets
Sends == \/ \E s \in Senders : SendStart(s)
         \/ \E t \in Threads : \/ SendCheck(t) \/ SendLock(t) \/ SendJson(t)
                               \/ SendNewline(t) \/ SendUnlock(t)

WaNext == alive /\ (\/ Recv \/ Sends \/ DestroyStart \/ whatsapp_channel_destroy
                    \/ BridgeSends \/ BridgeCloses \/ OtherOpens)

WaSpec == WaInit /\ [][WaNext]_waVars
-----------------------------------------------------------------------------
WaTypeOK ==
    /\ {running, sock, peer, alive} \subseteq BOOLEAN
    /\ rpc \in {"loop", "connect", "auth", "read", "forget", "done"}
    /\ desc \in {"closed", "conn", "other", "spoilt"} /\ conns \in 0 .. MaxConns
    /\ spc \in [Threads -> {"idle", "check", "lock", "json", "nl", "unlock",
                            "unlock_failed"}]
    /\ lock \in Threads \cup {"free"} /\ sends \in [Senders -> 0 .. MaxSends]
    /\ Len(line) <= LINE_MAX /\ destroy \in {"no", "joining", "done"}

\* "newline-delimited JSON frames": on a connection no frame begins in the middle
\* of another one, with the dispatcher, a tool call and the authentication of a
\* reconnect all writing: send_line keeps its lock over both writes.
FramesWhole ==
    \A i \in 2 .. Len(stream) : stream[i].kind = "json" => stream[i - 1].kind = "nl"

\* With a token the first frame of a connection is the authentication.  Refuted:
\* the socket is published before send_line(auth) runs.
AuthFirst == (HasToken /\ stream # <<>>) => stream[1].by = "recv"

\* A frame that a connection has delivered whole is not lost.  Refuted: the half
\* frame left by a broken connection is put before the first frame of the next.
WholeFramesHandled ==
    (rpc = "loop" /\ inq = <<>> /\ sock) =>
        \A m \in Messages : m.id \in whole /\ m.allowed /\ m.pieces <= LINE_MAX =>
            m.id \in Range(published)

\* A frame never goes to another file of the process.  Refuted: the descriptor
\* is closed before the field says so, and senders do not share a lock with it.
NoStrayWrite == desc # "spoilt"

\* The channel is not freed while a thread is sending.  Refuted: cleanup destroys
\* the pool of sub-agents later than the channel their tool uses.
FreedWhenUnused == destroy = "done" => \A t \in Threads : spc[t] = "idle"

\* A lost bridge does not end the process.  Refuted with --no-http.
ProcessSurvives == alive

WaFairSpec == WaSpec /\ WF_waVars(Recv) /\ WF_waVars(whatsapp_channel_destroy)
                /\ \A t \in Threads : WF_waVars(SendCheck(t) \/ SendLock(t) \/ SendJson(t)
                                                \/ SendNewline(t) \/ SendUnlock(t))

\* Shutdown gets past the channel.  Refuted: a connection made after `running`
\* was cleared is read until the bridge ends it.
DestroyReturns == (destroy = "joining") ~> (destroy = "done")
=============================================================================
