------------------------------- MODULE Agent -------------------------------
(***************************************************************************)
(* One conversation: the history of an agent_t and the tool loop           *)
(* agent_chat() that extends it (src/src/agent/agent.c).                   *)
(*                                                                         *)
(* The history is agent->messages[0..message_count-1] as a sequence.  What *)
(* a message says is left out; what the loop and the compaction tell apart *)
(* is kept: its role and how many tool calls it requests.  Two ghost       *)
(* fields, which no guard reads, say where it comes from: the turn that    *)
(* added it and the iteration of the loop.  <<turn, iter>> is what the     *)
(* tool_call_id strings encode: which results answer which request.        *)
(***************************************************************************)
EXTENDS Integers, Sequences, FiniteSetsExt

CONSTANTS
  MAX_MESSAGES,   \* size of the array agent->messages
  max_messages,   \* agent->max_messages, as read from the configuration
  max_iterations, \* agent->max_iterations
  MaxCalls,       \* bound: tool calls in one provider response
  MaxTurns        \* bound: turns in one behaviour

ASSUME AgentAssumption ==
  /\ MAX_MESSAGES \in Nat /\ MAX_MESSAGES >= 2
  /\ max_messages \in Int
  /\ max_iterations \in Nat
  /\ MaxCalls \in Nat
  /\ MaxTurns \in Nat

VARIABLES
  messages,        \* the history
  pc,              \* "idle", "loop" (top of the loop), "provider" or "tools"
  iter,            \* the loop counter
  pre_turn_count,  \* message_count when the turn began
  calls,           \* tool calls of the current response still to execute
  turn,            \* ghost: turns begun so far
  reply            \* what the last call of agent_chat returned

vars == <<messages, pc, iter, pre_turn_count, calls, turn, reply>>

Roles == {"system", "user", "assistant", "tool"}
Replies == {"none", "empty", "error", "final", "max_iterations"}
Message == [role: Roles, turn: 0..MaxTurns, iter: 0..max_iterations,
            calls: 0..MaxCalls]

----------------------------------------------------------------------------
(* The history: compaction and agent_add_message *)

HasToolCalls(m) == m.calls > 0

\* A configured value outside 1..MAX_MESSAGES means the hard limit.
Limit == IF max_messages > 0 /\ max_messages <= MAX_MESSAGES
         THEN max_messages ELSE MAX_MESSAGES

\* Mutant of Keep: the system message is not spared.
Keep_none == 0

\* Only the system message survives every compaction.
Keep == 1

RemoveCount == IF Limit \div 4 < 1 THEN 1 ELSE Limit \div 4

CutStart(ms) ==
  IF Keep + RemoveCount > Len(ms) THEN Len(ms) ELSE Keep + RemoveCount

\* Where the walk back over messages with tool calls stops.
CutEnd(ms) ==
  LET stops == {c \in (Keep + 1)..CutStart(ms) :
                  c = Keep + 1 \/ ~HasToolCalls(ms[c])}
  IN  IF stops = {} THEN CutStart(ms) ELSE Max(stops)

agent_compact_history(ms) ==
  IF CutEnd(ms) <= Keep
  THEN ms
  ELSE SubSeq(ms, 1, Keep) \o SubSeq(ms, CutEnd(ms) + 1, Len(ms))

\* Mutant of agent_add_message: the limit is tested one message too late.
agent_add_message_late(ms, m) ==
  Append(IF Len(ms) > Limit THEN agent_compact_history(ms) ELSE ms, m)

agent_add_message(ms, m) ==
  Append(IF Len(ms) >= Limit THEN agent_compact_history(ms) ELSE ms, m)

\* Mutant of RollbackTo: one message too many is popped.
RollbackTo_one_more(ms, n) == IF Len(ms) > n THEN SubSeq(ms, 1, n - 1) ELSE ms

\* Popping until at most n messages are left (both rollback loops).
RollbackTo(ms, n) == IF Len(ms) > n THEN SubSeq(ms, 1, n) ELSE ms

Msg(role, t, i, n) == [role |-> role, turn |-> t, iter |-> i, calls |-> n]

----------------------------------------------------------------------------
(* agent_chat *)

\* The mandatory prefix of a turn: system prompt first, then the count to
\* roll back to, then the user's message.
WithSystem(ms) ==
  IF Len(ms) = 0 THEN agent_add_message(ms, Msg("system", 0, 0, 0)) ELSE ms

BeginTurn ==
  /\ pc = "idle"
  /\ turn < MaxTurns
  /\ turn' = turn + 1
  /\ pre_turn_count' = Len(WithSystem(messages))
  /\ messages' = agent_add_message(WithSystem(messages),
                                   Msg("user", turn + 1, 0, 0))
  /\ iter' = 0
  /\ pc' = "loop"
  /\ UNCHANGED <<calls, reply>>

\* An empty message is refused before anything is recorded.
EmptyMessage ==
  /\ pc = "idle"
  /\ reply' = "empty"
  /\ UNCHANGED <<messages, pc, iter, pre_turn_count, calls, turn>>

\* The request is built from the whole history and sent.
CallProvider ==
  /\ pc = "loop"
  /\ iter < max_iterations
  /\ pc' = "provider"
  /\ UNCHANGED <<messages, iter, pre_turn_count, calls, turn, reply>>

EndTurn(answer) ==
  /\ pc' = "idle"
  /\ reply' = answer
  /\ UNCHANGED <<iter, pre_turn_count, calls, turn>>

ProviderError ==
  /\ pc = "provider"
  /\ messages' = RollbackTo(messages, pre_turn_count)
  /\ EndTurn("error")

ProviderToolCalls(n) ==
  /\ pc = "provider"
  /\ messages' = agent_add_message(messages, Msg("assistant", turn, iter, n))
  /\ calls' = n
  /\ pc' = "tools"
  /\ UNCHANGED <<iter, pre_turn_count, turn, reply>>

\* Mutant of ExecuteTool: an unknown tool gets no result message.
ExecuteTool_skip_unknown ==
  /\ pc = "tools"
  /\ calls > 0
  /\ messages' \in {messages,
                    agent_add_message(messages, Msg("tool", turn, iter, 0))}
  /\ calls' = calls - 1
  /\ UNCHANGED <<pc, iter, pre_turn_count, turn, reply>>

\* One pass of the loop over the calls: the result of a known tool, or the
\* "Unknown tool" error, is appended alike.
ExecuteTool ==
  /\ pc = "tools"
  /\ calls > 0
  /\ messages' = agent_add_message(messages, Msg("tool", turn, iter, 0))
  /\ calls' = calls - 1
  /\ UNCHANGED <<pc, iter, pre_turn_count, turn, reply>>

\* Mutant of NextIteration: iterations with tool calls are not counted.
NextIteration_uncounted ==
  /\ pc = "tools"
  /\ calls = 0
  /\ pc' = "loop"
  /\ UNCHANGED <<messages, iter, pre_turn_count, calls, turn, reply>>

\* All calls answered: next iteration.
NextIteration ==
  /\ pc = "tools"
  /\ calls = 0
  /\ iter' = iter + 1
  /\ pc' = "loop"
  /\ UNCHANGED <<messages, pre_turn_count, calls, turn, reply>>

ProviderFinal ==
  /\ pc = "provider"
  /\ messages' = agent_add_message(messages, Msg("assistant", turn, iter, 0))
  /\ EndTurn("final")

MaxIterationsReached ==
  /\ pc = "loop"
  /\ iter >= max_iterations
  /\ messages' = RollbackTo(messages, pre_turn_count)
  /\ EndTurn("max_iterations")

\* agent_new_conversation, called between turns.
NewConversation ==
  /\ pc = "idle"
  /\ messages' = <<>>
  /\ UNCHANGED <<pc, iter, pre_turn_count, calls, turn, reply>>

----------------------------------------------------------------------------

Init ==
  /\ messages = <<>>
  /\ pc = "idle"
  /\ iter = 0
  /\ pre_turn_count = 0
  /\ calls = 0
  /\ turn = 0
  /\ reply = "none"

ChatStep ==
  \/ CallProvider
  \/ ProviderError
  \/ \E n \in 1..MaxCalls : ProviderToolCalls(n)
  \/ ExecuteTool
  \/ NextIteration
  \/ ProviderFinal
  \/ MaxIterationsReached

Next == BeginTurn \/ EmptyMessage \/ NewConversation \/ ChatStep

Spec == Init /\ [][Next]_vars

\* A provider call ends (HTTP timeout) and a tool returns, so a turn that
\* can take a step takes it; users need not write.
FairSpec == Spec /\ WF_vars(ChatStep)

----------------------------------------------------------------------------
(* Properties *)

TypeOK ==
  /\ messages \in Seq(Message)
  /\ pc \in {"idle", "loop", "provider", "tools"}
  /\ iter \in 0..max_iterations
  /\ pre_turn_count \in Nat
  /\ calls \in 0..MaxCalls
  /\ turn \in 0..MaxTurns
  /\ reply \in Replies

\* agent_add_message writes messages[message_count++] without a bound check
\* of its own: the compaction before it must always make room, even when
\* every candidate carries tool calls.  The configured limit is respected
\* too, except that a limit of 1 still holds the system message and one more.
HistoryFits ==
  /\ Len(messages) <= MAX_MESSAGES
  /\ Len(messages) <= (IF Limit < 2 THEN 2 ELSE Limit)

\* However often the history is compacted or rolled back, what the provider
\* receives starts with the system prompt, and holds it once.
SystemFirst ==
  /\ messages # <<>> => messages[1].role = "system"
  /\ \A i \in DOMAIN messages : messages[i].role = "system" => i = 1

\* When the provider is called, each request for tools that this turn made
\* and the history still holds is directly followed by all its results:
\* providers refuse a conversation where a call has no answer.
RequestsOfTurnAnswered ==
  pc = "provider" =>
    \A i \in DOMAIN messages :
      messages[i].turn = turn /\ HasToolCalls(messages[i]) =>
        \A j \in (i + 1)..(i + messages[i].calls) :
          /\ j \in DOMAIN messages
          /\ messages[j] = Msg("tool", turn, messages[i].iter, 0)

\* A failed turn may leave the history shorter only by its own messages:
\* although pre_turn_count is not adjusted when the history is compacted in
\* the middle of the turn, rolling back never reaches an earlier turn.
FailedTurnKeepsEarlier ==
  pc # "idle" /\ pc' = "idle" /\ reply' # "final" =>
    \A i \in DOMAIN messages : messages[i].turn < turn =>
      i \in DOMAIN messages' /\ messages'[i] = messages[i]

RollbackKeepsEarlierTurns == [][FailedTurnKeepsEarlier]_vars

\* Every turn ends: the loop is bounded by max_iterations whatever the
\* provider keeps asking for.
TurnEnds == pc # "idle" ~> pc = "idle"

(* Claims of the comments that the code does not keep *)

\* agent.c:13, "History compaction never splits a tool_calls/tool-result
\* pair": every tool result in the history follows the request it answers.
CompactionKeepsPairs ==
  \A j \in DOMAIN messages : messages[j].role = "tool" =>
    \E i \in 1..(j - 1) :
      /\ HasToolCalls(messages[i])
      /\ messages[i].turn = messages[j].turn
      /\ messages[i].iter = messages[j].iter

\* agent.c:469, "roll back ALL messages added this turn so the next user
\* input doesn't see orphaned unanswered assistant/tool messages": between
\* turns each request in the history is followed by all its results.
NoUnansweredRequests ==
  pc = "idle" =>
    \A i \in DOMAIN messages : HasToolCalls(messages[i]) =>
      \A j \in (i + 1)..(i + messages[i].calls) :
        j \in DOMAIN messages /\ messages[j].role = "tool"

\* agent.c:5, "Build messages JSON (system + history + user message)": the
\* conversation sent to the provider holds the message being answered.
UserMessageSent ==
  pc = "provider" =>
    \E i \in DOMAIN messages :
      messages[i].role = "user" /\ messages[i].turn = turn
=============================================================================
