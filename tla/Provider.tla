------------------------------ MODULE Provider ------------------------------
(***************************************************************************)
(* What a reply of the language model becomes (openai_chat_complete,       *)
(* ollama_chat_complete): an error, a text, or tool calls in the one form  *)
(* agent_chat understands.                                                 *)
(*                                                                         *)
(* A reply says whether the exchange succeeded and the status is 2xx, and  *)
(* what its body holds: JSON or not, an error text, the arrays found in    *)
(* failed_generation (one per '[', empty if it does not parse) when the    *)
(* code is tool_use_failed, a message with its content and calls, and      *)
(* whether the generation was cut off.  The arguments of a call are        *)
(* absent, null, an object, or a string that is JSON or garbled.           *)
(***************************************************************************)
EXTENDS Naturals, Sequences, SequencesExt

Missing == "missing"

\* A reply with nothing wrong; the cases of an instance are its variations.
Reply == [sent |-> TRUE, ok |-> TRUE, json |-> TRUE, error |-> FALSE,
          tool_use_failed |-> FALSE, arrays |-> <<>>, message |-> TRUE,
          content |-> "text", calls |-> <<>>, cut |-> FALSE]

\* llm_response_t; `twice`: some JSON value was deleted twice on the way.
Response(content, calls) ==
  [error |-> FALSE, content |-> content, calls |-> calls, twice |-> FALSE]
Failure == [Response("absent", <<>>) EXCEPT !.error = TRUE]

\* The arguments as a JSON-encoded string.
Encoded(args) == IF args = "absent" THEN "{}" ELSE args

Normal(tc) == [name |-> tc.name, args |-> Encoded(tc.args)]
Normalized(calls) == [i \in DOMAIN calls |-> Normal(calls[i])]

----------------------------------------------------------------------------
(* openai.c                                                                *)

\* tool_use_failed: the first array whose entries all have a name is what the
\* model meant.  One that fails is deleted, and deleted again.
recover(reply) ==
  LET named(a) == \A i \in DOMAIN a : a[i].name # Missing
      usable == {i \in DOMAIN reply.arrays :
                   reply.arrays[i] # <<>> /\ named(reply.arrays[i])}
      null(a) == [i \in DOMAIN a |->
                    [a[i] EXCEPT !.args = IF @ = "null" THEN "absent" ELSE @]]
      tried == {i \in DOMAIN reply.arrays : \A u \in usable : i < u}
      resp == IF usable = {} THEN Failure
              ELSE Response("absent", Normalized(null(reply.arrays[Min(usable)])))
  IN  [resp EXCEPT !.twice = \E i \in tried : reply.arrays[i] # <<>>]

openai_error(reply) ==
  IF reply.json /\ reply.tool_use_failed THEN recover(reply) ELSE Failure

\* An empty content counts as none; a call without a function is dropped, one
\* without a name is not; a generation that was cut off is only logged.
openai_message(reply) ==
  LET has_function(tc) == tc.function
  IN  IF reply.json /\ reply.message
      THEN Response(IF reply.content = "text" THEN "text" ELSE "absent",
                    Normalized(SelectSeq(reply.calls, has_function)))
      ELSE Failure

openai_chat_complete(reply) ==
  CASE ~reply.sent -> Failure
    [] reply.sent /\ ~reply.ok -> openai_error(reply)
    [] OTHER -> openai_message(reply)

----------------------------------------------------------------------------
(* ollama.c                                                                *)

\* Calls without a function, without a name, or with arguments that are a
\* string but not JSON are skipped.
valid(tc) == tc.function /\ tc.name \notin {Missing, ""} /\ tc.args # "garbled"

\* Calls that are all invalid are an error only if there is no content.
ollama_message(reply) ==
  LET calls == Normalized(SelectSeq(reply.calls, valid))
      content == reply.content
  IN  CASE ~reply.message -> Response("absent", <<>>)
        [] reply.message /\ calls = <<>> /\ reply.calls # <<>>
             /\ content = "absent" -> Failure
        [] OTHER -> Response(content, calls)

\* The status is not looked at.  A generation that was cut off is an error if
\* it asks for tools.
ollama_chat_complete(reply) ==
  IF \/ ~reply.sent \/ ~reply.json \/ reply.error
     \/ reply.cut /\ reply.message /\ reply.calls # <<>>
  THEN Failure ELSE ollama_message(reply)

----------------------------------------------------------------------------
(* agent.c: what the loop does with the response.                          *)

\* parse_tool_arguments: what does not parse becomes an empty object.
parse_tool_arguments(args) == IF args = "garbled" THEN "{}" ELSE args

\* tool_find compares the name of each call, agent_chat copies the text of the
\* answer: a null pointer in either place ends the process.
Fatal(resp) ==
  /\ ~resp.error
  /\ \/ \E i \in DOMAIN resp.calls : resp.calls[i].name = Missing
     \/ resp.calls = <<>> /\ resp.content = "absent"
=============================================================================
