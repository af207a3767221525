------------------------------ MODULE FactMap ------------------------------
(***************************************************************************)
(* What the memory tools promise: facts that are stored atomically, one    *)
(* value per section and key, by callers that may run at the same time.    *)
(* A store takes effect at one moment between its call and its answer, or  *)
(* not at all when the answer is an error; a caller that is stopped has no *)
(* answer.  A crash forgets the calls and keeps the facts.                 *)
(***************************************************************************)
CONSTANTS
  Callers, Sections, Keys, Values, None,
  Clip(_)               \* what an answer has room for of a value

VARIABLES
  facts,                \* [Sections \X Keys -> Values or None]
  call                  \* [Callers -> what the caller is doing]

vars == <<facts, call>>

Idle == [op |-> "idle"]

Init ==
  /\ facts = [f \in Sections \X Keys |-> None]
  /\ call = [c \in Callers |-> Idle]

Call(c) ==
  /\ call[c] = Idle
  /\ \/ \E f \in Sections \X Keys, v \in Values :
          call' = [call EXCEPT ![c] = [op |-> "store", fact |-> f, value |-> v]]
     \/ \E f \in Sections \X Keys :
          call' = [call EXCEPT ![c] = [op |-> "recall", fact |-> f]]
  /\ UNCHANGED facts

\* The one moment at which a store takes effect.
Store(c) ==
  /\ call[c].op = "store"
  /\ facts' = [facts EXCEPT ![call[c].fact] = call[c].value]
  /\ call' = [call EXCEPT ![c] = [op |-> "stored"]]

StoreFails(c) ==
  /\ call[c].op = "store"
  /\ call' = [call EXCEPT ![c] = [op |-> "failed"]]
  /\ UNCHANGED facts

\* What a recall of the fact f answers.
Answer(f) == IF facts[f] = None THEN None ELSE Clip(facts[f])

\* The one moment at which a recall looks.
Recall(c) ==
  /\ call[c].op = "recall"
  /\ call' = [call EXCEPT ![c] =
                [op |-> "recalled", value |-> Answer(call[c].fact)]]
  /\ UNCHANGED facts

Return(c) ==
  /\ call[c].op \in {"stored", "failed", "recalled"}
  /\ call' = [call EXCEPT ![c] = Idle]
  /\ UNCHANGED facts

Crash ==
  /\ call' = [c \in Callers |-> Idle]
  /\ UNCHANGED facts

Next ==
  \/ \E c \in Callers :
       Call(c) \/ Store(c) \/ StoreFails(c) \/ Recall(c) \/ Return(c)
  \/ Crash

Spec == Init /\ [][Next]_vars
=============================================================================
