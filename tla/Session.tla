------------------------------ MODULE Session ------------------------------
(***************************************************************************)
(* The session manager (src/src/session/session.c): a fixed table with     *)
(* open addressing that gives each chat its own agent.  The agent worker   *)
(* is its only user: it takes the session of a message, runs a turn on its *)
(* agent without the lock, and releases it.  main() may have created the   *)
(* session of the CLI before the worker starts.                            *)
(*                                                                         *)
(* An agent is abstracted to the set of chats whose messages it has seen.  *)
(* djb2 is abstracted to an arbitrary function Hash.  A chat stands for    *)
(* its key "<channel>:<chat_id>".                                          *)
(***************************************************************************)
EXTENDS Integers, FiniteSets

CONSTANTS
  Chats,        \* the (channel, chat_id) pairs that write
  Cli,          \* the one of the CLI
  SESSION_MAX,
  ttl_seconds,
  Hash,         \* djb2(key) % SESSION_MAX
  MaxTime,      \* bound: how long the clock runs
  None

Slots == 0..(SESSION_MAX - 1)

ASSUME SessionAssumption ==
  /\ SESSION_MAX \in Nat \ {0}
  /\ ttl_seconds \in Nat \ {0}
  /\ Hash \in [Chats -> Slots]
  /\ Cli \in Chats
  /\ MaxTime \in Nat
  /\ None \notin Chats

VARIABLES
  slots,   \* [Slots -> session_t]
  count,
  now,     \* time(NULL)
  held,    \* the slot of the session the worker is using, or -1
  chat     \* whose message the worker is handling, or None

vars == <<slots, count, now, held, chat>>

----------------------------------------------------------------------------
(* The table *)

\* A zeroed session_t.
Empty == [in_use |-> FALSE, key |-> None, agent |-> {}, last_active |-> 0]

\* The slot a probe for key looks at after i others.
Probe(key, i) == (Hash[key] + i) % SESSION_MAX

Least(S) == CHOOSE i \in S : \A j \in S : i <= j

\* Mutant of find_slot: the probe stops at the first empty slot.
find_slot_stops(table, key) ==
  LET ends == {i \in Slots : \/ ~table[Probe(key, i)].in_use
                             \/ table[Probe(key, i)].key = key}
  IN  IF ends # {} THEN Probe(key, Least(ends)) ELSE -1

\* Mutant of find_slot: a slot in use is taken for the key's own.
find_slot_any_key(table, key) ==
  LET hits == {i \in Slots : table[Probe(key, i)].in_use}
      empty == {i \in Slots : ~table[Probe(key, i)].in_use}
  IN  IF hits # {} THEN Probe(key, Least(hits))
      ELSE IF empty # {} THEN Probe(key, Least(empty))
      ELSE -1

\* The slot of the key; else the first empty one on the way; else -1.  The
\* whole table is probed: an empty slot does not end the search.
find_slot(table, key) ==
  LET hits == {i \in Slots : table[Probe(key, i)].in_use
                               /\ table[Probe(key, i)].key = key}
      empty == {i \in Slots : ~table[Probe(key, i)].in_use}
  IN  IF hits # {} THEN Probe(key, Least(hits))
      ELSE IF empty # {} THEN Probe(key, Least(empty))
      ELSE -1

Stale(table, i) ==
  table[i].in_use /\ now - table[i].last_active >= ttl_seconds

evict_locked(table) ==
  [i \in Slots |-> IF Stale(table, i) THEN Empty ELSE table[i]]

\* sm->count after evict_locked.
CountAfterEvict(table) ==
  count - Cardinality({i \in Slots : Stale(table, i)})

\* A session whose agent comes fresh from the factory.
NewSession(key) ==
  [in_use |-> TRUE, key |-> key, agent |-> {}, last_active |-> now]

----------------------------------------------------------------------------
(* session_get_or_create, called by the worker *)

\* Mutant of Search: no eviction and no retry when the table is full.
Search_once(key) ==
  [table |-> slots, count |-> count, idx |-> find_slot(slots, key)]

\* The search, with an eviction and one more search if the table is full:
\* the table, the count and the slot it ends with.
Search(key) ==
  LET first == find_slot(slots, key) IN
  IF first # -1
  THEN [table |-> slots, count |-> count, idx |-> first]
  ELSE LET evicted == evict_locked(slots) IN
       [table |-> evicted, count |-> CountAfterEvict(slots),
        idx |-> find_slot(evicted, key)]

\* The chat has a session.
GetExisting(c) ==
  LET s == Search(c) IN
  /\ held = -1 /\ chat = None
  /\ s.idx # -1 /\ s.table[s.idx].in_use
  /\ slots' = s.table
  /\ count' = s.count
  /\ held' = s.idx
  /\ chat' = c
  /\ UNCHANGED now

CreateSession(c) ==
  LET s == Search(c) IN
  /\ held = -1 /\ chat = None
  /\ s.idx # -1 /\ ~s.table[s.idx].in_use
  /\ slots' = [s.table EXCEPT ![s.idx] = NewSession(c)]
  /\ count' = s.count + 1
  /\ held' = s.idx
  /\ chat' = c
  /\ UNCHANGED now

\* NULL: every slot is in use, or the factory failed.  What was evicted on
\* the way stays evicted.
NoSession(c, factory_failed) ==
  LET s == Search(c) IN
  /\ held = -1 /\ chat = None
  /\ IF factory_failed THEN s.idx # -1 /\ ~s.table[s.idx].in_use
                       ELSE s.idx = -1
  /\ slots' = s.table
  /\ count' = s.count
  /\ chat' = c
  /\ UNCHANGED <<held, now>>

\* The worker has answered "agent unavailable" and takes the next message.
GiveUp ==
  /\ held = -1 /\ chat # None
  /\ chat' = None
  /\ UNCHANGED <<slots, count, now, held>>

AfterTurn(session) ==
  [session EXCEPT !.agent = @ \cup {chat}, !.last_active = now]

\* agent_chat on the session's agent, then session_release.
ChatAndRelease ==
  /\ held # -1
  /\ slots' = [slots EXCEPT ![held] = AfterTurn(@)]
  /\ held' = -1
  /\ chat' = None
  /\ UNCHANGED <<count, now>>

\* Time passes, during turns too.
Tick ==
  /\ now < MaxTime
  /\ now' = now + 1
  /\ UNCHANGED <<slots, count, held, chat>>

----------------------------------------------------------------------------

\* boot() has created the session of the CLI, or runs without one.
Init ==
  /\ now = 0
  /\ held = -1
  /\ chat = None
  /\ \/ /\ slots = [i \in Slots |-> Empty]
        /\ count = 0
     \/ /\ slots = [[i \in Slots |-> Empty] EXCEPT
                      ![Hash[Cli]] = [in_use |-> TRUE, key |-> Cli,
                                      agent |-> {}, last_active |-> 0]]
        /\ count = 1

Next ==
  \/ \E c \in Chats : \/ GetExisting(c)
                      \/ CreateSession(c)
                      \/ \E f \in BOOLEAN : NoSession(c, f)
  \/ GiveUp
  \/ ChatAndRelease
  \/ Tick

Spec == Init /\ [][Next]_vars

----------------------------------------------------------------------------
(* Properties *)

SessionRecord == [in_use : BOOLEAN, key : Chats \cup {None},
                  agent : SUBSET Chats, last_active : Nat]

TypeOK ==
  /\ slots \in [Slots -> SessionRecord]
  /\ count \in 0..SESSION_MAX
  /\ now \in 0..MaxTime
  /\ held \in Slots \cup {-1}
  /\ chat \in Chats \cup {None}

InUse == {i \in Slots : slots[i].in_use}

\* A chat never has two sessions, although eviction leaves holes between a
\* key and the slot its hash names: a second one would split the history.
OneSessionPerChat ==
  \A i, j \in InUse : slots[i].key = slots[j].key => i = j

\* session.h, "conversations are fully isolated": an agent has only seen the
\* messages of the chat its session belongs to, and a slot that is used again
\* does not inherit the conversation of the chat that was evicted from it.
Isolated ==
  /\ \A i \in InUse : slots[i].agent \subseteq {slots[i].key}
  /\ held # -1 => slots[held].in_use /\ slots[held].key = chat

\* The count shown by /status and /sessions is the number of sessions,
\* evictions and failed factories included.
CountIsExact == count = Cardinality(InUse)

\* A message goes unanswered for want of a session only while SESSION_MAX
\* other chats have been active within the last ttl_seconds (or for want of
\* memory): session_get_or_create returns NULL after the eviction retry.
RefusedOnlyWhenBusy ==
  [][\A c \in Chats : NoSession(c, FALSE) =>
       \A i \in Slots : /\ slots[i].in_use /\ slots[i].key # c
                        /\ now - slots[i].last_active < ttl_seconds]_vars

\* session.h, "evicted after idle TTL seconds": a chat that has been idle for
\* that long finds a fresh agent and not its old conversation.
IdleSessionsEvicted ==
  [][\A i \in Slots : held = -1 /\ held' = i /\ slots'[i].agent # {}
       => now - slots[i].last_active < ttl_seconds]_vars
=============================================================================
