---------------------------- MODULE AgentProofs ----------------------------
(***************************************************************************)
(* What holds of a conversation for every array size, every configured     *)
(* limit, every bound on iterations, calls and turns.                      *)
(***************************************************************************)
EXTENDS Agent, SequenceTheorems, WellFoundedInduction, TLAPS

----------------------------------------------------------------------------
(* The compaction *)

\* A nonempty set of integers with an upper bound has a largest member, which
\* is then the value of Max: the walk back of the compaction stops.
LEMMA MaxOfBounded ==
  ASSUME NEW S, S \subseteq Int, S # {},
         NEW top \in Int, \A x \in S : x <= top
  PROVE  Max(S) \in S /\ \A y \in S : Max(S) >= y
<1> DEFINE T == {n \in Nat : top - n \in S}
<1>1. T \subseteq Nat
  OBVIOUS
<1>2. T # {}
  <2>1. PICK s \in S : TRUE
    OBVIOUS
  <2>2. top - s \in Nat /\ top - (top - s) = s
    BY <2>1
  <2>3. top - s \in T
    BY <2>1, <2>2
  <2> QED BY <2>3
<1>3. PICK t \in T : \A u \in T : ~(<<u, t>> \in OpToRel(<, Nat))
  <2> HIDE DEF T
  <2> QED BY <1>1, <1>2, NatLessThanWellFounded, WFMin
<1>4. \A u \in T : ~(u < t)
  BY <1>1, <1>3 DEF OpToRel
<1>5. ASSUME NEW y \in S PROVE top - t >= y
  <2>1. y \in Int /\ y <= top /\ t \in Nat
    BY <1>3
  <2>2. top - y \in Nat /\ top - (top - y) = y
    BY <2>1
  <2>3. top - y \in T
    BY <2>2
  <2>4. ~(top - y < t)
    BY <2>3, <1>4
  <2> QED BY <2>1, <2>4
<1>6. top - t \in S
  BY <1>3
<1>7. QED
  BY <1>5, <1>6 DEF Max

\* The limit is within the array, and a compaction tries to remove something.
LEMMA LimitBounds ==
  /\ Limit \in 1..MAX_MESSAGES
  /\ RemoveCount \in Nat \ {0}
<1>1. Limit \in 1..MAX_MESSAGES
  BY AgentAssumption DEF Limit
<1>2. RemoveCount \in Nat \ {0}
  BY <1>1, AgentAssumption DEF RemoveCount
<1> QED BY <1>1, <1>2

\* The cut is after the system message and inside the history; as soon as
\* there is a second message it removes at least one.
LEMMA CutEndBounds ==
  ASSUME NEW ms \in Seq(Message)
  PROVE  /\ CutEnd(ms) \in 0..Len(ms)
         /\ Len(ms) >= 2 => CutEnd(ms) >= 2
         /\ Len(ms) < 2 => CutEnd(ms) = Len(ms)
<1> DEFINE stops == {c \in (Keep + 1)..CutStart(ms) :
                       c = Keep + 1 \/ ~HasToolCalls(ms[c])}
<1>1. Len(ms) \in Nat
  OBVIOUS
<1>2. /\ CutStart(ms) \in 0..Len(ms)
      /\ Len(ms) >= 2 => CutStart(ms) >= 2
      /\ Len(ms) < 2 => CutStart(ms) = Len(ms)
  BY <1>1, LimitBounds DEF CutStart, Keep
<1>3. CASE Len(ms) < 2
  <2>1. stops = {}
    BY <1>2, <1>3 DEF Keep
  <2> QED BY <2>1, <1>2, <1>3 DEF CutEnd
<1>4. CASE Len(ms) >= 2
  <2>1. 2 \in stops
    BY <1>2, <1>4 DEF Keep
  <2>2. stops \subseteq 2..CutStart(ms)
    BY DEF Keep
  <2> HIDE DEF stops
  <2>3. /\ stops \subseteq Int /\ stops # {}
        /\ CutStart(ms) \in Int /\ \A x \in stops : x <= CutStart(ms)
    BY <2>1, <2>2, <1>2
  <2>4. Max(stops) \in stops
    BY <2>3, MaxOfBounded
  <2>5. CutEnd(ms) = Max(stops)
    BY <2>1 DEF CutEnd, stops
  <2>6. CutEnd(ms) \in 2..CutStart(ms)
    BY <2>2, <2>4, <2>5
  <2> QED BY <2>6, <1>1, <1>2, <1>4
<1> QED BY <1>1, <1>3, <1>4

\* A compaction drops the d messages after the first one and shifts the rest.
LEMMA CompactShifts ==
  ASSUME NEW ms \in Seq(Message)
  PROVE  /\ agent_compact_history(ms) \in Seq(Message)
         /\ \E d \in Nat :
              /\ Len(agent_compact_history(ms)) = Len(ms) - d
              /\ Len(ms) >= 2 => d >= 1 /\ d <= Len(ms) - 1
              /\ Len(ms) < 2 => d = 0
              /\ \A i \in 1..(Len(ms) - d) :
                   agent_compact_history(ms)[i] =
                     IF i = 1 THEN ms[1] ELSE ms[i + d]
<1> DEFINE c == CutEnd(ms)
<1>1. /\ Len(ms) \in Nat /\ c \in 0..Len(ms)
      /\ Len(ms) >= 2 => c >= 2
      /\ Len(ms) < 2 => c = Len(ms)
  BY CutEndBounds
<1> HIDE DEF c
<1>2. CASE c <= 1
  <2>1. agent_compact_history(ms) = ms
    BY <1>2 DEF agent_compact_history, Keep, c
  <2>2. Len(ms) < 2
    BY <1>1, <1>2
  <2>3. \A i \in 1..(Len(ms) - 0) : ms[i] = IF i = 1 THEN ms[1] ELSE ms[i + 0]
    BY <2>2, <1>1
  <2> QED BY <2>1, <2>2, <2>3, <1>1
<1>3. CASE c > 1
  <2> DEFINE p == SubSeq(ms, 1, 1)
             q == SubSeq(ms, c + 1, Len(ms))
             r == p \o q
             d == c - 1
  <2>1. agent_compact_history(ms) = r
    BY <1>1, <1>3 DEF agent_compact_history, Keep, c
  <2>2. \A i \in 1..Len(ms) : ms[i] \in Message
    BY ElementOfSeq
  <2>3. /\ p \in Seq(Message) /\ Len(p) = 1 /\ p[1] = ms[1]
    BY <2>2, <1>1, <1>3, SubSeqProperties
  <2>4. /\ q \in Seq(Message) /\ Len(q) = Len(ms) - c
        /\ \A i \in 1..(Len(ms) - c) : q[i] = ms[c + i]
    <3>1. \A i \in (c + 1)..Len(ms) : ms[i] \in Message
      BY <2>2, <1>1, <1>3
    <3>2. c + 1 \in Int /\ Len(ms) \in Int
      BY <1>1
    <3>3. /\ q \in Seq(Message)
          /\ Len(q) = IF c + 1 <= Len(ms) THEN Len(ms) - (c + 1) + 1 ELSE 0
          /\ \A i \in 1..(Len(ms) - (c + 1) + 1) : q[i] = ms[(c + 1) + i - 1]
      BY <3>1, <3>2, SubSeqProperties
    <3> QED BY <3>3, <1>1, <1>3
  <2> HIDE DEF p, q
  <2>5. /\ r \in Seq(Message)
        /\ Len(r) = Len(p) + Len(q)
        /\ \A i \in 1..(Len(p) + Len(q)) :
              r[i] = IF i <= Len(p) THEN p[i] ELSE q[i - Len(p)]
    BY <2>3, <2>4, ConcatProperties
  <2> HIDE DEF r
  <2>6. d \in Nat /\ Len(r) = Len(ms) - d
    BY <2>3, <2>4, <2>5, <1>1, <1>3
  <2>7. ASSUME NEW i \in 1..(Len(ms) - d)
        PROVE  r[i] = IF i = 1 THEN ms[1] ELSE ms[i + d]
    <3>1. r[i] = IF i <= 1 THEN p[i] ELSE q[i - 1]
      BY <2>3, <2>4, <2>5, <1>1, <1>3
    <3>2. CASE i = 1
      BY <3>1, <3>2, <2>3
    <3>3. CASE i # 1
      <4>1. i - 1 \in 1..(Len(ms) - c) /\ c + (i - 1) = i + d
        BY <3>3, <1>1, <1>3
      <4> QED BY <4>1, <3>1, <3>3, <2>4
    <3> QED BY <3>2, <3>3
  <2> HIDE DEF d
  <2>8. (Len(ms) >= 2 => d >= 1 /\ d <= Len(ms) - 1) /\ (Len(ms) < 2 => d = 0)
    BY <1>1, <1>3 DEF d
  <2> QED BY <2>1, <2>5, <2>6, <2>7, <2>8
<1> QED BY <1>1, <1>2, <1>3

\* r is ms without the d messages after the first one, followed by m.
Extended(ms, m, r, d) ==
  /\ r \in Seq(Message)
  /\ d \in Nat
  /\ Len(r) = Len(ms) - d + 1
  /\ Len(ms) < 2 \/ Len(ms) < Limit => d = 0
  /\ Len(ms) >= 2 /\ Len(ms) >= Limit => d >= 1 /\ d <= Len(ms) - 1
  /\ \A i \in 1..(Len(ms) - d) : r[i] = IF i = 1 THEN ms[1] ELSE ms[i + d]
  /\ r[Len(ms) - d + 1] = m

\* Adding a message to a history that has reached the limit removes at least
\* one and never the first.
LEMMA AddExtends ==
  ASSUME NEW ms \in Seq(Message), NEW m \in Message
  PROVE  \E d \in Nat : Extended(ms, m, agent_add_message(ms, m), d)
<1> DEFINE base == IF Len(ms) >= Limit THEN agent_compact_history(ms) ELSE ms
           r == agent_add_message(ms, m)
<1>0. Len(ms) \in Nat /\ Limit \in Nat
  BY LimitBounds
<1>1. base \in Seq(Message)
  BY CompactShifts
<1>2. \E d \in Nat :
        /\ Len(base) = Len(ms) - d
        /\ Len(ms) < 2 \/ Len(ms) < Limit => d = 0
        /\ Len(ms) >= 2 /\ Len(ms) >= Limit => d >= 1 /\ d <= Len(ms) - 1
        /\ \A i \in 1..(Len(ms) - d) :
              base[i] = IF i = 1 THEN ms[1] ELSE ms[i + d]
  <2>1. CASE Len(ms) >= Limit
    <3>1. base = agent_compact_history(ms)
      BY <2>1
    <3> HIDE DEF base
    <3>2. PICK d \in Nat :
            /\ Len(base) = Len(ms) - d
            /\ Len(ms) >= 2 => d >= 1 /\ d <= Len(ms) - 1
            /\ Len(ms) < 2 => d = 0
            /\ \A i \in 1..(Len(ms) - d) :
                 base[i] = IF i = 1 THEN ms[1] ELSE ms[i + d]
      BY <3>1, CompactShifts
    <3>3. ~(Len(ms) < Limit)
      BY <2>1, <1>0
    <3> QED BY <3>2, <3>3, Zenon
  <2>2. CASE ~(Len(ms) >= Limit)
    <3>1. base = ms /\ Len(ms) < Limit
      BY <2>2, <1>0
    <3>2. \A i \in 1..(Len(ms) - 0) :
            base[i] = IF i = 1 THEN ms[1] ELSE ms[i + 0]
      BY <3>1, <1>0
    <3> HIDE DEF base
    <3> QED BY <3>1, <3>2, <1>0
  <2> QED BY <2>1, <2>2
<1>3. r = Append(base, m)
  BY DEF agent_add_message
<1> HIDE DEF base, r
<1>4. /\ r \in Seq(Message) /\ Len(r) = Len(base) + 1
      /\ \A i \in 1..Len(base) : r[i] = base[i]
      /\ r[Len(base) + 1] = m
  BY <1>1, <1>3, AppendProperties
<1>5. PICK d \in Nat :
        /\ Len(base) = Len(ms) - d
        /\ Len(ms) < 2 \/ Len(ms) < Limit => d = 0
        /\ Len(ms) >= 2 /\ Len(ms) >= Limit => d >= 1 /\ d <= Len(ms) - 1
        /\ \A i \in 1..(Len(ms) - d) :
              base[i] = IF i = 1 THEN ms[1] ELSE ms[i + d]
  BY <1>2
<1>6. Extended(ms, m, r, d)
  BY <1>0, <1>4, <1>5 DEF Extended
<1> QED BY <1>6 DEF r

\* Popping keeps a prefix.
LEMMA RollbackPrefix ==
  ASSUME NEW ms \in Seq(Message), NEW n \in Nat
  PROVE  /\ RollbackTo(ms, n) \in Seq(Message)
         /\ Len(RollbackTo(ms, n)) = IF Len(ms) > n THEN n ELSE Len(ms)
         /\ \A i \in 1..Len(RollbackTo(ms, n)) : RollbackTo(ms, n)[i] = ms[i]
<1>1. \A i \in 1..Len(ms) : ms[i] \in Message
  BY ElementOfSeq
<1>2. CASE Len(ms) > n
  <2>1. /\ SubSeq(ms, 1, n) \in Seq(Message)
        /\ Len(SubSeq(ms, 1, n)) = IF 1 <= n THEN n - 1 + 1 ELSE 0
        /\ \A i \in 1..(n - 1 + 1) : SubSeq(ms, 1, n)[i] = ms[1 + i - 1]
    BY <1>1, <1>2, SubSeqProperties
  <2> QED BY <2>1, <1>2 DEF RollbackTo
<1>3. CASE ~(Len(ms) > n)
  BY <1>3 DEF RollbackTo
<1> QED BY <1>2, <1>3

----------------------------------------------------------------------------
(* The inductive invariant *)

\* The history is empty only between turns, a rollback keeps the prompt, and
\* the provider is only called while iterations are left.
Started ==
  /\ pc # "idle" => Len(messages) >= 1 /\ pre_turn_count >= 1
  /\ pc \in {"provider", "tools"} => iter < max_iterations

\* The system prompt requests no tools.
SystemAsksNothing == messages # <<>> => messages[1].calls = 0

\* The messages of the turns before the current one are all at positions
\* that the rollback keeps.
EarlierBelow ==
  /\ \A i \in DOMAIN messages : messages[i].turn <= turn
  /\ pc # "idle" => \A i \in DOMAIN messages :
       messages[i].turn < turn => i <= pre_turn_count

\* A request of the current turn is followed by its results; only the last
\* one, while its calls are being executed, still lacks `calls' of them.
AnsweredSoFar ==
  pc # "idle" =>
    \A i \in DOMAIN messages :
      messages[i].turn = turn /\ HasToolCalls(messages[i]) =>
        /\ \A j \in (i + 1)..(i + messages[i].calls) :
             j \in DOMAIN messages =>
               messages[j] = Msg("tool", turn, messages[i].iter, 0)
        /\ \/ i + messages[i].calls <= Len(messages)
           \/ /\ pc = "tools" /\ messages[i].iter = iter
              /\ i + messages[i].calls = Len(messages) + calls

IInv == /\ TypeOK
        /\ HistoryFits
        /\ SystemFirst
        /\ Started
        /\ SystemAsksNothing
        /\ EarlierBelow
        /\ AnsweredSoFar

\* HistoryFits and SystemFirst of a history that is not the current one.
Fits(ms) == /\ Len(ms) <= MAX_MESSAGES
            /\ Len(ms) <= (IF Limit < 2 THEN 2 ELSE Limit)

StartsWithSystem(ms) ==
  /\ Len(ms) >= 1
  /\ ms[1].role = "system"
  /\ \A i \in 1..Len(ms) : ms[i].role = "system" => i = 1

\* Adding a user, assistant or tool message preserves both.
LEMMA ExtendHistory ==
  ASSUME NEW ms \in Seq(Message), NEW m \in Message, NEW r, NEW d,
         Fits(ms), StartsWithSystem(ms), m.role # "system",
         Extended(ms, m, r, d)
  PROVE  Fits(r) /\ StartsWithSystem(r)
<1>1. Len(ms) \in Nat /\ Len(ms) >= 1 /\ Limit \in 1..MAX_MESSAGES
      /\ MAX_MESSAGES \in Nat /\ MAX_MESSAGES >= 2
  BY LimitBounds, AgentAssumption DEF StartsWithSystem
<1>2. d \in Nat /\ d <= Len(ms) - 1 /\ Len(r) = Len(ms) - d + 1
  BY <1>1 DEF Extended
<1>3. Fits(r)
  BY <1>1, <1>2 DEF Fits, Extended
<1>4. r[1] = ms[1]
  BY <1>1, <1>2 DEF Extended
<1>5. ASSUME NEW i \in 1..Len(r), r[i].role = "system" PROVE i = 1
  <2>1. CASE i = Len(ms) - d + 1
    BY <2>1, <1>5 DEF Extended
  <2>2. CASE i # Len(ms) - d + 1
    <3>1. i \in 1..(Len(ms) - d) /\ i + d \in 1..Len(ms)
      BY <2>2, <1>1, <1>2
    <3>2. i # 1 => r[i] = ms[i + d]
      BY <3>1 DEF Extended
    <3> QED BY <3>1, <3>2, <1>2, <1>5 DEF StartsWithSystem
  <2> QED BY <2>1, <2>2
<1> QED BY <1>1, <1>2, <1>3, <1>4, <1>5 DEF StartsWithSystem

\* The first call of agent_chat on an empty history installs the prompt.
LEMMA WithSystemProperties ==
  ASSUME TypeOK, HistoryFits, SystemFirst
  PROVE  /\ WithSystem(messages) \in Seq(Message)
         /\ Fits(WithSystem(messages))
         /\ StartsWithSystem(WithSystem(messages))
         /\ Len(messages) >= 1 => WithSystem(messages) = messages
         /\ Len(messages) = 0 =>
              /\ Len(WithSystem(messages)) = 1
              /\ WithSystem(messages)[1] = Msg("system", 0, 0, 0)
<1>0. messages \in Seq(Message) /\ Len(messages) \in Nat
  BY DEF TypeOK
<1>1. Limit \in 1..MAX_MESSAGES /\ MAX_MESSAGES \in Nat /\ MAX_MESSAGES >= 2
  BY LimitBounds, AgentAssumption
<1>2. CASE Len(messages) >= 1
  <2>1. WithSystem(messages) = messages
    BY <1>2, <1>0 DEF WithSystem
  <2>2. messages # <<>> /\ DOMAIN messages = 1..Len(messages)
    BY <1>0, <1>2
  <2> QED BY <2>1, <2>2, <1>0, <1>2
          DEF HistoryFits, SystemFirst, Fits, StartsWithSystem
<1>3. CASE Len(messages) = 0
  <2> DEFINE sys == Msg("system", 0, 0, 0)
             w == WithSystem(messages)
  <2>1. sys \in Message
    BY AgentAssumption DEF Msg, Message, Roles
  <2>2. w = agent_add_message(messages, sys)
    BY <1>3 DEF WithSystem
  <2>3. sys.role = "system"
    BY DEF Msg
  <2> HIDE DEF sys, w
  <2>4. PICK d \in Nat : Extended(messages, sys, w, d)
    BY <2>1, <2>2, <1>0, AddExtends
  <2>5. w \in Seq(Message) /\ Len(w) = 1 /\ w[1] = sys
    BY <2>4, <1>0, <1>3 DEF Extended
  <2>6. Fits(w) /\ StartsWithSystem(w)
    BY <2>3, <2>5, <1>1 DEF Fits, StartsWithSystem
  <2> QED BY <2>5, <2>6, <1>3 DEF sys, w
<1> QED BY <1>0, <1>2, <1>3

\* What agent_add_message does to a history in the middle of a turn.
LEMMA AppendInTurn ==
  ASSUME IInv, pc # "idle", NEW m \in Message,
         m.role # "system", m.turn = turn,
         messages' = agent_add_message(messages, m)
  PROVE  /\ messages' \in Seq(Message)
         /\ HistoryFits' /\ SystemFirst' /\ SystemAsksNothing'
         /\ Len(messages') >= 1
         /\ \A i \in DOMAIN messages' :
              /\ messages'[i].turn <= turn
              /\ messages'[i].turn < turn => i <= pre_turn_count
<1>0. messages \in Seq(Message) /\ Len(messages) \in Nat /\ Len(messages) >= 1
      /\ DOMAIN messages = 1..Len(messages) /\ pre_turn_count \in Nat
      /\ turn \in Nat
  BY AgentAssumption DEF IInv, TypeOK, Started
<1>1. PICK d \in Nat : Extended(messages, m, messages', d)
  BY <1>0, AddExtends
<1>2. messages # <<>>
  BY <1>0
<1>3. Fits(messages) /\ StartsWithSystem(messages)
  BY <1>0, <1>2 DEF IInv, HistoryFits, SystemFirst, Fits, StartsWithSystem
<1>4. Fits(messages') /\ StartsWithSystem(messages')
  BY <1>0, <1>1, <1>3, ExtendHistory
<1>5. messages' \in Seq(Message) /\ DOMAIN messages' = 1..Len(messages')
      /\ Len(messages') = Len(messages) - d + 1
  BY <1>1 DEF Extended
<1>6. HistoryFits' /\ SystemFirst' /\ Len(messages') >= 1
  BY <1>4, <1>5 DEF HistoryFits, SystemFirst, Fits, StartsWithSystem
<1>7. d <= Len(messages) - 1
  BY <1>0, <1>1, LimitBounds DEF Extended
<1>8. SystemAsksNothing'
  <2>1. messages'[1] = messages[1]
    BY <1>0, <1>1, <1>7 DEF Extended
  <2> QED BY <2>1, <1>2 DEF IInv, SystemAsksNothing
<1>9. ASSUME NEW i \in DOMAIN messages'
      PROVE  /\ messages'[i].turn <= turn
             /\ messages'[i].turn < turn => i <= pre_turn_count
  <2>1. CASE i = Len(messages) - d + 1
    BY <2>1, <1>0, <1>1 DEF Extended
  <2>2. CASE i # Len(messages) - d + 1
    <3>1. /\ i \in 1..(Len(messages) - d)
          /\ i \in 1..Len(messages) /\ i + d \in 1..Len(messages)
      BY <2>2, <1>0, <1>5, <1>7
    <3>2. messages'[i] = messages[IF i = 1 THEN 1 ELSE i + d]
      BY <3>1, <1>1 DEF Extended
    <3>3. /\ messages[IF i = 1 THEN 1 ELSE i + d].turn <= turn
          /\ messages[IF i = 1 THEN 1 ELSE i + d].turn < turn =>
               (IF i = 1 THEN 1 ELSE i + d) <= pre_turn_count
      BY <3>1, <1>0 DEF IInv, EarlierBelow
    <3>4. i <= (IF i = 1 THEN 1 ELSE i + d)
      BY <3>1
    <3> QED BY <3>1, <3>2, <3>3, <3>4, <1>0
  <2> QED BY <2>1, <2>2
<1> QED BY <1>5, <1>6, <1>8, <1>9

\* Requests already answered stay answered when a message is added, and the
\* one being executed gets its next result when that is what is added.
LEMMA AppendKeepsAnswers ==
  ASSUME IInv, pc # "idle", NEW m \in Message, m.turn = turn,
         NEW d \in Nat, Extended(messages, m, messages', d),
         NEW i \in DOMAIN messages', i <= Len(messages) - d,
         messages'[i].turn = turn, HasToolCalls(messages'[i]),
         pc = "tools" /\ calls > 0 => m = Msg("tool", turn, iter, 0)
  PROVE  /\ \A j \in (i + 1)..(i + messages'[i].calls) :
              j \in DOMAIN messages' =>
                messages'[j] = Msg("tool", turn, messages'[i].iter, 0)
         /\ \/ i + messages'[i].calls <= Len(messages') - 1
            \/ /\ pc = "tools" /\ messages'[i].iter = iter
               /\ i + messages'[i].calls = Len(messages') - 1 + calls
<1>0. messages \in Seq(Message) /\ Len(messages) \in Nat /\ Len(messages) >= 1
      /\ DOMAIN messages = 1..Len(messages) /\ calls \in Nat
      /\ messages # <<>>
  BY AgentAssumption DEF IInv, TypeOK, Started
<1>1. DOMAIN messages' = 1..Len(messages') /\ Len(messages') = Len(messages) - d + 1
      /\ d <= Len(messages) - 1
  BY <1>0, LimitBounds DEF Extended
<1>2. i \in 1..(Len(messages) - d)
  BY <1>0, <1>1
<1>3. i # 1
  <2>1. messages'[1] = messages[1]
    BY <1>0, <1>1 DEF Extended
  <2> QED BY <2>1, <1>0 DEF IInv, SystemAsksNothing, HasToolCalls
<1>4. messages'[i] = messages[i + d] /\ i + d \in DOMAIN messages
  BY <1>0, <1>1, <1>2, <1>3 DEF Extended
<1> DEFINE k == messages[i + d].calls
<1>5. k \in Nat /\ messages[i + d].turn = turn /\ HasToolCalls(messages[i + d])
  <2>1. messages[i + d] \in Message
    BY <1>0, <1>4, ElementOfSeq
  <2>2. k \in Nat
    BY <2>1, AgentAssumption DEF Message
  <2> QED BY <2>2, <1>4
<1>6. /\ \A j \in (i + d + 1)..(i + d + k) :
           j \in DOMAIN messages =>
             messages[j] = Msg("tool", turn, messages[i + d].iter, 0)
      /\ \/ i + d + k <= Len(messages)
         \/ /\ pc = "tools" /\ messages[i + d].iter = iter
            /\ i + d + k = Len(messages) + calls
  BY <1>4, <1>5 DEF IInv, AnsweredSoFar
<1> HIDE DEF k
<1>7. \/ i + k <= Len(messages') - 1
      \/ /\ pc = "tools" /\ messages'[i].iter = iter
         /\ i + k = Len(messages') - 1 + calls
  <2>0. i \in Nat /\ k \in Nat /\ messages'[i].iter = messages[i + d].iter
    BY <1>2, <1>4, <1>5
  <2>1. CASE i + d + k <= Len(messages)
    <3>1. i + k <= Len(messages') - 1
      BY <2>0, <2>1, <1>0, <1>1
    <3> QED BY <3>1
  <2>2. CASE pc = "tools" /\ messages[i + d].iter = iter
             /\ i + d + k = Len(messages) + calls
    <3>1. i + d + k = Len(messages) + calls
      BY <2>2
    <3>2. Len(messages') - 1 = Len(messages) - d
      BY <1>0, <1>1
    <3>3. i + k = Len(messages) - d + calls
      BY <3>1, <2>0, <1>0
    <3> QED BY <3>2, <3>3, <2>0, <2>2
  <2> QED BY <2>1, <2>2, <1>6
<1>8. ASSUME NEW j \in (i + 1)..(i + k), j \in DOMAIN messages'
      PROVE  messages'[j] = Msg("tool", turn, messages'[i].iter, 0)
  <2>1. CASE j <= Len(messages) - d
    <3>1. j \in 1..(Len(messages) - d) /\ j # 1
          /\ j + d \in (i + d + 1)..(i + d + k) /\ j + d \in DOMAIN messages
      BY <2>1, <1>0, <1>1, <1>2, <1>5, <1>8
    <3>2. messages'[j] = messages[j + d]
      BY <3>1 DEF Extended
    <3> QED BY <3>1, <3>2, <1>4, <1>6
  <2>2. CASE ~(j <= Len(messages) - d)
    <3>1. j = Len(messages) - d + 1 /\ messages'[j] = m
      BY <2>2, <1>0, <1>1, <1>2, <1>5, <1>8 DEF Extended
    <3>2. pc = "tools" /\ messages'[i].iter = iter
          /\ i + k = Len(messages') - 1 + calls
      BY <3>1, <1>0, <1>1, <1>2, <1>5, <1>7
    <3>3. calls > 0
      BY <3>1, <3>2, <1>0, <1>1, <1>2, <1>5
    <3> QED BY <3>1, <3>2, <3>3
  <2> QED BY <2>1, <2>2
<1> QED BY <1>4, <1>7, <1>8 DEF k

\* A failed turn (ProviderError, MaxIterationsReached) preserves the invariant.
LEMMA RollbackStep ==
  ASSUME IInv, pc # "idle",
         messages' = RollbackTo(messages, pre_turn_count),
         NEW answer \in Replies, EndTurn(answer)
  PROVE  IInv'
<1>0. messages \in Seq(Message) /\ Len(messages) \in Nat /\ Len(messages) >= 1
      /\ DOMAIN messages = 1..Len(messages) /\ messages # <<>>
      /\ pre_turn_count \in Nat /\ pre_turn_count >= 1
  BY DEF IInv, TypeOK, Started
<1>1. /\ messages' \in Seq(Message)
      /\ DOMAIN messages' = 1..Len(messages')
      /\ Len(messages') >= 1 /\ Len(messages') <= Len(messages)
      /\ \A i \in DOMAIN messages' :
           i \in DOMAIN messages /\ messages'[i] = messages[i]
  BY <1>0, RollbackPrefix
<1>2. TypeOK'
  BY <1>1 DEF IInv, TypeOK, EndTurn
<1>3. HistoryFits'
  BY <1>0, <1>1, AgentAssumption, LimitBounds DEF IInv, HistoryFits
<1>4. SystemFirst' /\ SystemAsksNothing'
  BY <1>0, <1>1 DEF IInv, SystemFirst, SystemAsksNothing
<1>5. Started' /\ EarlierBelow' /\ AnsweredSoFar'
  BY <1>0, <1>1 DEF IInv, EndTurn, Started, EarlierBelow, AnsweredSoFar
<1> QED BY <1>2, <1>3, <1>4, <1>5 DEF IInv

\* BeginTurn preserves the invariant: every message in the history is then of
\* an earlier turn, except the last, and none of them is above the count.
LEMMA BeginTurnStep ==
  ASSUME IInv, BeginTurn
  PROVE  IInv'
<1> DEFINE w == WithSystem(messages)
           m == Msg("user", turn + 1, 0, 0)
<1>0. messages \in Seq(Message) /\ Len(messages) \in Nat /\ turn \in Nat
      /\ DOMAIN messages = 1..Len(messages) /\ turn + 1 \in 0..MaxTurns
  BY AgentAssumption DEF IInv, TypeOK, BeginTurn
<1>1. /\ w \in Seq(Message) /\ Fits(w) /\ StartsWithSystem(w)
      /\ Len(messages) >= 1 => w = messages
      /\ Len(messages) = 0 => Len(w) = 1 /\ w[1] = Msg("system", 0, 0, 0)
  BY WithSystemProperties DEF IInv
<1>2. m \in Message /\ m.role # "system" /\ m.turn = turn + 1 /\ m.calls = 0
  BY <1>0, AgentAssumption DEF Msg, Message, Roles
<1>3. \A i \in 1..Len(w) : w[i].turn <= turn
  BY <1>0, <1>1 DEF IInv, EarlierBelow, Msg
<1>4. w[1].calls = 0
  <2>1. CASE Len(messages) = 0
    BY <2>1, <1>1 DEF Msg
  <2>2. CASE Len(messages) >= 1
    <3>1. messages # <<>>
      BY <2>2
    <3> QED BY <2>2, <3>1, <1>1 DEF IInv, SystemAsksNothing
  <2> QED BY <2>1, <2>2, <1>0
<1>5. /\ messages' = agent_add_message(w, m) /\ pre_turn_count' = Len(w)
      /\ turn' = turn + 1 /\ pc' = "loop" /\ iter' = 0
      /\ UNCHANGED <<calls, reply>>
  BY DEF BeginTurn
<1> HIDE DEF w, m
<1>6. PICK d \in Nat : Extended(w, m, messages', d)
  BY <1>1, <1>2, <1>5, AddExtends
<1>7. Fits(messages') /\ StartsWithSystem(messages')
  BY <1>1, <1>2, <1>6, ExtendHistory
<1>8. /\ messages' \in Seq(Message) /\ DOMAIN messages' = 1..Len(messages')
      /\ Len(w) \in Nat /\ Len(w) >= 1
      /\ Len(messages') = Len(w) - d + 1 /\ d <= Len(w) - 1
      /\ messages'[1] = w[1]
  BY <1>1, <1>6, LimitBounds DEF Extended, StartsWithSystem
<1>9. TypeOK'
  BY <1>0, <1>5, <1>8, AgentAssumption DEF IInv, TypeOK
<1>10. HistoryFits' /\ SystemFirst' /\ SystemAsksNothing' /\ Started'
  BY <1>4, <1>5, <1>7, <1>8
     DEF HistoryFits, SystemFirst, SystemAsksNothing, Started, Fits,
         StartsWithSystem
<1>11. ASSUME NEW i \in DOMAIN messages'
       PROVE  /\ i = Len(messages') => messages'[i] = m
              /\ i < Len(messages') => messages'[i].turn <= turn
                                       /\ i <= pre_turn_count'
  <2>1. CASE i = Len(w) - d + 1
    BY <2>1, <1>6, <1>8 DEF Extended
  <2>2. CASE i # Len(w) - d + 1
    <3>1. /\ i \in 1..(Len(w) - d) /\ i \in 1..Len(w)
          /\ i + d \in 1..Len(w)
      BY <2>2, <1>8
    <3>2. messages'[i] = w[IF i = 1 THEN 1 ELSE i + d]
      BY <3>1, <1>6 DEF Extended
    <3>3. messages'[i].turn <= turn
      BY <3>1, <3>2, <1>3
    <3> QED BY <3>1, <3>3, <1>5, <1>8
  <2> QED BY <2>1, <2>2
<1>12. EarlierBelow'
  <2>1. ASSUME NEW i \in DOMAIN messages'
        PROVE  /\ messages'[i].turn <= turn'
               /\ messages'[i].turn < turn' => i <= pre_turn_count'
    <3>1. messages'[i] \in Message
      BY <1>8, ElementOfSeq
    <3>2. messages'[i].turn \in Nat
      BY <3>1, AgentAssumption DEF Message
    <3>3. CASE i = Len(messages')
      BY <3>3, <1>0, <1>2, <1>5, <1>11
    <3>4. CASE i < Len(messages')
      BY <3>2, <3>4, <1>0, <1>5, <1>11
    <3> QED BY <3>3, <3>4, <1>8
  <2> QED BY <2>1 DEF EarlierBelow
<1>13. AnsweredSoFar'
  <2>1. ASSUME NEW i \in DOMAIN messages', messages'[i].turn = turn'
        PROVE  ~HasToolCalls(messages'[i])
    <3>1. i = Len(messages')
      BY <2>1, <1>0, <1>5, <1>8, <1>11
    <3> QED BY <3>1, <1>2, <1>11 DEF HasToolCalls
  <2> QED BY <2>1 DEF AnsweredSoFar
<1> QED BY <1>9, <1>10, <1>12, <1>13 DEF IInv

\* The three steps that add a message in the middle of a turn.
LEMMA AddStep ==
  ASSUME IInv, NEW n \in 0..MaxCalls,
         ProviderToolCalls(n) \/ ExecuteTool \/ ProviderFinal
  PROVE  IInv'
<1> DEFINE role == IF ExecuteTool THEN "tool" ELSE "assistant"
           k == IF ProviderToolCalls(n) THEN n ELSE 0
           m == Msg(role, turn, iter, k)
<1>0. /\ messages \in Seq(Message) /\ Len(messages) \in Nat
      /\ turn \in 0..MaxTurns /\ iter \in 0..max_iterations
      /\ calls \in 0..MaxCalls
  BY AgentAssumption DEF IInv, TypeOK
<1>1. /\ pc # "idle" /\ messages' = agent_add_message(messages, m)
      /\ UNCHANGED <<iter, pre_turn_count, turn>>
      /\ pc = "tools" /\ calls > 0 => m = Msg("tool", turn, iter, 0)
      /\ m.calls = k
  BY DEF ProviderToolCalls, ExecuteTool, ProviderFinal, EndTurn, Msg
<1>2. m \in Message /\ m.role # "system" /\ m.turn = turn
  BY <1>0, AgentAssumption DEF Msg, Message, Roles
<1>3. /\ pc' \in {"idle", "tools"} /\ calls' \in 0..MaxCalls
      /\ reply' \in Replies
      /\ pc' = "tools" =>
           \/ pc = "provider" /\ calls' = k /\ k = n
           \/ pc = "tools" /\ calls > 0 /\ calls' = calls - 1 /\ k = 0
  <2>1. CASE ProviderToolCalls(n)
    BY <2>1, <1>0 DEF ProviderToolCalls, IInv, TypeOK
  <2>2. CASE ExecuteTool
    <3>1. ~ProviderToolCalls(n)
      BY <2>2 DEF ProviderToolCalls, ExecuteTool
    <3> QED BY <2>2, <3>1, <1>0, AgentAssumption DEF ExecuteTool, IInv, TypeOK
  <2>3. CASE ProviderFinal
    BY <2>3, <1>0 DEF ProviderFinal, EndTurn, Replies
  <2> QED BY <2>1, <2>2, <2>3
<1> HIDE DEF role, k, m
<1>4. /\ messages' \in Seq(Message)
      /\ HistoryFits' /\ SystemFirst' /\ SystemAsksNothing'
      /\ Len(messages') >= 1
      /\ \A i \in DOMAIN messages' :
           /\ messages'[i].turn <= turn
           /\ messages'[i].turn < turn => i <= pre_turn_count
  BY <1>1, <1>2, AppendInTurn
<1>5. TypeOK'
  BY <1>1, <1>3, <1>4 DEF IInv, TypeOK
<1>6. Started' /\ EarlierBelow'
  BY <1>1, <1>3, <1>4 DEF IInv, Started, EarlierBelow
<1>7. AnsweredSoFar'
  <2> SUFFICES ASSUME pc' # "idle", NEW i \in DOMAIN messages',
                      messages'[i].turn = turn, HasToolCalls(messages'[i])
               PROVE  /\ \A j \in (i + 1)..(i + messages'[i].calls) :
                           j \in DOMAIN messages' =>
                             messages'[j] = Msg("tool", turn, messages'[i].iter, 0)
                      /\ \/ i + messages'[i].calls <= Len(messages')
                         \/ /\ pc' = "tools" /\ messages'[i].iter = iter
                            /\ i + messages'[i].calls = Len(messages') + calls'
    BY <1>1 DEF AnsweredSoFar
  <2>1. PICK d \in Nat : Extended(messages, m, messages', d)
    BY <1>0, <1>1, <1>2, AddExtends
  <2>2. DOMAIN messages' = 1..Len(messages') /\ Len(messages') = Len(messages) - d + 1
        /\ i \in Nat /\ Len(messages') \in Nat
    BY <2>1, <1>0, <1>4 DEF Extended
  <2>3. messages'[i].calls \in Nat
    <3>1. messages'[i] \in Message
      BY <1>4, ElementOfSeq
    <3> QED BY <3>1, AgentAssumption DEF Message
  <2>4. CASE i = Len(messages) - d + 1
    <3>1. messages'[i] = m
      BY <2>1, <2>4 DEF Extended
    <3>2. k > 0
      BY <3>1, <1>1 DEF HasToolCalls
    <3>3. pc' = "tools" /\ calls' = k
      BY <3>2, <1>3
    <3>4. m.iter = iter
      BY DEF m, Msg
    <3>5. i + messages'[i].calls = Len(messages') + calls'
      BY <3>1, <3>3, <2>2, <2>4, <1>1
    <3>6. \A j \in (i + 1)..(i + messages'[i].calls) : j \notin DOMAIN messages'
      BY <2>2, <2>3, <2>4
    <3> QED BY <3>1, <3>3, <3>4, <3>5, <3>6
  <2>5. CASE i # Len(messages) - d + 1
    <3>1. i <= Len(messages) - d
      BY <2>2, <2>5, <1>0
    <3>2. /\ \A j \in (i + 1)..(i + messages'[i].calls) :
               j \in DOMAIN messages' =>
                 messages'[j] = Msg("tool", turn, messages'[i].iter, 0)
          /\ \/ i + messages'[i].calls <= Len(messages') - 1
             \/ /\ pc = "tools" /\ messages'[i].iter = iter
                /\ i + messages'[i].calls = Len(messages') - 1 + calls
      BY <2>1, <3>1, <1>1, <1>2, AppendKeepsAnswers
    <3>3. CASE i + messages'[i].calls <= Len(messages') - 1
      BY <3>2, <3>3, <2>2, <2>3
    <3>4. CASE /\ pc = "tools" /\ messages'[i].iter = iter
               /\ i + messages'[i].calls = Len(messages') - 1 + calls
      <4>1. pc' = "tools" /\ calls' = calls - 1
        BY <3>4, <1>3
      <4>2. i + messages'[i].calls = Len(messages') + calls'
        BY <4>1, <3>4, <2>2, <2>3, <1>0
      <4> QED BY <4>1, <4>2, <3>2, <3>4
    <3> QED BY <3>2, <3>3, <3>4
  <2> QED BY <2>4, <2>5
<1> QED BY <1>4, <1>5, <1>6, <1>7 DEF IInv

\* The steps that leave the history alone.
LEMMA ControlStep ==
  ASSUME IInv, CallProvider \/ NextIteration \/ EmptyMessage
  PROVE  IInv'
<1>0. messages \in Seq(Message) /\ Len(messages) \in Nat
  BY DEF IInv, TypeOK
<1>1. UNCHANGED <<messages, pre_turn_count, turn, calls>>
  BY DEF CallProvider, NextIteration, EmptyMessage
<1>2. TypeOK'
  <2>1. CASE CallProvider
    BY <2>1, <1>1 DEF IInv, TypeOK, CallProvider
  <2>2. CASE EmptyMessage
    BY <2>2, <1>1 DEF IInv, TypeOK, EmptyMessage, Replies
  <2>3. CASE NextIteration
    BY <2>3, <1>1, AgentAssumption DEF IInv, TypeOK, Started, NextIteration
  <2> QED BY <2>1, <2>2, <2>3
<1>3. HistoryFits' /\ SystemFirst' /\ SystemAsksNothing'
  BY <1>1 DEF IInv, HistoryFits, SystemFirst, SystemAsksNothing
<1>4. Started' /\ EarlierBelow'
  BY <1>1 DEF IInv, Started, EarlierBelow, CallProvider, NextIteration,
              EmptyMessage
<1>5. AnsweredSoFar'
  <2>1. CASE CallProvider
    BY <2>1, <1>1 DEF IInv, AnsweredSoFar, CallProvider
  <2>2. CASE EmptyMessage
    BY <2>2, <1>1 DEF AnsweredSoFar, EmptyMessage
  <2>3. CASE NextIteration
    BY <2>3, <1>0, <1>1 DEF IInv, AnsweredSoFar, NextIteration
  <2> QED BY <2>1, <2>2, <2>3
<1> QED BY <1>2, <1>3, <1>4, <1>5 DEF IInv

----------------------------------------------------------------------------
(* The theorems *)

\* The invariant is inductive.
THEOREM Inductive == Spec => []IInv
<1>1. Init => IInv
  BY AgentAssumption, LimitBounds
     DEF Init, IInv, TypeOK, HistoryFits, SystemFirst, Started,
         SystemAsksNothing, EarlierBelow, AnsweredSoFar, Replies
<1>2. IInv /\ [Next]_vars => IInv'
  <2> SUFFICES ASSUME IInv, [Next]_vars PROVE IInv'
    OBVIOUS
  <2>1. CASE BeginTurn
    BY <2>1, BeginTurnStep
  <2>2. CASE EmptyMessage \/ CallProvider \/ NextIteration
    BY <2>2, ControlStep
  <2>3. CASE NewConversation
    BY <2>3, AgentAssumption, LimitBounds
       DEF NewConversation, IInv, TypeOK, HistoryFits, SystemFirst, Started,
           SystemAsksNothing, EarlierBelow, AnsweredSoFar
  <2>4. CASE ProviderError
    BY <2>4, RollbackStep DEF ProviderError, Replies
  <2>5. CASE MaxIterationsReached
    BY <2>5, RollbackStep DEF MaxIterationsReached, Replies
  <2>6. ASSUME NEW n \in 1..MaxCalls, ProviderToolCalls(n) PROVE IInv'
    <3>1. n \in 0..MaxCalls
      BY AgentAssumption
    <3> QED BY <2>6, <3>1, AddStep
  <2>7. CASE ExecuteTool
    <3>1. 0 \in 0..MaxCalls
      BY AgentAssumption
    <3> QED BY <2>7, <3>1, AddStep
  <2>8. CASE ProviderFinal
    <3>1. 0 \in 0..MaxCalls
      BY AgentAssumption
    <3> QED BY <2>8, <3>1, AddStep
  <2>9. CASE UNCHANGED vars
    BY <2>9 DEF vars, IInv, TypeOK, HistoryFits, SystemFirst, Started,
                SystemAsksNothing, EarlierBelow, AnsweredSoFar
  <2> QED BY <2>1, <2>2, <2>3, <2>4, <2>5, <2>6, <2>7, <2>8, <2>9
          DEF Next, ChatStep
<1> QED BY <1>1, <1>2, PTL DEF Spec

\* The history never outgrows the array nor the configured limit: the write
\* messages[message_count++] in agent_add_message is in bounds whatever the
\* provider answers and however the limit is configured.
THEOREM HistoryAlwaysFits == Spec => []HistoryFits
<1>1. IInv => HistoryFits
  BY DEF IInv
<1> QED BY <1>1, Inductive, PTL

\* Compactions and rollbacks never lose or repeat the system prompt.
THEOREM SystemAlwaysFirst == Spec => []SystemFirst
<1>1. IInv => SystemFirst
  BY DEF IInv
<1> QED BY <1>1, Inductive, PTL

\* Variables keep their types.
THEOREM TypeCorrect == Spec => []TypeOK
<1>1. IInv => TypeOK
  BY DEF IInv
<1> QED BY <1>1, Inductive, PTL

\* Within a turn the provider never sees a request of that turn without all
\* of its results, even when the history is compacted between two results.
THEOREM RequestsAlwaysAnswered == Spec => []RequestsOfTurnAnswered
<1>1. IInv => RequestsOfTurnAnswered
  <2> SUFFICES ASSUME IInv, pc = "provider", NEW i \in DOMAIN messages,
                      messages[i].turn = turn, HasToolCalls(messages[i]),
                      NEW j \in (i + 1)..(i + messages[i].calls)
               PROVE  /\ j \in DOMAIN messages
                      /\ messages[j] = Msg("tool", turn, messages[i].iter, 0)
    BY DEF RequestsOfTurnAnswered
  <2>1. messages \in Seq(Message) /\ Len(messages) \in Nat
        /\ DOMAIN messages = 1..Len(messages)
    BY DEF IInv, TypeOK
  <2>2. messages[i].calls \in Nat /\ i \in Nat
    <3>1. messages[i] \in Message
      BY <2>1, ElementOfSeq
    <3> QED BY <3>1, <2>1, AgentAssumption DEF Message
  <2>3. i + messages[i].calls <= Len(messages)
    BY DEF IInv, AnsweredSoFar
  <2>4. j \in DOMAIN messages
    BY <2>1, <2>2, <2>3
  <2> QED BY <2>4 DEF IInv, AnsweredSoFar
<1> QED BY <1>1, Inductive, PTL

\* A turn that fails never removes a message of an earlier turn, although the
\* count it rolls back to is not adjusted by the compactions in between.
THEOREM RollbackSafe == Spec => RollbackKeepsEarlierTurns
<1>1. IInv /\ [Next]_vars => [FailedTurnKeepsEarlier]_vars
  <2> SUFFICES ASSUME IInv, Next, pc # "idle", pc' = "idle", reply' # "final",
                      NEW i \in DOMAIN messages, messages[i].turn < turn
               PROVE  i \in DOMAIN messages' /\ messages'[i] = messages[i]
    BY DEF FailedTurnKeepsEarlier
  <2>0. messages \in Seq(Message) /\ Len(messages) \in Nat
        /\ DOMAIN messages = 1..Len(messages) /\ pre_turn_count \in Nat
    BY DEF IInv, TypeOK
  <2>1. messages' = RollbackTo(messages, pre_turn_count)
    BY DEF Next, ChatStep, BeginTurn, EmptyMessage, NewConversation,
           CallProvider, ProviderError, ProviderToolCalls, ExecuteTool,
           NextIteration, ProviderFinal, MaxIterationsReached, EndTurn
  <2>2. i <= pre_turn_count
    BY DEF IInv, EarlierBelow
  <2>3. /\ messages' \in Seq(Message)
        /\ DOMAIN messages' = 1..Len(messages')
        /\ Len(messages') = IF Len(messages) > pre_turn_count
                            THEN pre_turn_count ELSE Len(messages)
        /\ \A k \in 1..Len(messages') : messages'[k] = messages[k]
    BY <2>0, <2>1, RollbackPrefix
  <2> QED BY <2>0, <2>2, <2>3
<1> QED BY <1>1, Inductive, PTL DEF Spec, RollbackKeepsEarlierTurns
=============================================================================
