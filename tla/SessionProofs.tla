--------------------------- MODULE SessionProofs ---------------------------
(***************************************************************************)
(* For a table of any size, any hash and any number of chats: one session  *)
(* per chat, isolated conversations, an exact count.                       *)
(***************************************************************************)
EXTENDS Session, FiniteSetTheorems, WellFoundedInduction, TLAPS

----------------------------------------------------------------------------
(* The inductive invariant, stated of a table so that it applies to the one *)
(* between the eviction and the second search too                           *)

Occupied(table) == {i \in Slots : table[i].in_use}

Good(table) ==
  /\ table \in [Slots -> SessionRecord]
  /\ \A i, j \in Occupied(table) : table[i].key = table[j].key => i = j
  /\ \A i \in Occupied(table) : table[i].agent \subseteq {table[i].key}

IInv ==
  /\ TypeOK
  /\ Good(slots)
  /\ count = Cardinality(Occupied(slots))
  /\ held # -1 => slots[held].in_use /\ slots[held].key = chat /\ chat # None

----------------------------------------------------------------------------
(* Probing *)

LEMMA SlotsFacts == SESSION_MAX \in Nat \ {0} /\ Slots \subseteq Nat
                    /\ -1 \notin Slots
BY SessionAssumption DEF Slots

\* A probe stays within the table.
LEMMA ProbeRange ==
  ASSUME NEW key \in Chats, NEW i \in Slots PROVE Probe(key, i) \in Slots
<1>1. Hash[key] \in Slots
  BY SessionAssumption
<1> QED BY <1>1, SessionAssumption, SMT DEF Probe, Slots

\* SESSION_MAX probes reach every slot.
LEMMA ProbeCovers ==
  ASSUME NEW key \in Chats, NEW j \in Slots
  PROVE  \E i \in Slots : Probe(key, i) = j
<1> DEFINE h == Hash[key]
<1>1. h \in Slots
  BY SessionAssumption
<1> HIDE DEF h
<1>2. CASE h <= j
  <2>1. j - h \in Slots /\ h + (j - h) = j
    BY <1>1, <1>2, SessionAssumption DEF Slots
  <2>2. j % SESSION_MAX = j
    BY SessionAssumption, SMT DEF Slots
  <2>3. (h + (j - h)) % SESSION_MAX = j
    BY <2>1, <2>2
  <2> QED BY <2>1, <2>3 DEF Probe, h
<1>3. CASE ~(h <= j)
  <2>1. j - h + SESSION_MAX \in Slots
        /\ h + (j - h + SESSION_MAX) = j + SESSION_MAX
    BY <1>1, <1>3, SessionAssumption DEF Slots
  <2>2. (j + SESSION_MAX) % SESSION_MAX = j
    BY SessionAssumption, SMT DEF Slots
  <2>3. (h + (j - h + SESSION_MAX)) % SESSION_MAX = j
    BY <2>1, <2>2
  <2> QED BY <2>1, <2>3 DEF Probe, h
<1> QED BY <1>2, <1>3

LEMMA LeastExists ==
  ASSUME NEW S, S \subseteq Slots, S # {} PROVE Least(S) \in S
<1>1. S \subseteq Nat
  BY SlotsFacts
<1>2. PICK s \in S : \A u \in S : ~(<<u, s>> \in OpToRel(<, Nat))
  BY <1>1, NatLessThanWellFounded, WFMin
<1>3. \A u \in S : ~(u < s)
  BY <1>1, <1>2 DEF OpToRel
<1>4. ASSUME NEW u \in S PROVE s <= u
  <2>1. u \in Nat /\ s \in Nat /\ ~(u < s)
    BY <1>1, <1>2, <1>3
  <2> QED BY <2>1
<1> QED BY <1>2, <1>4 DEF Least

\* What find_slot returns: the key's slot if it has one, else an empty slot,
\* else -1 because every slot is taken.
LEMMA FindSlot ==
  ASSUME NEW table, NEW key \in Chats
  PROVE  LET r == find_slot(table, key) IN
         /\ r \in Slots \cup {-1}
         /\ r # -1 /\ table[r].in_use => table[r].key = key
         /\ r = -1 \/ ~table[r].in_use =>
              \A j \in Occupied(table) : table[j].key # key
         /\ r = -1 => \A j \in Slots : table[j].in_use
<1> DEFINE r == find_slot(table, key)
           hits == {i \in Slots : table[Probe(key, i)].in_use
                                    /\ table[Probe(key, i)].key = key}
           empty == {i \in Slots : ~table[Probe(key, i)].in_use}
<1>1. CASE hits # {}
  <2>1. r = Probe(key, Least(hits))
    BY <1>1 DEF find_slot
  <2>2. Least(hits) \in hits
    BY <1>1, LeastExists
  <2>3. r \in Slots /\ table[r].in_use /\ table[r].key = key
    BY <2>1, <2>2, ProbeRange
  <2> HIDE DEF r
  <2>4. r # -1
    BY <2>3, SlotsFacts
  <2> QED BY <2>3, <2>4 DEF r
<1>2. CASE hits = {}
  <2>1. ASSUME NEW j \in Occupied(table) PROVE table[j].key # key
    <3>1. PICK i \in Slots : Probe(key, i) = j
      BY ProbeCovers DEF Occupied
    <3> QED BY <3>1, <1>2 DEF Occupied
  <2>2. CASE empty # {}
    <3>1. r = Probe(key, Least(empty))
      BY <1>2, <2>2 DEF find_slot
    <3>2. Least(empty) \in empty
      BY <2>2, LeastExists
    <3>3. r \in Slots /\ ~table[r].in_use
      BY <3>1, <3>2, ProbeRange
    <3> HIDE DEF r
    <3>4. r # -1
      BY <3>3, SlotsFacts
    <3> QED BY <2>1, <3>3, <3>4 DEF r
  <2>3. CASE empty = {}
    <3>1. r = -1
      BY <1>2, <2>3 DEF find_slot
    <3>2. ASSUME NEW j \in Slots PROVE table[j].in_use
      <4>1. PICK i \in Slots : Probe(key, i) = j
        BY ProbeCovers
      <4> QED BY <4>1, <2>3
    <3> HIDE DEF r
    <3> QED BY <2>1, <3>1, <3>2 DEF r
  <2> QED BY <2>2, <2>3
<1> QED BY <1>1, <1>2

----------------------------------------------------------------------------
(* Eviction and search *)

LEMMA OccupiedFinite ==
  ASSUME NEW table
  PROVE  /\ IsFiniteSet(Occupied(table))
         /\ Cardinality(Occupied(table)) \in 0..SESSION_MAX
<1>1. IsFiniteSet(Slots) /\ Cardinality(Slots) = SESSION_MAX
  <2>1. 0 \in Int /\ SESSION_MAX - 1 \in Int /\ ~(0 > SESSION_MAX - 1)
        /\ SESSION_MAX - 1 - 0 + 1 = SESSION_MAX
    BY SessionAssumption
  <2> QED BY <2>1, FS_Interval DEF Slots
<1>2. /\ IsFiniteSet(Occupied(table))
      /\ Cardinality(Occupied(table)) <= Cardinality(Slots)
  BY <1>1, FS_Subset DEF Occupied
<1>3. Cardinality(Occupied(table)) \in Nat
  BY <1>2, FS_CardinalityType
<1> QED BY <1>1, <1>2, <1>3, SessionAssumption

LEMMA EvictKeepsGood ==
  ASSUME Good(slots), count = Cardinality(Occupied(slots))
  PROVE  /\ Good(evict_locked(slots))
         /\ CountAfterEvict(slots) = Cardinality(Occupied(evict_locked(slots)))
<1> DEFINE t == evict_locked(slots)
           stale == {i \in Slots : Stale(slots, i)}
<1>1. Empty \in SessionRecord /\ ~Empty.in_use
  BY DEF Empty, SessionRecord
<1>2. t \in [Slots -> SessionRecord]
  BY <1>1 DEF evict_locked, Good
<1>3. /\ Occupied(t) = Occupied(slots) \ stale
      /\ \A i \in Occupied(t) : t[i] = slots[i]
  BY <1>1 DEF Occupied, evict_locked
<1>4. Good(t)
  <2> HIDE DEF t, stale
  <2> QED BY <1>2, <1>3 DEF Good
<1>5. CountAfterEvict(slots) = Cardinality(Occupied(t))
  <2>1. Occupied(slots) \cap stale = stale
    BY DEF Occupied, Stale
  <2>2. Cardinality(Occupied(slots) \ stale)
          = Cardinality(Occupied(slots)) - Cardinality(Occupied(slots) \cap stale)
    BY OccupiedFinite, FS_Difference
  <2> QED BY <1>3, <2>1, <2>2 DEF CountAfterEvict
<1> QED BY <1>4, <1>5

\* The search ends with a table as good as the one it began with and a slot
\* that is the chat's own, or is empty while the chat has none, or is -1.
LEMMA SearchResult ==
  ASSUME Good(slots), count = Cardinality(Occupied(slots)), NEW c \in Chats
  PROVE  LET s == Search(c) IN
         /\ Good(s.table)
         /\ s.count = Cardinality(Occupied(s.table))
         /\ s.idx \in Slots \cup {-1}
         /\ s.idx # -1 /\ s.table[s.idx].in_use => s.table[s.idx].key = c
         /\ s.idx # -1 /\ ~s.table[s.idx].in_use =>
              \A j \in Occupied(s.table) : s.table[j].key # c
<1>1. CASE find_slot(slots, c) # -1
  <2>1. /\ Search(c).table = slots /\ Search(c).count = count
        /\ Search(c).idx = find_slot(slots, c)
    BY <1>1 DEF Search
  <2> QED BY <2>1, FindSlot
<1>2. CASE find_slot(slots, c) = -1
  <2>1. /\ Search(c).table = evict_locked(slots)
        /\ Search(c).count = CountAfterEvict(slots)
        /\ Search(c).idx = find_slot(evict_locked(slots), c)
    BY <1>2 DEF Search
  <2> QED BY <2>1, FindSlot, EvictKeepsGood
<1> QED BY <1>1, <1>2
----------------------------------------------------------------------------
(* IInv is inductive *)

LEMMA InitInv == Init => IInv
<1> SUFFICES ASSUME Init PROVE IInv
  OBVIOUS
<1> DEFINE none == [i \in Slots |-> Empty]
           first == [in_use |-> TRUE, key |-> Cli, agent |-> {},
                     last_active |-> 0]
<1>1. Hash[Cli] \in Slots /\ -1 \notin Slots
  BY SessionAssumption, SlotsFacts
<1>2. /\ Empty \in SessionRecord /\ ~Empty.in_use
      /\ first \in SessionRecord /\ first.in_use /\ first.agent = {}
  BY SessionAssumption DEF Empty, SessionRecord
<1>3. CASE slots = none /\ count = 0
  <2>1. slots \in [Slots -> SessionRecord] /\ Occupied(slots) = {}
    BY <1>2, <1>3 DEF Occupied
  <2>2. Cardinality(Occupied(slots)) = 0
    BY <2>1, FS_EmptySet
  <2>3. Good(slots)
    BY <2>1 DEF Good
  <2> QED BY <1>3, <2>1, <2>2, <2>3, SessionAssumption DEF Init, IInv, TypeOK
<1>4. CASE slots = [none EXCEPT ![Hash[Cli]] = first] /\ count = 1
  <2> HIDE DEF first
  <2>1. slots \in [Slots -> SessionRecord] /\ Occupied(slots) = {Hash[Cli]}
        /\ slots[Hash[Cli]] = first
    BY <1>1, <1>2, <1>4 DEF Occupied
  <2>2. Cardinality(Occupied(slots)) = 1
    BY <2>1, FS_Singleton
  <2>3. Good(slots)
    BY <1>2, <2>1 DEF Good
  <2> HIDE DEF none
  <2>4. now \in 0..MaxTime /\ held = -1 /\ chat = None
    BY SessionAssumption DEF Init
  <2>5. TypeOK
    BY <1>4, <2>1, <2>4, SessionAssumption DEF TypeOK
  <2> QED BY <1>4, <2>2, <2>3, <2>4, <2>5 DEF IInv
<1> QED BY <1>3, <1>4 DEF Init

LEMMA ExistingStep ==
  ASSUME IInv, NEW c \in Chats, GetExisting(c) PROVE IInv'
<1> DEFINE s == Search(c)
<1>1. /\ Good(s.table) /\ s.count = Cardinality(Occupied(s.table))
      /\ s.idx \in Slots \cup {-1}
      /\ s.idx # -1 /\ s.table[s.idx].in_use => s.table[s.idx].key = c
  BY SearchResult DEF IInv
<1> HIDE DEF s
<1>2. /\ slots' = s.table /\ count' = s.count /\ held' = s.idx /\ chat' = c
      /\ now' = now /\ s.idx # -1 /\ s.table[s.idx].in_use
  BY DEF GetExisting, s
<1>3. Good(slots') /\ count' = Cardinality(Occupied(slots')) /\ count' \in 0..SESSION_MAX
  BY <1>1, <1>2, OccupiedFinite
<1>4. TypeOK'
  BY <1>1, <1>2, <1>3 DEF IInv, TypeOK, Good
<1>5. slots'[held'].in_use /\ slots'[held'].key = chat' /\ chat' # None
  BY <1>1, <1>2, SessionAssumption
<1> QED BY <1>3, <1>4, <1>5 DEF IInv, Good, Occupied

LEMMA CreateStep ==
  ASSUME IInv, NEW c \in Chats, CreateSession(c) PROVE IInv'
<1> DEFINE s == Search(c)
           t == s.table
           k == s.idx
           new == NewSession(c)
<1>1. /\ Good(t) /\ s.count = Cardinality(Occupied(t))
      /\ k \in Slots \cup {-1}
      /\ k # -1 /\ ~t[k].in_use => \A j \in Occupied(t) : t[j].key # c
  BY SearchResult DEF IInv
<1>2. /\ slots' = [t EXCEPT ![k] = new] /\ count' = s.count + 1 /\ held' = k
      /\ chat' = c /\ now' = now /\ k # -1 /\ ~t[k].in_use
  BY DEF CreateSession
<1>3. new \in SessionRecord /\ new.in_use /\ new.key = c /\ new.agent = {}
  <2>1. now \in Nat
    BY SessionAssumption DEF IInv, TypeOK
  <2> QED BY <2>1 DEF NewSession, SessionRecord
<1> HIDE DEF s, t, k, new
<1>4. k \in Slots
  BY <1>1, <1>2
<1>5. /\ slots' \in [Slots -> SessionRecord] /\ slots'[k] = new
      /\ \A i \in Slots : i # k => slots'[i] = t[i]
  BY <1>1, <1>2, <1>3, <1>4 DEF Good
<1>6. Occupied(slots') = Occupied(t) \cup {k} /\ k \notin Occupied(t)
  BY <1>2, <1>3, <1>4, <1>5 DEF Occupied
<1>7. Good(slots')
  <2>1. ASSUME NEW i \in Occupied(slots'), NEW j \in Occupied(slots'),
               slots'[i].key = slots'[j].key
        PROVE  i = j
    BY <1>1, <1>2, <1>3, <1>5, <1>6, <2>1 DEF Good, Occupied
  <2>2. ASSUME NEW i \in Occupied(slots')
        PROVE  slots'[i].agent \subseteq {slots'[i].key}
    BY <1>1, <1>3, <1>5, <1>6 DEF Good, Occupied
  <2> QED BY <1>5, <2>1, <2>2 DEF Good
<1>8. count' = Cardinality(Occupied(slots')) /\ count' \in 0..SESSION_MAX
  <2>1. Cardinality(Occupied(t) \cup {k}) = Cardinality(Occupied(t)) + 1
    BY <1>6, OccupiedFinite, FS_AddElement
  <2>2. count' = Cardinality(Occupied(t)) + 1
    BY <1>1, <1>2
  <2>3. Cardinality(Occupied(slots')) = Cardinality(Occupied(t)) + 1
    BY <1>6, <2>1
  <2>4. Cardinality(Occupied(slots')) \in 0..SESSION_MAX
    BY OccupiedFinite
  <2> QED BY <2>2, <2>3, <2>4
<1>9. TypeOK'
  BY <1>2, <1>4, <1>5, <1>8 DEF IInv, TypeOK
<1>10. slots'[held'].in_use /\ slots'[held'].key = chat' /\ chat' # None
  BY <1>2, <1>3, <1>5, SessionAssumption
<1> QED BY <1>7, <1>8, <1>9, <1>10 DEF IInv, Good, Occupied

LEMMA NullStep ==
  ASSUME IInv, NEW c \in Chats, NEW f \in BOOLEAN, NoSession(c, f) PROVE IInv'
<1> DEFINE s == Search(c)
<1>1. Good(s.table) /\ s.count = Cardinality(Occupied(s.table))
  BY SearchResult DEF IInv
<1> HIDE DEF s
<1>2. /\ slots' = s.table /\ count' = s.count /\ held' = held /\ chat' = c
      /\ now' = now /\ held = -1
  BY DEF NoSession, s
<1>3. Good(slots') /\ count' = Cardinality(Occupied(slots')) /\ count' \in 0..SESSION_MAX
  BY <1>1, <1>2, OccupiedFinite
<1>4. TypeOK'
  BY <1>2, <1>3 DEF IInv, TypeOK, Good
<1> QED BY <1>2, <1>3, <1>4 DEF IInv, Good, Occupied

LEMMA ReleaseStep ==
  ASSUME IInv, ChatAndRelease PROVE IInv'
<1>1. /\ held \in Slots /\ slots[held].in_use /\ slots[held].key = chat
      /\ chat \in Chats /\ now \in Nat /\ count' = count
      /\ slots \in [Slots -> SessionRecord]
  BY SessionAssumption DEF IInv, TypeOK, ChatAndRelease
<1> DEFINE old == slots[held]
           new == AfterTurn(old)
<1>2. /\ new \in SessionRecord /\ new.in_use = old.in_use
      /\ new.key = old.key /\ new.agent = old.agent \cup {chat}
  <2>1. old \in SessionRecord
    BY <1>1
  <2> HIDE DEF old
  <2> QED BY <1>1, <2>1 DEF SessionRecord, AfterTurn
<1>3. /\ slots' \in [Slots -> SessionRecord]
      /\ \A i \in Slots : slots'[i].in_use = slots[i].in_use
                          /\ slots'[i].key = slots[i].key
      /\ slots'[held].agent = slots[held].agent \cup {chat}
      /\ \A i \in Slots : i # held => slots'[i].agent = slots[i].agent
  <2>1. slots' = [slots EXCEPT ![held] = new]
    BY DEF ChatAndRelease
  <2> HIDE DEF new
  <2> QED BY <1>1, <1>2, <2>1
<1>4. Occupied(slots') = Occupied(slots)
  BY <1>3 DEF Occupied
<1>5. Good(slots')
  <2>1. ASSUME NEW i \in Occupied(slots')
        PROVE  slots'[i].agent \subseteq {slots'[i].key}
    <3>1. i \in Slots /\ slots[i].agent \subseteq {slots[i].key}
      BY <1>4 DEF IInv, Good, Occupied
    <3>2. CASE i = held
      BY <1>1, <1>3, <3>1, <3>2
    <3>3. CASE i # held
      BY <1>3, <3>1, <3>3
    <3> QED BY <3>2, <3>3
  <2>2. \A i, j \in Occupied(slots') : slots'[i].key = slots'[j].key => i = j
    BY <1>3, <1>4 DEF IInv, Good, Occupied
  <2> QED BY <1>3, <2>1, <2>2 DEF Good
<1>6. count' = Cardinality(Occupied(slots'))
  BY <1>1, <1>4 DEF IInv
<1>7. TypeOK' /\ held' = -1
  BY <1>3 DEF IInv, TypeOK, ChatAndRelease
<1> QED BY <1>5, <1>6, <1>7 DEF IInv, Good, Occupied

\* Whatever order chats write in and however sessions are evicted in between,
\* the table keeps one isolated session per chat and an exact count.
THEOREM Inductive == Spec => []IInv
<1>1. IInv /\ [Next]_vars => IInv'
  <2> SUFFICES ASSUME IInv, [Next]_vars PROVE IInv'
    OBVIOUS
  <2>1. CASE UNCHANGED <<slots, count, held>> /\ chat' = None /\ held = -1
             /\ now' = now
    BY <2>1 DEF IInv, TypeOK, Good, Occupied
  <2>2. CASE Tick
    BY <2>2, SessionAssumption DEF Tick, IInv, TypeOK, Good, Occupied
  <2>3. CASE UNCHANGED vars
    BY <2>3 DEF vars, IInv, TypeOK, Good, Occupied
  <2> QED BY <2>1, <2>2, <2>3, ExistingStep, CreateStep, NullStep, ReleaseStep
          DEF Next, GiveUp
<1> QED BY <1>1, InitInv, PTL DEF Spec

\* The fields of every session keep their types and only a slot of the table
\* is ever handed to the worker.
THEOREM TypeCorrect == Spec => []TypeOK
<1>1. IInv => TypeOK
  BY DEF IInv
<1> QED BY <1>1, Inductive, PTL

\* No chat ever has two sessions.
THEOREM ChatHasOneSession == Spec => []OneSessionPerChat
<1>1. IInv => OneSessionPerChat
  BY DEF IInv, Good, Occupied, OneSessionPerChat, InUse
<1> QED BY <1>1, Inductive, PTL

\* No agent ever sees a message of another chat.
THEOREM ChatsIsolated == Spec => []Isolated
<1>1. IInv => Isolated
  BY DEF IInv, Good, Occupied, Isolated, InUse
<1> QED BY <1>1, Inductive, PTL

\* The count is the number of sessions.
THEOREM CountExact == Spec => []CountIsExact
<1>1. IInv => CountIsExact
  BY DEF IInv, Occupied, CountIsExact, InUse
<1> QED BY <1>1, Inductive, PTL

\* session_get_or_create returns NULL, the factory aside, only when the table
\* is full of other chats none of which has been idle for ttl_seconds.
THEOREM RefusalJustified == Spec => RefusedOnlyWhenBusy
<1>1. ASSUME IInv, NEW c \in Chats, NoSession(c, FALSE), NEW i \in Slots
      PROVE  /\ slots[i].in_use /\ slots[i].key # c
             /\ now - slots[i].last_active < ttl_seconds
  <2> DEFINE evicted == evict_locked(slots)
  <2>1. Search(c).idx = -1
    BY <1>1 DEF NoSession
  <2>2. find_slot(slots, c) = -1 /\ find_slot(evicted, c) = -1
    BY <2>1 DEF Search
  <2>3. slots[i].in_use /\ slots[i].key # c
    BY <2>2, FindSlot DEF Occupied
  <2>4. evicted[i].in_use
    BY <2>2, FindSlot
  <2>5. ~Stale(slots, i)
    BY <2>4 DEF evict_locked, Empty
  <2>6. now \in Int /\ slots[i].last_active \in Int /\ ttl_seconds \in Int
    BY <1>1, SessionAssumption DEF IInv, TypeOK, SessionRecord
  <2> QED BY <2>3, <2>5, <2>6 DEF Stale
<1> DEFINE Justified(c) == NoSession(c, FALSE) =>
             \A i \in Slots : /\ slots[i].in_use /\ slots[i].key # c
                              /\ now - slots[i].last_active < ttl_seconds
<1>2. IInv /\ [Next]_vars => [\A c \in Chats : Justified(c)]_vars
  BY <1>1
<1> QED BY <1>2, Inductive, PTL DEF Spec, RefusedOnlyWhenBusy
=============================================================================
