---------------------------- MODULE ProcessProofs ----------------------------
(***************************************************************************)
(* Proofs about what surrounds the path of a message, each part for every  *)
(* value of its constants: the email channel (any mail, mailbox, order of  *)
(* the server's answers, rules, file and number of commands and restarts), *)
(* the files of memory/ (any number of threads, legacy files, failures and *)
(* crashes; MEMORY.md is a map of facts), the terminal that the prompt and *)
(* the spinner share, and where the settings come from (any shell, .env    *)
(* and dobby.conf).                                                        *)
(***************************************************************************)
EXTENDS Mail, Memory, Main, FiniteSetTheorems, SequenceTheorems,
        NaturalsInduction, WellFoundedInduction, TLAPS

(* The email channel *)

PollRecord ==
  [pc : {"loop", "next", "fetch", "check", "publish"}, todo : Seq(Nat),
   uid : Nat, i : Nat]

PollTypes ==
  /\ inbox \in Seq(Mails)
  /\ poll \in PollRecord
  /\ last_uid \in Nat
  /\ published \in Seq(Nat)

\* The mail in the hands of process_uid is newer than all before it.
UidNew == poll.pc \in {"fetch", "check", "publish"} => poll.uid > last_uid

\* What went to the bus is not above last_uid, so it is never looked at again.
PublishedBelow == \A k \in DOMAIN published : published[k] <= last_uid

MailInv == PollTypes /\ UidNew /\ PublishedBelow /\ PublishedOnce

----------------------------------------------------------------------------
(* Operators *)

LEMMA PollFields ==
  ASSUME NEW p \in PollRecord
  PROVE  /\ p.todo \in Seq(Nat) /\ p.uid \in Nat /\ p.i \in Nat
         /\ p.pc \in {"loop", "next", "fetch", "check", "publish"}
  BY DEF PollRecord

\* An answer of the server is a sequence of numbers.
LEMMA SearchAnswers ==
  ASSUME inbox \in Seq(Mails), NEW uids \in AllPermutations(DOMAIN inbox)
  PROVE  uids \in Seq(Nat)
<1>1. DOMAIN inbox = 1..Len(inbox) /\ Len(inbox) \in Nat
  OBVIOUS
<1>2. Cardinality(DOMAIN inbox) \in Nat
  BY <1>1, FS_Interval, FS_CardinalityType
<1>3. uids \in [1..Cardinality(DOMAIN inbox) -> DOMAIN inbox]
  BY DEF AllPermutations
<1>4. uids \in [1..Cardinality(DOMAIN inbox) -> Nat]
  BY <1>1, <1>3
<1> QED BY <1>2, <1>4

\* An injective sequence stays one when a new value is appended.
LEMMA AppendNew ==
  ASSUME NEW s \in Seq(Nat), NEW e \in Nat, IsInjective(s),
         \A k \in DOMAIN s : s[k] < e
  PROVE  IsInjective(Append(s, e))
<1>1. /\ DOMAIN Append(s, e) = 1..(Len(s) + 1) /\ DOMAIN s = 1..Len(s)
      /\ Append(s, e)[Len(s) + 1] = e
      /\ \A k \in 1..Len(s) : Append(s, e)[k] = s[k] /\ s[k] \in Nat
      /\ Len(s) \in Nat
  OBVIOUS
<1>2. ASSUME NEW a \in 1..(Len(s) + 1), NEW b \in 1..(Len(s) + 1),
             Append(s, e)[a] = Append(s, e)[b]
      PROVE  a = b
  <2>1. CASE a <= Len(s) /\ b <= Len(s)
    BY <1>1, <1>2, <2>1 DEF IsInjective
  <2>2. CASE a = Len(s) + 1 /\ b <= Len(s)
    BY <1>1, <1>2, <2>2
  <2>3. CASE b = Len(s) + 1 /\ a <= Len(s)
    BY <1>1, <1>2, <2>3
  <2>4. CASE a = Len(s) + 1 /\ b = Len(s) + 1
    BY <2>4
  <2> QED BY <1>1, <2>1, <2>2, <2>3, <2>4
<1> QED BY <1>1, <1>2 DEF IsInjective

----------------------------------------------------------------------------
(* The poll thread *)

LEMMA IdleRecord == Idle \in PollRecord /\ Idle.pc = "loop"
  BY DEF Idle, PollRecord, NoMail

LEMMA MailStart == MailInit => MailInv
<1> SUFFICES ASSUME MailInit PROVE MailInv
  OBVIOUS
<1>0. inbox = <<>> /\ poll = Idle /\ last_uid = 0 /\ published = <<>>
  BY DEF MailInit
<1>1. PollTypes
  BY <1>0, IdleRecord DEF PollTypes
<1>2. UidNew /\ PublishedBelow /\ PublishedOnce
  BY <1>0, IdleRecord DEF UidNew, PublishedBelow, PublishedOnce, IsInjective
<1> QED BY <1>1, <1>2 DEF MailInv

\* A step that leaves the poll thread alone, except that mail may arrive.
LEMMA PollStill ==
  ASSUME MailInv, UNCHANGED <<poll, last_uid, published>>, inbox' \in Seq(Mails)
  PROVE  MailInv'
<1>1. PollTypes'
  BY DEF MailInv, PollTypes
<1>2. UidNew' /\ PublishedBelow'
  BY DEF MailInv, UidNew, PublishedBelow
<1>3. PublishedOnce'
  BY DEF MailInv, PublishedOnce
<1> QED BY <1>1, <1>2, <1>3 DEF MailInv

\* A step of the poll thread between the mails or within process_uid: last_uid
\* and the bus stay as they are.
LEMMA PollMoves ==
  ASSUME MailInv, UNCHANGED <<inbox, last_uid, published>>, poll' \in PollRecord,
         poll'.pc \in {"fetch", "check", "publish"} => poll'.uid > last_uid
  PROVE  MailInv'
<1>1. PollTypes'
  BY DEF MailInv, PollTypes
<1>2. UidNew' /\ PublishedBelow'
  BY DEF MailInv, UidNew, PublishedBelow
<1>3. PublishedOnce'
  BY DEF MailInv, PublishedOnce
<1> QED BY <1>1, <1>2, <1>3 DEF MailInv

LEMMA PollSearchStep == ASSUME MailInv, PollSearch PROVE MailInv'
<1>1. PICK uids \in AllPermutations(DOMAIN inbox) :
        poll' = [poll EXCEPT !.pc = "next", !.todo = uids]
  BY DEF PollSearch
<1>2. uids \in Seq(Nat) /\ poll \in PollRecord
  BY SearchAnswers DEF MailInv, PollTypes
<1>3. poll' \in PollRecord /\ poll'.pc = "next"
  BY <1>1, <1>2 DEF PollRecord
<1> QED BY <1>3, PollMoves DEF PollSearch

LEMMA PollNextStep == ASSUME MailInv, PollNext PROVE MailInv'
<1>0. poll \in PollRecord /\ poll.todo \in Seq(Nat) /\ poll.pc = "next"
      /\ UNCHANGED <<inbox, last_uid, published>>
  BY PollFields DEF MailInv, PollTypes, PollNext
<1>1. CASE poll.todo = <<>>
  BY <1>0, <1>1, IdleRecord, PollMoves DEF PollNext
<1>2. CASE poll.todo # <<>>
  <2>1. Tail(poll.todo) \in Seq(Nat) /\ Head(poll.todo) \in Nat
    BY <1>0, <1>2
  <2>2. CASE Head(poll.todo) > last_uid
    <3>1. poll' = [poll EXCEPT !.pc = "fetch", !.todo = Tail(@), !.uid = Head(poll.todo)]
      BY <1>2, <2>2 DEF PollNext
    <3>2. poll' \in PollRecord /\ poll'.uid = Head(poll.todo)
      BY <1>0, <2>1, <3>1 DEF PollRecord
    <3> QED BY <1>0, <2>2, <3>2, PollMoves
  <2>3. CASE ~(Head(poll.todo) > last_uid)
    <3>1. poll' = [poll EXCEPT !.todo = Tail(@)]
      BY <1>2, <2>3 DEF PollNext
    <3>2. poll' \in PollRecord /\ poll'.pc = "next"
      BY <1>0, <2>1, <3>1 DEF PollRecord
    <3> QED BY <1>0, <3>2, PollMoves
  <2> QED BY <2>2, <2>3
<1> QED BY <1>1, <1>2

\* process_uid has returned: with the mail on the bus or not, last_uid is its
\* number now.
LEMMA ProcessedStep ==
  ASSUME MailInv, poll.pc \in {"fetch", "check", "publish"}, Processed,
         UNCHANGED inbox,
         published' = published \/ published' = Append(published, poll.uid)
  PROVE  MailInv'
<1>0. /\ poll \in PollRecord /\ poll.uid \in Nat /\ last_uid \in Nat
      /\ poll.uid > last_uid /\ published \in Seq(Nat)
  BY PollFields DEF MailInv, PollTypes, UidNew
<1>1. last_uid' = poll.uid
  BY <1>0 DEF Processed
<1>2. poll' \in PollRecord /\ poll'.pc = "next"
  BY <1>0 DEF Processed, PollRecord, NoMail
<1>3. PollTypes' /\ UidNew'
  <2>1. published' \in Seq(Nat)
    BY <1>0
  <2>2. inbox' \in Seq(Mails)
    BY DEF MailInv, PollTypes
  <2>3. PollTypes'
    BY <1>0, <1>1, <1>2, <2>1, <2>2 DEF PollTypes
  <2> QED BY <1>2, <2>3 DEF UidNew
<1>4. \A k \in DOMAIN published : published[k] \in Nat /\ published[k] < poll.uid
  BY <1>0 DEF MailInv, PublishedBelow
<1>5. PublishedBelow'
  <2>1. \A k \in DOMAIN published : published[k] <= poll.uid
    <3> SUFFICES ASSUME NEW k \in DOMAIN published PROVE published[k] <= poll.uid
      OBVIOUS
    <3>1. published[k] \in Nat /\ published[k] < poll.uid
      BY <1>4, Zenon
    <3> QED BY <1>0, <3>1
  <2>2. CASE published' = published
    BY <1>1, <2>1, <2>2, Zenon DEF PublishedBelow
  <2>3. CASE published' = Append(published, poll.uid)
    <3> SUFFICES ASSUME NEW k \in DOMAIN published' PROVE published'[k] <= poll.uid
      BY <1>1, Zenon DEF PublishedBelow
    <3>1. k \in DOMAIN published \/ published'[k] = poll.uid
      BY <1>0, <2>3
    <3>2. CASE k \in DOMAIN published
      <4>1. published'[k] = published[k]
        BY <1>0, <2>3, <3>2
      <4> QED BY <2>1, <3>2, <4>1, Zenon
    <3>3. CASE published'[k] = poll.uid
      BY <1>0, <3>3
    <3> QED BY <3>1, <3>2, <3>3, Zenon
  <2> QED BY <2>2, <2>3, Zenon
<1>6. PublishedOnce'
  BY <1>0, <1>4, AppendNew DEF MailInv, PublishedOnce
<1> QED BY <1>3, <1>5, <1>6 DEF MailInv

LEMMA PollStep == ASSUME MailInv, Poll PROVE MailInv'
<1>0. poll \in PollRecord /\ poll.i \in Nat /\ UidNew
  BY PollFields DEF MailInv, PollTypes
<1>1. CASE FetchNothing \/ Blocked \/ PollPublish
  BY <1>1, ProcessedStep DEF FetchNothing, Blocked, PollPublish
<1>2. CASE Fetch
  <2>1. PICK to \in {"check", "publish"} : poll' = [poll EXCEPT !.pc = to, !.i = 1]
    BY <1>2 DEF Fetch
  <2>2. poll' \in PollRecord /\ poll'.uid = poll.uid
    BY <1>0, <2>1 DEF PollRecord
  <2> QED BY <1>0, <1>2, <2>2, PollMoves DEF Fetch, UidNew
<1>3. CASE CheckRule
  <2>1. \/ poll' = [poll EXCEPT !.pc = "publish"]
        \/ poll' = [poll EXCEPT !.i = @ + 1]
    BY <1>3 DEF CheckRule
  <2>2. poll' \in PollRecord /\ poll'.uid = poll.uid
    BY <1>0, <2>1 DEF PollRecord
  <2> QED BY <1>0, <1>3, <2>2, PollMoves DEF CheckRule, UidNew
<1> QED BY <1>1, <1>2, <1>3, PollSearchStep, PollNextStep DEF Poll

LEMMA MailStep == ASSUME MailInv, [MailNext]_mailVars PROVE MailInv'
<1>0. inbox \in Seq(Mails)
  BY DEF MailInv, PollTypes
<1>1. ASSUME NEW m \in Mails, Arrive(m) PROVE MailInv'
  BY <1>0, <1>1, PollStill DEF Arrive, pollVars
<1>2. ASSUME NEW s \in Tools, NEW a \in Addresses, SendAsk(s, a) PROVE MailInv'
  BY <1>0, <1>2, PollStill DEF SendAsk, pollVars
<1>3. ASSUME NEW uid, email_send(uid) PROVE MailInv'
  BY <1>0, <1>3, PollStill DEF email_send, pollVars
<1>4. ASSUME NEW p \in Patterns, cmd_email_allow(p) \/ cmd_email_deny(p)
      PROVE  MailInv'
  BY <1>0, <1>4, PollStill DEF cmd_email_allow, cmd_email_deny, pollVars
<1>5. CASE DenyShift \/ SaveOpen \/ SaveWrite
  BY <1>0, <1>5, PollStill DEF DenyShift, SaveOpen, SaveWrite, pollVars
<1>8. ASSUME NEW s, \/ email_channel_send_direct(s) \/ SendCheck(s)
                     \/ SendBlocked(s) \/ smtp_send(s)
      PROVE  MailInv'
  BY <1>0, <1>8, PollStill DEF email_channel_send_direct, SendCheck, SendBlocked,
       smtp_send, pollVars
<1>9. CASE SkillsReload
  <2>1. /\ poll \in PollRecord /\ poll' = [poll EXCEPT !.todo = <<>>]
        /\ UNCHANGED <<inbox, last_uid, published>>
    BY <1>9 DEF SkillsReload, MailInv, PollTypes
  <2>2. poll' \in PollRecord /\ poll'.pc = poll.pc /\ poll'.uid = poll.uid
    <3>1. <<>> \in Seq(Nat)
      OBVIOUS
    <3> QED BY <2>1, <3>1 DEF PollRecord
  <2>3. poll'.pc \in {"fetch", "check", "publish"} => poll'.uid > last_uid
    BY <2>2 DEF MailInv, UidNew
  <2> QED BY <2>1, <2>2, <2>3, PollMoves, Zenon
<1>6. CASE Restart
  <2>1. poll' = Idle /\ last_uid' = 0 /\ published' = <<>> /\ inbox' = inbox
    BY <1>6 DEF Restart
  <2>2. PollTypes'
    BY <1>0, <2>1, IdleRecord DEF PollTypes
  <2>3. UidNew' /\ PublishedBelow' /\ PublishedOnce'
    BY <2>1, IdleRecord DEF UidNew, PublishedBelow, PublishedOnce, IsInjective
  <2> QED BY <2>2, <2>3 DEF MailInv
<1>7. CASE UNCHANGED mailVars
  BY <1>0, <1>7, PollStill DEF mailVars, pollVars
<1> QED BY <1>1, <1>2, <1>3, <1>4, <1>5, <1>6, <1>7, <1>8, <1>9, PollStep DEF MailNext

\* Between two starts no mail is given to the agent twice, in whatever order and
\* however often the server reports it, whatever fails and whoever changes the
\* rules meanwhile.
THEOREM MailPublishedOnce == MailSpec => []PublishedOnce
<1>1. MailInv => PublishedOnce
  BY DEF MailInv
<1> QED BY <1>1, MailStart, MailStep, PTL DEF MailSpec

----------------------------------------------------------------------------
(* Outgoing mail *)

SenderShape(s) ==
  s = [pc |-> s.pc, to |-> s.to, answers |-> s.answers, i |-> s.i,
       allowed |-> s.allowed, stale |-> s.stale]

\* A thread that checks or sends knows when the rules allow its address, and one
\* that sends has seen it, or has read a freed pattern.
Knows(s, list) ==
  /\ s.pc \in {"check", "send"} /\ allowlist_check(list, s.to) => s.allowed
  /\ s.pc = "send" => s.allowed \/ s.stale

SendInv ==
  /\ sender = [t \in Senders |-> sender[t]]
  /\ \A t \in Senders : SenderShape(sender[t]) /\ Knows(sender[t], email)

LEMMA NotSendingKnows ==
  ASSUME NEW list
  PROVE  /\ SenderShape(NotSending) /\ Knows(NotSending, list)
         /\ \A a : /\ SenderShape(Sending("asked", a, NoMail, FALSE))
                   /\ Knows(Sending("asked", a, NoMail, FALSE), list)
<1>1. ASSUME NEW pc \in {"idle", "asked"}, NEW a
      PROVE  /\ SenderShape(Sending(pc, a, NoMail, FALSE))
             /\ Knows(Sending(pc, a, NoMail, FALSE), list)
  <2> DEFINE s == Sending(pc, a, NoMail, FALSE)
  <2>1. s.pc = pc /\ SenderShape(s)
    BY DEF Sending, SenderShape
  <2> HIDE DEF s
  <2>2. s.pc \notin {"check", "send"}
    BY <2>1
  <2> QED BY <2>1, <2>2 DEF Knows, s
<1> QED BY <1>1, Zenon DEF NotSending

\* A call begins: without an enabled list it needs no rule.
LEMMA BeginKnows ==
  ASSUME NEW to, NEW answers
  PROVE  SenderShape(Begin(to, answers)) /\ Knows(Begin(to, answers), email)
<1> DEFINE b == Begin(to, answers)
<1>1. /\ b.allowed = allowlist_check(email, to) /\ b.to = to
      /\ b.pc = IF email.enabled THEN "check" ELSE "send"
  BY DEF Begin, Sending
<1>2. SenderShape(b)
  BY DEF Begin, Sending, SenderShape
<1> HIDE DEF b
<1>3. allowlist_check(email, b.to) => b.allowed
  BY <1>1
<1>4. b.pc = "send" => b.allowed
  BY <1>1 DEF allowlist_check
<1> QED BY <1>2, <1>3, <1>4, Zenon DEF Knows, b

LEMMA SendStart == MailInit => SendInv
<1> SUFFICES ASSUME MailInit PROVE SendInv
  OBVIOUS
<1>1. sender = [t \in Senders |-> NotSending]
  BY DEF MailInit
<1> QED BY <1>1, NotSendingKnows DEF SendInv

\* One thread takes a step, and the rules stay.
LEMMA OneSender ==
  ASSUME SendInv, UNCHANGED lists, NEW t, NEW s, SenderShape(s), Knows(s, email),
         sender' = [sender EXCEPT ![t] = s]
  PROVE  SendInv'
<1>1. email' = email
  BY DEF email
<1>2. sender' = [u \in Senders |-> sender'[u]]
  BY DEF SendInv
<1>3. \A u \in Senders : sender'[u] = IF u = t THEN s ELSE sender[u]
  BY DEF SendInv
<1>4. ASSUME NEW u \in Senders
      PROVE  SenderShape(sender'[u]) /\ Knows(sender'[u], email)
  <2>1. sender'[u] = s \/ sender'[u] = sender[u]
    BY <1>3
  <2> QED BY <2>1 DEF SendInv
<1> QED BY <1>1, <1>2, <1>4, Zenon DEF SendInv

LEMMA SendStill ==
  ASSUME SendInv, UNCHANGED <<lists, sender>>
  PROVE  SendInv'
BY DEF SendInv, email

\* The rules change, and the threads remember.
LEMMA Remembers ==
  ASSUME SendInv, Remember
  PROVE  SendInv'
<1>1. sender' = [t \in Senders |-> [sender[t] EXCEPT
                   !.allowed = @ \/ allowlist_check(email', sender[t].to)]]
  BY DEF Remember
<1>2. sender' = [u \in Senders |-> sender'[u]]
  BY <1>1
<1>3. ASSUME NEW u \in Senders
      PROVE  SenderShape(sender'[u]) /\ Knows(sender'[u], email')
  <2> DEFINE s == sender[u]
             n == sender'[u]
  <2>1. n = [s EXCEPT !.allowed = @ \/ allowlist_check(email', s.to)]
    BY <1>1
  <2>2. s = [pc |-> s.pc, to |-> s.to, answers |-> s.answers, i |-> s.i,
             allowed |-> s.allowed, stale |-> s.stale]
    BY DEF SendInv, SenderShape
  <2>3. s.pc = "send" => s.allowed \/ s.stale
    BY DEF SendInv, Knows
  <2> HIDE DEF s, n
  <2>4. n = [pc |-> s.pc, to |-> s.to, answers |-> s.answers, i |-> s.i,
             allowed |-> (s.allowed \/ allowlist_check(email', s.to)),
             stale |-> s.stale]
    BY <2>1, <2>2
  <2>5. SenderShape(n)
    BY <2>4 DEF SenderShape
  <2>6. /\ n.pc = s.pc /\ n.to = s.to /\ n.stale = s.stale
        /\ n.allowed = (s.allowed \/ allowlist_check(email', s.to))
    BY <2>4
  <2>7. Knows(n, email')
    BY <2>3, <2>6 DEF Knows
  <2> QED BY <2>5, <2>7 DEF n
<1> QED BY <1>2, <1>3, Zenon DEF SendInv

LEMMA SendCheckStep ==
  ASSUME SendInv, NEW t \in Senders, SendCheck(t)
  PROVE  SendInv'
<1> DEFINE s == sender[t]
<1>1. PICK hit \in IF s.i = freed THEN BOOLEAN ELSE {fnmatch(email.rules[s.i], s.to)} :
        sender' = [sender EXCEPT ![t] =
          IF hit THEN [s EXCEPT !.pc = "send", !.stale = @ \/ s.i = freed]
          ELSE [s EXCEPT !.i = @ + 1]]
  BY DEF SendCheck
<1>2. /\ s.pc = "check" /\ s.i \in DOMAIN email.rules /\ UNCHANGED lists
      /\ SenderShape(s) /\ Knows(s, email)
  BY DEF SendCheck, SendInv, aclVars
<1>3. s = [pc |-> s.pc, to |-> s.to, answers |-> s.answers, i |-> s.i,
           allowed |-> s.allowed, stale |-> s.stale]
  BY <1>2 DEF SenderShape
<1> HIDE DEF s
<1>4. CASE hit
  <2> DEFINE n == [s EXCEPT !.pc = "send", !.stale = @ \/ s.i = freed]
  <2>1. n = [pc |-> "send", to |-> s.to, answers |-> s.answers, i |-> s.i,
             allowed |-> s.allowed, stale |-> (s.stale \/ s.i = freed)]
    <3> DEFINE m == [s EXCEPT !.pc = "send"]
    <3>1. m = [pc |-> "send", to |-> s.to, answers |-> s.answers, i |-> s.i,
               allowed |-> s.allowed, stale |-> s.stale]
      BY <1>3
    <3>2. n = [m EXCEPT !.stale = s.stale \/ s.i = freed]
      BY <1>3, <3>1
    <3> HIDE DEF m, n
    <3> QED BY <3>1, <3>2
  <2>2. sender' = [sender EXCEPT ![t] = n]
    BY <1>1, <1>4, Zenon
  <2> HIDE DEF n
  <2>3. SenderShape(n)
    BY <2>1 DEF SenderShape
  <2>4. n.to = s.to /\ n.allowed = s.allowed /\ n.stale = (s.stale \/ s.i = freed)
    BY <2>1
  <2>5. allowlist_check(email, s.to) => s.allowed
    BY <1>2 DEF Knows
  <2>6. Knows(n, email)
    <3>1. n.allowed \/ n.stale
      <4>1. CASE s.i = freed
        BY <2>4, <4>1
      <4>2. CASE s.i # freed
        <5>1. fnmatch(email.rules[s.i], s.to)
          BY <1>1, <1>4, <4>2
        <5>2. allowlist_check(email, s.to)
          BY <1>2, <5>1, Zenon DEF allowlist_check
        <5> QED BY <2>4, <2>5, <5>2
      <4> QED BY <4>1, <4>2
    <3>2. allowlist_check(email, n.to) => n.allowed
      BY <2>4, <2>5
    <3> QED BY <3>1, <3>2, Zenon DEF Knows
  <2> QED BY <1>2, <2>2, <2>3, <2>6, OneSender, Zenon
<1>5. CASE ~hit
  <2> DEFINE n == [s EXCEPT !.i = @ + 1]
  <2>1. n = [pc |-> s.pc, to |-> s.to, answers |-> s.answers, i |-> s.i + 1,
             allowed |-> s.allowed, stale |-> s.stale]
    BY <1>3
  <2>2. sender' = [sender EXCEPT ![t] = n]
    BY <1>1, <1>5
  <2> HIDE DEF n
  <2>3. SenderShape(n)
    BY <2>1 DEF SenderShape
  <2>4. n.pc = s.pc /\ n.to = s.to /\ n.allowed = s.allowed /\ n.stale = s.stale
    BY <2>1
  <2>5. Knows(n, email)
    BY <1>2, <2>4, Zenon DEF Knows
  <2> QED BY <1>2, <2>2, <2>3, <2>5, OneSender, Zenon
<1> QED BY <1>4, <1>5

LEMMA SendStep == ASSUME SendInv, [MailNext]_mailVars PROVE SendInv'
<1>1. ASSUME NEW uid, email_send(uid) PROVE SendInv'
  <2>1. /\ UNCHANGED lists
        /\ sender' = [sender EXCEPT ![Dispatcher] = Begin(Sender(inbox[uid]), uid)]
    BY <1>1 DEF email_send, aclVars
  <2> QED BY <2>1, BeginKnows, OneSender, Zenon
<1>2. ASSUME NEW t \in Tools, NEW a \in Addresses, SendAsk(t, a) PROVE SendInv'
  <2>1. /\ UNCHANGED lists
        /\ sender' = [sender EXCEPT ![t] = Sending("asked", a, NoMail, FALSE)]
    BY <1>2 DEF SendAsk, aclVars
  <2> QED BY <2>1, NotSendingKnows, OneSender, Zenon
<1>3. ASSUME NEW t \in Tools, email_channel_send_direct(t) PROVE SendInv'
  <2>1. /\ UNCHANGED lists
        /\ sender' = [sender EXCEPT ![t] = Begin(sender[t].to, NoMail)]
    BY <1>3 DEF email_channel_send_direct, aclVars
  <2> QED BY <2>1, BeginKnows, OneSender, Zenon
<1>4. ASSUME NEW t \in Senders, SendBlocked(t) \/ smtp_send(t) PROVE SendInv'
  <2>1. UNCHANGED lists /\ sender' = [sender EXCEPT ![t] = NotSending]
    BY <1>4 DEF SendBlocked, smtp_send, aclVars
  <2> QED BY <2>1, NotSendingKnows, OneSender, Zenon
<1>5. ASSUME NEW t \in Senders, SendCheck(t) PROVE SendInv'
  BY <1>5, SendCheckStep
<1>6. ASSUME NEW p \in Patterns, cmd_email_allow(p) PROVE SendInv'
  BY <1>6, Remembers DEF cmd_email_allow
<1>7. CASE DenyShift
  BY <1>7, Remembers DEF DenyShift
<1>8. ASSUME NEW p \in Patterns, cmd_email_deny(p) PROVE SendInv'
  BY <1>8, SendStill DEF cmd_email_deny, sendVars
<1>9. CASE SaveOpen \/ SaveWrite \/ SkillsReload
  BY <1>9, SendStill DEF SaveOpen, SaveWrite, SkillsReload, sendVars
<1>10. CASE Poll
  BY <1>10, SendStill DEF Poll, PollSearch, PollNext, FetchNothing, Fetch, CheckRule,
       Blocked, PollPublish, sendVars, aclVars
<1>11. ASSUME NEW m \in Mails, Arrive(m) PROVE SendInv'
  BY <1>11, SendStill DEF Arrive, sendVars, aclVars
<1>12. CASE Restart
  <2>1. sender' = [t \in Senders |-> NotSending]
    BY <1>12 DEF Restart
  <2>2. Knows(NotSending, email')
    BY NotSendingKnows
  <2> QED BY <2>1, <2>2, NotSendingKnows DEF SendInv
<1>13. CASE UNCHANGED mailVars
  BY <1>13, SendStill DEF mailVars, aclVars, sendVars
<1> QED BY <1>1, <1>2, <1>3, <1>4, <1>5, <1>6, <1>7, <1>8, <1>9, <1>10, <1>11, <1>12,
       <1>13 DEF MailNext

\* Every mail in the hands of smtp_send goes to an address that the rules allowed
\* at some moment since the call began, however the commands change them between
\* the check, which takes one rule at a time, and the sending.
THEOREM SentAlwaysAllowed == MailSpec => []SentIsAllowed
<1>1. SendInv => SentIsAllowed
  BY DEF SendInv, Knows, SentIsAllowed
<1> QED BY <1>1, SendStart, SendStep, PTL DEF MailSpec

----------------------------------------------------------------------------
(* The rules and their file *)

LEMMA Least ==
  ASSUME NEW S \in SUBSET Nat, S # {}
  PROVE  \E k \in S : \A j \in S : k <= j
<1>1. PICK k \in S : \A j \in S : ~(<<j, k>> \in OpToRel(<, Nat))
  BY NatLessThanWellFounded, WFMin, Zenon
<1>2. \A j \in S : <<j, k>> \in OpToRel(<, Nat) <=> j < k
  BY Zenon DEF OpToRel
<1>3. \A j \in S : ~(j < k)
  BY <1>1, <1>2, Zenon
<1> QED BY <1>3

\* Induction up to n, about the members of a set.
LEMMA Climbs ==
  ASSUME NEW n \in Nat, NEW P, 0 \in P,
         \A i \in 0..(n - 1) : i \in P => i + 1 \in P
  PROVE  \A i \in 0..n : i \in P
<1> SUFFICES ASSUME NEW q \in 0..n, q \notin P PROVE FALSE
  OBVIOUS
<1> DEFINE D == {i \in 0..n : i \notin P}
<1>1. D \in SUBSET Nat /\ q \in D
  OBVIOUS
<1>2. PICK k \in D : \A j \in D : k <= j
  BY <1>1, Least, Zenon
<1>3. k # 0 /\ k \in 1..n
  BY <1>2
<1>4. k - 1 \in 0..(n - 1) /\ k - 1 \in P
  BY <1>2, <1>3
<1>5. (k - 1) + 1 \in P /\ (k - 1) + 1 = k
  BY <1>4, <1>3
<1> QED BY <1>2, <1>5

\* The pieces of a concatenation, by position.
Joins(S, c, a, b) ==
  /\ c \in Seq(S) /\ Len(c) = Len(a) + Len(b)
  /\ Len(a) \in Nat /\ Len(b) \in Nat
  /\ \A i \in 1..Len(a) : c[i] = a[i]
  /\ \A i \in 1..Len(b) : c[Len(a) + i] = b[i]

LEMMA Joined ==
  ASSUME NEW S, NEW a \in Seq(S), NEW b \in Seq(S)
  PROVE  Joins(S, a \o b, a, b)
BY DEF Joins

LEMMA Piece ==
  ASSUME NEW S, NEW s \in Seq(S), NEW from \in 1..(Len(s) + 1),
         NEW to \in (from - 1)..Len(s)
  PROVE  /\ SubSeq(s, from, to) \in Seq(S)
         /\ Len(SubSeq(s, from, to)) = to - from + 1
         /\ \A i \in 1..(to - from + 1) : SubSeq(s, from, to)[i] = s[from + i - 1]
  OBVIOUS

LEMMA LineKinds ==
  ASSUME NEW l \in RuleLines
  PROVE  /\ l.kind \in {"header", "allow", "comment"}
         /\ l.kind = "allow" => l.rules \in Seq(Patterns)
         /\ l.kind = "header" => \E type \in Types : l = Header(type)
         /\ l = Comment \/ l = EmailComment <=> l.kind = "comment"
<1>1. CASE l \in [kind : {"allow"}, type : {""}, rules : Seq(Patterns)]
  <2>1. l.kind = "allow" /\ l.rules \in Seq(Patterns)
    BY <1>1
  <2>2. Comment.kind = "comment" /\ EmailComment.kind = "comment"
    BY DEF Comment, EmailComment
  <2> QED BY <2>1, <2>2, Zenon
<1>2. CASE l \in {Header(type) : type \in Types}
  <2>1. PICK type \in Types : l = Header(type)
    BY <1>2
  <2>2. l.kind = "header"
    BY <2>1 DEF Header
  <2>3. Comment.kind = "comment" /\ EmailComment.kind = "comment"
    BY DEF Comment, EmailComment
  <2> QED BY <2>1, <2>2, <2>3, Zenon
<1>3. CASE l \in {Comment, EmailComment}
  <2>1. Comment.kind = "comment" /\ EmailComment.kind = "comment"
    BY DEF Comment, EmailComment
  <2> QED BY <2>1, <1>3, Zenon
<1> QED BY <1>1, <1>2, <1>3, Zenon DEF RuleLines

LEMMA LineNames ==
  /\ \A t : Header(t).kind = "header"
  /\ \A t, u : Header(t) = Header(u) => t = u
  /\ \A r : Allow(r).kind = "allow" /\ Allow(r).rules = r
  /\ Comment.kind = "comment" /\ EmailComment.kind = "comment"
  /\ Comment # EmailComment
  /\ {Comment, EmailComment, Header("email")} \subseteq RuleLines
  /\ \A r \in Seq(Patterns) : Allow(r) \in RuleLines
<1>1. \A t, u : Header(t) = Header(u) => t = u
  <2> SUFFICES ASSUME NEW t, NEW u, Header(t) = Header(u) PROVE t = u
    OBVIOUS
  <2>1. Header(t).type = t /\ Header(u).type = u
    BY DEF Header
  <2> QED BY <2>1
<1>2. "email" \in Types
  BY DEF Types
<1>3. \A r \in Seq(Patterns) : Allow(r) \in RuleLines
  BY DEF Allow, RuleLines
<1>4. Header("email") \in RuleLines /\ Comment \in RuleLines /\ EmailComment \in RuleLines
  BY <1>2, Zenon DEF RuleLines
<1>5. Comment # EmailComment
  BY DEF Comment, EmailComment
<1>6. /\ \A t : Header(t).kind = "header"
      /\ \A r : Allow(r).kind = "allow" /\ Allow(r).rules = r
      /\ Comment.kind = "comment" /\ EmailComment.kind = "comment"
  BY DEF Header, Allow, Comment, EmailComment
<1> QED BY <1>1, <1>3, <1>4, <1>5, <1>6

\* A line belongs to one kind of section.
LEMMA OneSection ==
  ASSUME NEW text \in Seq(RuleLines), NEW i \in Nat, NEW e \in 1..(i - 1),
         NEW t, NEW u, text[e] = Header(u),
         \A k \in (e + 1)..(i - 1) : text[k].kind # "header",
         InSection(text, i, t)
  PROVE  t = u
<1>1. text[e].kind = "header"
  BY LineNames, Zenon
<1>2. PICK j \in 1..(i - 1) :
        text[j] = Header(t) /\ \A k \in (j + 1)..(i - 1) : text[k].kind # "header"
  BY <1>1, Zenon DEF InSection
<1>3. text[j].kind = "header"
  BY <1>2, LineNames, Zenon
<1>4. j = e
  BY <1>1, <1>2, <1>3
<1> QED BY <1>2, <1>4, LineNames, Zenon

\* The len lines after the first b of new are those after the first a of text,
\* and begin with a header.
Moved(text, new, a, b, len) ==
  /\ \A q \in 1..len : new[b + q] = text[a + q]
  /\ text[a + 1].kind = "header"

\* What a section is, is decided after the last header.
LEMMA SameSection ==
  ASSUME NEW text, NEW new, NEW a \in Nat, NEW b \in Nat,
         NEW len \in Nat, NEW t, NEW i \in 2..len,
         Moved(text, new, a, b, len), InSection(text, a + i, t)
  PROVE  InSection(new, b + i, t)
<1>0. \A q \in 1..len : new[b + q] = text[a + q]
  BY Zenon DEF Moved
<1>1. a + 1 \in 1..((a + i) - 1)
  OBVIOUS
<1>2. PICK j \in 1..((a + i) - 1) :
        /\ text[j] = Header(t)
        /\ \A k \in (j + 1)..((a + i) - 1) : text[k].kind # "header"
  BY <1>1, Zenon DEF InSection, Moved
<1>3. j >= a + 1
  BY <1>1, <1>2, SMTT(60) DEF Moved
<1> DEFINE q == j - a
<1>4. q \in 1..(i - 1) /\ q \in 1..len /\ a + q = j /\ b + q \in 1..((b + i) - 1)
  BY <1>2, <1>3
<1>5. new[b + q] = Header(t)
  BY <1>4, <1>2, <1>0
<1>6. ASSUME NEW k \in (b + q + 1)..((b + i) - 1) PROVE new[k].kind # "header"
  <2>1. k - b \in 1..len /\ a + (k - b) \in (j + 1)..((a + i) - 1) /\ b + (k - b) = k
    BY <1>4
  <2>2. new[b + (k - b)] = text[a + (k - b)]
    BY <2>1, <1>0, Zenon
  <2> QED BY <2>1, <2>2, <1>2
<1> QED BY <1>4, <1>5, <1>6, Zenon DEF InSection

\* What Rules goes through in a text.
Gathers(f, text, t, len) ==
  f = [i \in 0..len |->
         IF i = 0 THEN <<>>
         ELSE IF text[i].kind = "allow" /\ InSection(text, i, t)
         THEN f[i - 1] \o UpTo(text[i].rules, LINE_RULES)
         ELSE f[i - 1]]

LEMMA GathersExists ==
  ASSUME NEW text, NEW t, NEW len \in Nat
  PROVE  \E f : Gathers(f, text, t, len)
<1> DEFINE Next1(f, i) == IF text[i].kind = "allow" /\ InSection(text, i, t)
                          THEN f[i - 1] \o UpTo(text[i].rules, LINE_RULES)
                          ELSE f[i - 1]
           P == {k \in Nat : \E f : Gathers(f, text, t, k)}
<1>1. 0 \in P
  <2>1. Gathers([i \in 0..0 |-> <<>>], text, t, 0)
    BY DEF Gathers
  <2> QED BY <2>1
<1>2. ASSUME NEW k \in 0..(len - 1), k \in P PROVE k + 1 \in P
  <2>1. PICK f : Gathers(f, text, t, k)
    BY <1>2
  <2>2. \A i \in 0..k : f[i] = IF i = 0 THEN <<>> ELSE Next1(f, i)
    BY <2>1 DEF Gathers
  <2> DEFINE g == [i \in 0..(k + 1) |-> IF i <= k THEN f[i] ELSE Next1(f, k + 1)]
  <2> HIDE DEF Next1
  <2>3. g[k + 1] = Next1(f, k + 1) /\ \A i \in 0..k : g[i] = f[i]
    OBVIOUS
  <2>4. ASSUME NEW i \in 1..(k + 1) PROVE Next1(g, i) = Next1(f, i)
    <3>1. g[i - 1] = f[i - 1]
      BY <2>3
    <3> HIDE DEF g
    <3> QED BY <3>1, Zenon DEF Next1
  <2>5. \A i \in 0..(k + 1) : g[i] = IF i = 0 THEN <<>> ELSE Next1(g, i)
    <3> SUFFICES ASSUME NEW i \in 0..(k + 1)
                 PROVE g[i] = IF i = 0 THEN <<>> ELSE Next1(g, i)
      OBVIOUS
    <3> HIDE DEF g
    <3>1. CASE i = 0
      BY <3>1, <2>2, <2>3
    <3>2. CASE i \in 1..k
      BY <3>2, <2>2, <2>3, <2>4
    <3>3. CASE i = k + 1
      BY <3>3, <2>3, <2>4
    <3> QED BY <3>1, <3>2, <3>3
  <2>6. Gathers(g, text, t, k + 1)
    <3>1. g = [i \in 0..(k + 1) |-> g[i]]
      OBVIOUS
    <3> HIDE DEF g
    <3>2. g = [i \in 0..(k + 1) |-> IF i = 0 THEN <<>> ELSE Next1(g, i)]
      BY <3>1, <2>5
    <3> QED BY <3>2, Zenon DEF Gathers, Next1
  <2> QED BY <2>6
<1> HIDE DEF P
<1>3. \A i \in 0..len : i \in P
  BY <1>1, <1>2, Climbs, Zenon
<1>4. len \in P
  BY <1>3
<1> QED BY <1>4 DEF P

\* Gathered: these are the rules of the first n lines.
Gathered(text, t, f) ==
  /\ f[0] = <<>>
  /\ \A i \in 1..Len(text) :
       f[i] = IF text[i].kind = "allow" /\ InSection(text, i, t)
              THEN f[i - 1] \o UpTo(text[i].rules, LINE_RULES) ELSE f[i - 1]
  /\ Rules(text, t) = UpTo(f[Len(text)], MAX_RULES)

LEMMA RulesGathered ==
  ASSUME NEW text \in Seq(RuleLines), NEW t
  PROVE  \E f : Gathered(text, t, f)
<1>1. Len(text) \in Nat
  OBVIOUS
<1> DEFINE h == CHOOSE f : Gathers(f, text, t, Len(text))
<1>2. Gathers(h, text, t, Len(text))
  BY <1>1, GathersExists, Zenon
<1>3. Rules(text, t) = UpTo(h[Len(text)], MAX_RULES)
  BY Zenon DEF Rules, Gathers
<1> HIDE DEF h
<1>4. \A i \in 0..Len(text) : h[i] =
         IF i = 0 THEN <<>>
         ELSE IF text[i].kind = "allow" /\ InSection(text, i, t)
         THEN h[i - 1] \o UpTo(text[i].rules, LINE_RULES)
         ELSE h[i - 1]
  BY <1>2 DEF Gathers
<1>5. Gathered(text, t, h)
  BY <1>1, <1>3, <1>4 DEF Gathered
<1> QED BY <1>5

\* RuleLines a + 1 to b give nothing to a list.
GiveNothing(text, t, a, b) ==
  \A i \in (a + 1)..b : text[i].kind = "allow" => ~InSection(text, i, t)

LEMMA GatheredIdle ==
  ASSUME NEW text \in Seq(RuleLines), NEW t, NEW f, Gathered(text, t, f),
         NEW a \in Nat, NEW b \in Nat, a <= b, b <= Len(text),
         GiveNothing(text, t, a, b)
  PROVE  f[b] = f[a]
<1> DEFINE len == b - a
           P == {i \in 0..len : f[a + i] = f[a]}
<1>1. 0 \in P
  OBVIOUS
<1>2. ASSUME NEW i \in 0..(len - 1), i \in P PROVE i + 1 \in P
  <2>1. /\ a + (i + 1) \in 1..Len(text) /\ a + (i + 1) \in (a + 1)..b
        /\ (a + (i + 1)) - 1 = a + i
    OBVIOUS
  <2>2. f[a + (i + 1)] = f[(a + (i + 1)) - 1]
    BY <2>1, Zenon DEF Gathered, GiveNothing
  <2> QED BY <2>1, <2>2, <1>2
<1>3. len \in Nat /\ a + len = b
  OBVIOUS
<1> HIDE DEF P, len
<1>4. \A i \in 0..len : i \in P
  BY <1>1, <1>2, <1>3, Climbs, Zenon
<1>5. len \in P
  BY <1>3, <1>4
<1> QED BY <1>3, <1>5 DEF P

\* After line a the one text goes on as the other after line b, for len lines.
GoAlike(text, new, t, a, b, len) ==
  \A i \in 1..len :
    /\ new[b + i] = text[a + i]
    /\ text[a + i].kind = "allow"
         => (InSection(text, a + i, t) <=> InSection(new, b + i, t))

LEMMA GatheredAlike ==
  ASSUME NEW text \in Seq(RuleLines), NEW new \in Seq(RuleLines), NEW t, NEW f, NEW g,
         Gathered(text, t, f), Gathered(new, t, g),
         NEW a \in Nat, NEW b \in Nat, NEW len \in Nat,
         a + len <= Len(text), b + len <= Len(new), f[a] = g[b],
         GoAlike(text, new, t, a, b, len)
  PROVE  f[a + len] = g[b + len]
<1> DEFINE P == {i \in 0..len : f[a + i] = g[b + i]}
<1>1. 0 \in P
  OBVIOUS
<1>2. ASSUME NEW i \in 0..(len - 1), i \in P PROVE i + 1 \in P
  <2>1. /\ a + (i + 1) \in 1..Len(text) /\ b + (i + 1) \in 1..Len(new)
        /\ (a + (i + 1)) - 1 = a + i /\ (b + (i + 1)) - 1 = b + i
        /\ i + 1 \in 1..len /\ i + 1 \in 0..len
    OBVIOUS
  <2>2. f[a + i] = g[b + i]
    BY <1>2
  <2>3. f[a + (i + 1)] =
          IF text[a + (i + 1)].kind = "allow" /\ InSection(text, a + (i + 1), t)
          THEN f[a + i] \o UpTo(text[a + (i + 1)].rules, LINE_RULES) ELSE f[a + i]
    BY <2>1, Zenon DEF Gathered
  <2>4. g[b + (i + 1)] =
          IF new[b + (i + 1)].kind = "allow" /\ InSection(new, b + (i + 1), t)
          THEN g[b + i] \o UpTo(new[b + (i + 1)].rules, LINE_RULES) ELSE g[b + i]
    BY <2>1, Zenon DEF Gathered
  <2>5. /\ new[b + (i + 1)] = text[a + (i + 1)]
        /\ text[a + (i + 1)].kind = "allow"
             => (InSection(text, a + (i + 1), t) <=> InSection(new, b + (i + 1), t))
    BY <2>1, Zenon DEF GoAlike
  <2>6. f[a + (i + 1)] = g[b + (i + 1)]
    <3>1. CASE text[a + (i + 1)].kind = "allow" /\ InSection(text, a + (i + 1), t)
      BY <3>1, <2>2, <2>3, <2>4, <2>5, Zenon
    <3>2. CASE ~(text[a + (i + 1)].kind = "allow" /\ InSection(text, a + (i + 1), t))
      BY <3>2, <2>2, <2>3, <2>4, <2>5, Zenon
    <3> QED BY <3>1, <3>2, Zenon
  <2> QED BY <2>1, <2>6
<1> HIDE DEF P
<1>3. \A i \in 0..len : i \in P
  BY <1>1, <1>2, Climbs, Zenon
<1>4. len \in P
  BY <1>3
<1> QED BY <1>4 DEF P

\* Where the section to be replaced starts: nowhere, at the one header, or at a
\* mention that has only comments below it.
Starts(text, s) ==
  IF s = 0 THEN \A i \in 1..Len(text) : text[i] \notin {Header("email"), EmailComment}
  ELSE /\ s \in 1..Len(text) /\ text[s] \in {Header("email"), EmailComment}
       /\ \A i \in 1..(s - 1) : text[i] \notin {Header("email"), EmailComment}
       /\ \A i \in (s + 1)..Len(text) : text[i] # Header("email")
       /\ text[s] = EmailComment
            => \A i \in (s + 1)..Len(text) : text[i].kind = "comment"

LEMMA EmailStartStarts ==
  ASSUME NEW text \in Seq(RuleLines), WellFormed(text)
  PROVE  Starts(text, EmailStart(text))
<1> DEFINE len == Len(text)
           H == {i \in 2..Len(text) : text[i] = Header("email")}
           M == {i \in DOMAIN text : text[i] \in {Header("email"), EmailComment}}
           first(S) == CHOOSE i \in S : \A j \in S : i <= j
           s == EmailStart(text)
<1>1. len \in Nat /\ DOMAIN text = 1..len
  OBVIOUS
<1>2. s = IF H # {} THEN first(H) ELSE IF M # {} THEN first(M) ELSE 0
  BY Zenon DEF EmailStart
<1>3. ASSUME NEW S \in SUBSET Nat, S # {}
      PROVE  first(S) \in S /\ \A j \in S : first(S) <= j
  <2>1. \E k \in S : \A j \in S : k <= j
    BY <1>3, Least, Zenon
  <2> QED BY <2>1, Zenon
<1>4. H \in SUBSET Nat /\ M \in SUBSET Nat
  BY <1>1
<1>5. /\ \A i \in 1..len : i \in M <=> text[i] \in {Header("email"), EmailComment}
      /\ \A i \in 2..len : i \in H <=> text[i] = Header("email")
      /\ H \subseteq 2..len /\ M \subseteq 1..len
  BY <1>1
<1>6. /\ \A i, j \in 1..len :
           text[i] = Header("email") /\ text[j] = Header("email") => i = j
      /\ \A i \in 1..len : text[i] = EmailComment
           => \/ InSection(text, i, "email")
              \/ \A j \in (i + 1)..len : text[j].kind = "comment"
  BY <1>1, Zenon DEF WellFormed
<1>7. Header("email") # EmailComment /\ Header("email").kind # "comment"
  <2>1. Header("email").kind = "header" /\ EmailComment.kind = "comment"
    BY LineNames, Zenon
  <2> QED BY <2>1
<1>8. ASSUME NEW i \in 1..len, InSection(text, i, "email")
      PROVE  \E e \in 1..(i - 1) : text[e] = Header("email")
  BY <1>8 DEF InSection
<1> HIDE DEF H, M, first, s, len
<1>9. CASE H # {}
  <2>1. s \in H
    BY <1>9, <1>2, <1>3, <1>4, Zenon
  <2>2. s \in 2..len /\ text[s] = Header("email")
    BY <2>1, <1>5
  <2>3. \A i \in 1..len : text[i] = Header("email") => i = s
    BY <2>2, <1>6
  <2>4. ASSUME NEW i \in 1..(s - 1) PROVE text[i] # EmailComment
    <3>1. i \in 1..len /\ s \in (i + 1)..len
      BY <2>2, <1>1
    <3>2. SUFFICES ASSUME text[i] = EmailComment PROVE FALSE
      OBVIOUS
    <3>3. InSection(text, i, "email")
      BY <3>1, <3>2, <1>6, <1>7, <2>2, Zenon
    <3>4. PICK e \in 1..(i - 1) : text[e] = Header("email")
      BY <3>1, <3>3, <1>8
    <3>5. e \in 1..len /\ e # s
      BY <3>1, <3>4, <1>1
    <3> QED BY <3>4, <3>5, <2>3
  <2>5. \A i \in 1..(s - 1) : text[i] # Header("email")
    BY <2>3, <2>2, <1>1
  <2>6. \A i \in (s + 1)..len : text[i] # Header("email")
    BY <2>3, <2>2, <1>1
  <2>7. s # 0 /\ s \in 1..len
    BY <2>2
  <2>8. text[s] # EmailComment
    BY <2>2, <1>7
  <2>9. \A i \in 1..(s - 1) : text[i] \notin {Header("email"), EmailComment}
    BY <2>4, <2>5, Zenon
  <2> QED BY <2>2, <2>6, <2>7, <2>8, <2>9, Zenon DEF Starts, s, len
<1>10. CASE H = {} /\ M # {}
  <2>1. s \in M /\ \A j \in M : s <= j
    BY <1>10, <1>2, <1>3, <1>4, Zenon
  <2>2. s \in 1..len /\ text[s] \in {Header("email"), EmailComment}
    BY <2>1, <1>5
  <2>3. \A i \in 1..(s - 1) : text[i] \notin {Header("email"), EmailComment}
    BY <2>1, <2>2, <1>5, <1>1
  <2>4. \A i \in (s + 1)..len : text[i] # Header("email")
    BY <2>2, <1>10, <1>5, <1>1
  <2>5. ASSUME text[s] = EmailComment
        PROVE  \A i \in (s + 1)..len : text[i].kind = "comment"
    <3>1. ~InSection(text, s, "email")
      BY <1>8, <2>2, <2>3, Zenon
    <3> QED BY <2>2, <2>5, <3>1, <1>6, Zenon
  <2>6. s # 0
    BY <2>2
  <2> QED BY <2>2, <2>3, <2>4, <2>5, <2>6, Zenon DEF Starts, s, len
<1>11. CASE H = {} /\ M = {}
  <2>1. s = 0
    BY <1>11, <1>2, Zenon
  <2>2. \A i \in 1..len : text[i] \notin {Header("email"), EmailComment}
    BY <1>11, <1>5, Zenon
  <2> QED BY <2>1, <2>2, Zenon DEF Starts, s, len
<1> QED BY <1>9, <1>10, <1>11, Zenon

\* Where it ends: at the next header or with the text.
LEMMA NextSectionEnds ==
  ASSUME NEW text \in Seq(RuleLines), WellFormed(text), NEW s \in 1..Len(text),
         Starts(text, s)
  PROVE  /\ NextSection(text, s + 1) \in (s + 1)..(Len(text) + 1)
         /\ \A j \in (s + 1)..(NextSection(text, s + 1) - 1) :
              text[j].kind # "header"
         /\ NextSection(text, s + 1) <= Len(text)
              => text[NextSection(text, s + 1)].kind = "header"
<1> DEFINE len == Len(text)
           stops == {j \in (s + 1)..Len(text) :
                       text[j].kind = "header" /\ ~Passed(text, s + 1, j)}
                      \cup {Len(text) + 1}
           e == NextSection(text, s + 1)
           heads == {j \in (s + 1)..Len(text) : text[j].kind = "header"}
<1>1. len \in Nat /\ DOMAIN text = 1..len
  OBVIOUS
<1>2. stops \in SUBSET Nat /\ len + 1 \in stops /\ heads \in SUBSET Nat
  BY <1>1
<1>3. e = CHOOSE j \in stops : \A k \in stops : j <= k
  BY Zenon DEF NextSection
<1>4. \E j \in stops : \A k \in stops : j <= k
  <2>1. stops # {}
    BY <1>2, Zenon
  <2> QED BY <1>2, <2>1, Least, Zenon
<1>5. e \in stops /\ \A k \in stops : e <= k
  BY <1>3, <1>4, Zenon
<1>6. e \in (s + 1)..(len + 1) /\ (e <= len => text[e].kind = "header")
  BY <1>5, <1>1
<1>7. s # 0
  OBVIOUS
<1>8. ASSUME NEW j \in (s + 1)..(e - 1), text[j].kind = "header" PROVE FALSE
  <2>1. j \in heads /\ heads # {}
    BY <1>8, <1>6, <1>1
  <2> HIDE DEF heads, stops, e, len
  <2>2. PICK h \in heads : \A k \in heads : h <= k
    BY <2>1, <1>2, Least, Zenon
  <2>3. h \in (s + 1)..len /\ text[h].kind = "header" /\ h <= j
    BY <2>1, <2>2 DEF heads, len
  <2>4. ASSUME NEW k \in (s + 1)..(h - 1) PROVE text[k].kind # "header"
    <3>1. k \notin heads
      BY <2>2, <2>4, <2>3
    <3>2. k \in (s + 1)..Len(text)
      BY <2>3, <1>1 DEF len
    <3> QED BY <3>1, <3>2 DEF heads
  <2>5. text[s] = Header("email")
    <3>1. text[s] \in {Header("email"), EmailComment}
      BY <1>7, Zenon DEF Starts
    <3>2. CASE text[s] = EmailComment
      <4>1. text[h].kind = "comment"
        BY <1>7, <3>2, <2>3, Zenon DEF Starts, len
      <4> QED BY <4>1, <2>3
    <3> QED BY <3>1, <3>2, Zenon
  <2>6. InSection(text, h, "email")
    <3>1. s \in 1..(h - 1)
      BY <2>3
    <3> QED BY <3>1, <2>4, <2>5, Zenon DEF InSection
  <2>7. text[h - 1].kind # "comment"
    <3>1. h \in DOMAIN text
      BY <2>3, <1>1
    <3> QED BY <3>1, <2>3, <2>6, Zenon DEF WellFormed
  <2>8. ~Passed(text, s + 1, h)
    <3>1. ASSUME NEW k \in (s + 1)..(h - 1) PROVE h - 1 \in k..(h - 1)
      BY <2>3
    <3> QED BY <3>1, <2>7, Zenon DEF Passed
  <2>9. h \in stops
    BY <2>3, <2>8, Zenon DEF stops, len
  <2>10. e <= h
    BY <2>9, <1>5, Zenon
  <2> QED BY <2>10, <2>3, <1>6
<1> HIDE DEF e, stops, heads
<1> QED BY <1>6, <1>8, Zenon DEF e, len

\* The new text has n lines of the old one, then comments and the section of
\* these rules up to line m, then what followed line k of the old one.
Replaced(text, new, rules, n, m, k) ==
  /\ n \in 0..k /\ k \in 0..Len(text)
  /\ m \in n..Len(new) /\ Len(new) - m = Len(text) - k
  /\ \A i \in 1..n : /\ new[i] = text[i]
                     /\ text[i] \notin {Header("email"), EmailComment}
  /\ \A i \in 1..(Len(text) - k) : /\ new[m + i] = text[k + i]
                                   /\ text[k + i] # Header("email")
  /\ k < Len(text) => text[k + 1].kind = "header"
  /\ \A i \in (n + 1)..k :
       text[i].kind = "allow" => InSection(text, i, "email")
  /\ IF rules = <<>> THEN \A i \in (n + 1)..m : new[i] = Comment
     ELSE /\ n + 2 <= m
          /\ new[m - 1] = Header("email") /\ new[m] = Allow(rules)
          /\ \A i \in (n + 1)..(m - 2) : new[i] = Comment

\* Middle: comments and the section.
Middle(mid, rules) ==
  IF rules = <<>> THEN \A i \in 1..Len(mid) : mid[i] = Comment
  ELSE /\ 2 <= Len(mid)
       /\ mid[Len(mid) - 1] = Header("email") /\ mid[Len(mid)] = Allow(rules)
       /\ \A i \in 1..(Len(mid) - 2) : mid[i] = Comment

Section(rules) == IF rules = <<>> THEN <<>> ELSE <<Header("email"), Allow(rules)>>

LEMMA SectionMiddle ==
  ASSUME NEW rules \in Seq(Patterns)
  PROVE  /\ Section(rules) \in Seq(RuleLines) /\ <<Comment>> \in Seq(RuleLines)
         /\ Middle(Section(rules), rules)
         /\ <<Comment>> \o Section(rules) \in Seq(RuleLines)
         /\ Middle(<<Comment>> \o Section(rules), rules)
<1>1. Header("email") \in RuleLines /\ Comment \in RuleLines /\ Allow(rules) \in RuleLines
  BY LineNames, Zenon
<1> DEFINE a == Header("email")
           b == Allow(rules)
           c == Comment
<1>2. CASE rules = <<>>
  <2>1. Section(rules) = <<>>
    BY <1>2 DEF Section
  <2>2. <<>> \in Seq(RuleLines) /\ <<c>> \in Seq(RuleLines) /\ Len(<<>>) = 0
    BY <1>1
  <2>3. <<c>> \o <<>> = <<c>> /\ Len(<<c>>) = 1 /\ <<c>>[1] = c
    BY <2>2
  <2> HIDE DEF c
  <2>4. Middle(<<>>, rules) /\ Middle(<<c>>, rules)
    BY <1>2, <2>2, <2>3 DEF Middle, c
  <2> QED BY <2>1, <2>2, <2>3, <2>4, Zenon DEF c
<1>3. CASE rules # <<>>
  <2>1. Section(rules) = <<a, b>>
    BY <1>3, Zenon DEF Section
  <2> HIDE DEF a, b, c
  <2>2. a \in RuleLines /\ b \in RuleLines /\ c \in RuleLines
    BY <1>1, Zenon DEF a, b, c
  <2>3. <<a, b>> \in Seq(RuleLines) /\ <<c>> \in Seq(RuleLines)
    BY <2>2
  <2> DEFINE x == <<c>> \o <<a, b>>
  <2>4. Joins(RuleLines, x, <<c>>, <<a, b>>)
    BY <2>3, Joined
  <2> HIDE DEF x
  <2>5. /\ Len(<<a, b>>) = 2 /\ <<a, b>>[1] = a /\ <<a, b>>[2] = b
        /\ Len(<<c>>) = 1 /\ <<c>>[1] = c
    OBVIOUS
  <2>6. x \in Seq(RuleLines) /\ Len(x) = 3 /\ x[1] = c /\ x[2] = a /\ x[3] = b
    BY <2>4, <2>5 DEF Joins
  <2>7. Middle(<<a, b>>, rules) /\ Middle(x, rules)
    BY <1>3, <2>5, <2>6 DEF Middle, a, b, c
  <2> QED BY <2>1, <2>3, <2>6, <2>7, Zenon DEF c, x
<1> QED BY <1>2, <1>3, Zenon

\* What is kept of a text, around its lines n + 1 to k.
Around(text, pre, post, n, k) ==
  /\ n \in 0..k /\ k \in 0..Len(text)
  /\ Len(pre) = n /\ Len(post) = Len(text) - k
  /\ \A i \in 1..n : /\ pre[i] = text[i]
                     /\ text[i] \notin {Header("email"), EmailComment}
  /\ \A i \in 1..(Len(text) - k) : /\ post[i] = text[k + i]
                                   /\ text[k + i] # Header("email")
  /\ k < Len(text) => text[k + 1].kind = "header"
  /\ \A i \in (n + 1)..k :
       text[i].kind = "allow" => InSection(text, i, "email")

\* Putting the parts together.
LEMMA PartsReplaced ==
  ASSUME NEW text \in Seq(RuleLines), NEW pre \in Seq(RuleLines), NEW mid \in Seq(RuleLines),
         NEW post \in Seq(RuleLines), NEW rules, NEW n, NEW k, Middle(mid, rules),
         Around(text, pre, post, n, k)
  PROVE  /\ (pre \o mid) \o post \in Seq(RuleLines)
         /\ \E m : Replaced(text, (pre \o mid) \o post, rules, n, m, k)
<1> DEFINE pm == pre \o mid
           new == pm \o post
           m == n + Len(mid)
<1>0. /\ n \in 0..k /\ k \in 0..Len(text)
      /\ Len(pre) = n /\ Len(post) = Len(text) - k
      /\ \A i \in 1..n : /\ pre[i] = text[i]
                         /\ text[i] \notin {Header("email"), EmailComment}
      /\ \A i \in 1..(Len(text) - k) : /\ post[i] = text[k + i]
                                       /\ text[k + i] # Header("email")
  BY Zenon DEF Around
<1>1. /\ pm \in Seq(RuleLines) /\ Len(pm) = m /\ Len(mid) \in Nat
      /\ \A i \in 1..n : pm[i] = pre[i]
      /\ \A i \in 1..Len(mid) : pm[n + i] = mid[i]
  <2>1. Joins(RuleLines, pm, pre, mid)
    BY Joined
  <2> HIDE DEF pm
  <2> QED BY <1>0, <2>1, Zenon DEF Joins
<1> HIDE DEF pm
<1>2. /\ new \in Seq(RuleLines) /\ Len(new) = m + Len(post) /\ Len(post) \in Nat
      /\ \A i \in 1..m : new[i] = pm[i]
      /\ \A i \in 1..Len(post) : new[m + i] = post[i]
  <2>1. Joins(RuleLines, new, pm, post)
    BY <1>1, Joined
  <2> HIDE DEF new
  <2> QED BY <1>1, <2>1, Zenon DEF Joins
<1> HIDE DEF new
<1>3. Len(text) \in Nat /\ n \in Nat /\ k \in Nat
  BY <1>0
<1>4. ASSUME NEW i \in 1..Len(mid) PROVE new[n + i] = mid[i]
  <2>1. n + i \in 1..m
    BY <1>1, <1>3
  <2> QED BY <2>1, <1>1, <1>2, Zenon
<1>5. m \in n..Len(new) /\ Len(new) - m = Len(text) - k
  BY <1>0, <1>1, <1>2, <1>3
<1>6. \A i \in 1..n : /\ new[i] = text[i]
                      /\ text[i] \notin {Header("email"), EmailComment}
  <2> SUFFICES ASSUME NEW i \in 1..n
               PROVE new[i] = text[i] /\ text[i] \notin {Header("email"), EmailComment}
    OBVIOUS
  <2>1. i \in 1..m
    BY <1>1, <1>3
  <2> QED BY <2>1, <1>0, <1>1, <1>2, Zenon
<1>7. \A i \in 1..(Len(text) - k) : /\ new[m + i] = text[k + i]
                                    /\ text[k + i] # Header("email")
  BY <1>0, <1>2, Zenon
<1>8. IF rules = <<>> THEN \A i \in (n + 1)..m : new[i] = Comment
      ELSE /\ n + 2 <= m
           /\ new[m - 1] = Header("email") /\ new[m] = Allow(rules)
           /\ \A i \in (n + 1)..(m - 2) : new[i] = Comment
  <2>1. ASSUME NEW i \in (n + 1)..m PROVE i - n \in 1..Len(mid) /\ new[i] = mid[i - n]
    <3>1. i - n \in 1..Len(mid) /\ n + (i - n) = i
      BY <1>1, <1>3
    <3> QED BY <3>1, <1>4
  <2>2. CASE rules = <<>>
    <3>1. \A i \in 1..Len(mid) : mid[i] = Comment
      BY <2>2, Zenon DEF Middle
    <3> QED BY <2>1, <2>2, <3>1, Zenon
  <2>3. CASE rules # <<>>
    <3>1. /\ 2 <= Len(mid)
          /\ mid[Len(mid) - 1] = Header("email") /\ mid[Len(mid)] = Allow(rules)
          /\ \A i \in 1..(Len(mid) - 2) : mid[i] = Comment
      BY <2>3, Zenon DEF Middle
    <3>2. /\ n + 2 <= m /\ m \in (n + 1)..m /\ m - 1 \in (n + 1)..m
          /\ m - n = Len(mid) /\ (m - 1) - n = Len(mid) - 1
      BY <3>1, <1>1, <1>3
    <3>3. new[m] = Allow(rules)
      BY <3>1, <3>2, <2>1
    <3>4. new[m - 1] = Header("email")
      BY <3>1, <3>2, <2>1
    <3>5. ASSUME NEW i \in (n + 1)..(m - 2) PROVE new[i] = Comment
      <4>1. i \in (n + 1)..m /\ i - n \in 1..(Len(mid) - 2)
        <5>1. m = n + Len(mid) /\ m \in Nat /\ Len(mid) \in Nat
          BY <1>1, <1>3
        <5> HIDE DEF m
        <5> QED BY <5>1, <1>3
      <4>2. new[i] = mid[i - n]
        BY <4>1, <2>1, Zenon
      <4> QED BY <4>1, <4>2, <3>1, Zenon
    <3> QED BY <2>3, <3>2, <3>3, <3>4, <3>5, Zenon
  <2> QED BY <2>2, <2>3, Zenon
<1> HIDE DEF m
<1>9. Replaced(text, new, rules, n, m, k)
  BY <1>0, <1>5, <1>6, <1>7, <1>8, Zenon DEF Replaced, Around
<1> QED BY <1>2, <1>9, Zenon DEF new, pm

LEMMA Savings ==
  ASSUME NEW text, NEW list
  PROVE  SavedEmail(text, list) =
    IF text = <<>> THEN <<Comment>> \o Section(Tokens(list.rules))
    ELSE IF EmailStart(text) = 0 THEN text \o Section(Tokens(list.rules))
    ELSE ((SubSeq(text, 1, EmailStart(text) - 1)
             \o (IF text[EmailStart(text)] = EmailComment THEN <<Comment>> ELSE <<>>))
            \o Section(Tokens(list.rules)))
           \o SubSeq(text, NextSection(text, EmailStart(text) + 1), Len(text))
BY Zenon DEF SavedEmail, Section

LEMMA SavedReplaced ==
  ASSUME NEW text \in Seq(RuleLines), WellFormed(text), NEW list,
         Tokens(list.rules) \in Seq(Patterns)
  PROVE  /\ SavedEmail(text, list) \in Seq(RuleLines)
         /\ \E n, m, k : Replaced(text, SavedEmail(text, list), Tokens(list.rules), n, m, k)
<1> DEFINE r == Tokens(list.rules)
           sec == Section(r)
           len == Len(text)
           s == EmailStart(text)
<1>1. /\ sec \in Seq(RuleLines) /\ <<Comment>> \in Seq(RuleLines) /\ Middle(sec, r)
      /\ <<Comment>> \o sec \in Seq(RuleLines) /\ Middle(<<Comment>> \o sec, r)
  BY SectionMiddle, Zenon
<1>2. len \in Nat /\ <<>> \in Seq(RuleLines) /\ Len(<<>>) = 0
  OBVIOUS
<1>3. \A t \in Seq(RuleLines) : <<>> \o t = t /\ t \o <<>> = t
  BY ConcatEmptySeq, Zenon
<1>4. Starts(text, s)
  BY EmailStartStarts, Zenon
<1> HIDE DEF sec, r, s
<1>5. CASE text = <<>>
  <2> DEFINE mid == <<Comment>> \o sec
             new == SavedEmail(text, list)
  <2>1. new = mid
    BY <1>5, Savings, Zenon DEF sec, r
  <2>2. new = (<<>> \o mid) \o <<>>
    BY <1>1, <1>3, <2>1, Zenon
  <2> HIDE DEF mid, new
  <2>3. mid \in Seq(RuleLines) /\ Middle(mid, r)
    BY <1>1, Zenon DEF mid
  <2>4. len = 0
    BY <1>5
  <2>5. Around(text, <<>>, <<>>, 0, 0)
    BY <1>2, <2>4 DEF Around
  <2>6. /\ (<<>> \o mid) \o <<>> \in Seq(RuleLines)
        /\ \E m : Replaced(text, (<<>> \o mid) \o <<>>, r, 0, m, 0)
    BY <1>2, <2>3, <2>5, PartsReplaced, ZenonT(60)
  <2> QED BY <2>2, <2>6, Zenon DEF new, r
<1>6. CASE text # <<>> /\ s = 0
  <2> DEFINE new == SavedEmail(text, list)
  <2>1. new = text \o sec
    BY <1>6, Savings, Zenon DEF sec, r, s
  <2>2. text \o sec \in Seq(RuleLines)
    BY <1>1
  <2>3. new = (text \o sec) \o <<>>
    BY <1>3, <2>1, <2>2, Zenon
  <2> HIDE DEF new
  <2>4. \A i \in 1..len : text[i] \notin {Header("email"), EmailComment}
    BY <1>4, <1>6, Zenon DEF Starts
  <2>5. Around(text, text, <<>>, len, len)
    BY <1>2, <2>4 DEF Around
  <2>6. /\ (text \o sec) \o <<>> \in Seq(RuleLines)
        /\ \E m : Replaced(text, (text \o sec) \o <<>>, r, len, m, len)
    BY <1>1, <1>2, <2>5, PartsReplaced, Zenon
  <2> QED BY <2>3, <2>6, Zenon DEF new, r
<1>7. CASE text # <<>> /\ s # 0
  <2> DEFINE new == SavedEmail(text, list)
             pre == SubSeq(text, 1, s - 1)
             mark == IF text[s] = EmailComment THEN <<Comment>> ELSE <<>>
             mid == mark \o sec
             e == NextSection(text, s + 1)
             post == SubSeq(text, e, len)
  <2>1. new = ((pre \o mark) \o sec) \o post
    BY <1>7, Savings, Zenon DEF sec, r, s
  <2>2. /\ s \in 1..len /\ text[s] \in {Header("email"), EmailComment}
        /\ \A i \in 1..(s - 1) : text[i] \notin {Header("email"), EmailComment}
        /\ \A i \in (s + 1)..len : text[i] # Header("email")
        /\ text[s] = EmailComment
            => \A i \in (s + 1)..len : text[i].kind = "comment"
    BY <1>4, <1>7, Zenon DEF Starts
  <2>3. /\ e \in (s + 1)..(len + 1)
        /\ \A j \in (s + 1)..(e - 1) : text[j].kind # "header"
        /\ e <= len => text[e].kind = "header"
    BY <1>4, <2>2, NextSectionEnds, Zenon
  <2>4. mark \in Seq(RuleLines) /\ mid \in Seq(RuleLines) /\ Middle(mid, r)
    <3>1. CASE text[s] = EmailComment
      BY <1>1, <3>1, Zenon
    <3>2. CASE text[s] # EmailComment
      BY <1>1, <1>2, <1>3, <3>2, Zenon
    <3> QED BY <3>1, <3>2, Zenon
  <2>5. /\ pre \in Seq(RuleLines) /\ Len(pre) = s - 1
        /\ \A i \in 1..(s - 1) : pre[i] = text[i]
    BY <2>2, Piece, <1>2
  <2>6. /\ post \in Seq(RuleLines) /\ Len(post) = len - (e - 1)
        /\ \A i \in 1..(len - (e - 1)) : post[i] = text[(e - 1) + i]
    BY <2>2, <2>3, Piece, <1>2
  <2> HIDE DEF pre, post, mark, e
  <2>7. new = (pre \o mid) \o post
    <3>1. pre \o mid = (pre \o mark) \o sec
      <4>1. pre \in Seq(RuleLines) /\ mark \in Seq(RuleLines) /\ sec \in Seq(RuleLines)
        BY <1>1, <2>4, <2>5, Zenon
      <4>2. (pre \o mark) \o sec = pre \o (mark \o sec)
        BY <4>1, ConcatAssociative, SMTT(60)
      <4> QED BY <4>2, Zenon
    <3> QED BY <2>1, <3>1, Zenon
  <2> HIDE DEF new, mid
  <2>8. \A i \in 1..(len - (e - 1)) : /\ post[i] = text[(e - 1) + i]
                                      /\ text[(e - 1) + i] # Header("email")
    <3> SUFFICES ASSUME NEW i \in 1..(len - (e - 1))
                 PROVE text[(e - 1) + i] # Header("email")
      BY <2>6
    <3>1. (e - 1) + i \in (s + 1)..len
      BY <2>2, <2>3, <1>2
    <3> QED BY <3>1, <2>2, Zenon
  <2>9. ASSUME NEW i \in ((s - 1) + 1)..(e - 1), text[i].kind = "allow"
        PROVE  InSection(text, i, "email")
    <3>1. text[s].kind # "allow"
      <4>1. Header("email").kind = "header" /\ EmailComment.kind = "comment"
        BY LineNames, Zenon
      <4> QED BY <4>1, <2>2
    <3>2. i \in (s + 1)..(e - 1) /\ i \in (s + 1)..len /\ s \in 1..(i - 1)
      <4>1. i # s
        BY <3>1, <2>9
      <4> QED BY <4>1, <2>2, <2>3, <1>2, SMTT(60)
    <3>3. text[s] = Header("email")
      <4>1. CASE text[s] = EmailComment
        <5>1. text[i].kind = "comment"
          BY <4>1, <3>2, <2>2, Zenon
        <5> QED BY <5>1, <2>9
      <4> QED BY <4>1, <2>2, Zenon
    <3>4. \A k \in (s + 1)..(i - 1) : text[k].kind # "header"
      BY <3>2, <2>2, <2>3, <1>2
    <3> QED BY <3>2, <3>3, <3>4, Zenon DEF InSection
  <2>10. (e - 1 < len => text[(e - 1) + 1].kind = "header")
         /\ s - 1 \in 0..(e - 1) /\ e - 1 \in 0..len
    BY <2>2, <2>3, <1>2
  <2>11. Around(text, pre, post, s - 1, e - 1)
    BY <2>2, <2>5, <2>6, <2>8, <2>9, <2>10, Zenon DEF Around
  <2>12. /\ (pre \o mid) \o post \in Seq(RuleLines)
         /\ \E m : Replaced(text, (pre \o mid) \o post, r, s - 1, m, e - 1)
    BY <2>4, <2>5, <2>6, <2>11, PartsReplaced, Zenon
  <2> QED BY <2>7, <2>12, Zenon DEF new, r
<1> QED BY <1>5, <1>6, <1>7, Zenon

\* Where the lines of the new text come from.
LEMMA ReplacedParts ==
  ASSUME NEW text \in Seq(RuleLines), NEW new \in Seq(RuleLines), NEW rules,
         NEW n, NEW m, NEW k, Replaced(text, new, rules, n, m, k)
  PROVE  /\ n \in Nat /\ m \in Nat /\ k \in Nat /\ Len(text) \in Nat /\ Len(new) \in Nat
         /\ n <= k /\ k <= Len(text) /\ n <= m /\ m <= Len(new)
         /\ Len(new) - m = Len(text) - k
         /\ \A i \in 1..Len(new) :
              \/ i \in 1..n
              \/ i \in (n + 1)..m
              \/ i - m \in 1..(Len(text) - k) /\ m + (i - m) = i
                   /\ k + (i - m) \in 1..Len(text)
<1>1. Len(text) \in Nat /\ Len(new) \in Nat
  OBVIOUS
<1>2. /\ n \in 0..k /\ k \in 0..Len(text)
      /\ m \in n..Len(new) /\ Len(new) - m = Len(text) - k
  BY Zenon DEF Replaced
<1> QED BY <1>1, <1>2

LEMMA ReplacedMiddle ==
  ASSUME NEW text \in Seq(RuleLines), NEW new \in Seq(RuleLines), NEW rules,
         NEW n, NEW m, NEW k, Replaced(text, new, rules, n, m, k),
         NEW i \in (n + 1)..m
  PROVE  \/ new[i] = Comment
         \/ rules # <<>> /\ i = m - 1 /\ new[i] = Header("email")
         \/ rules # <<>> /\ i = m /\ new[i] = Allow(rules)
<1>1. n \in Nat /\ m \in Nat
  BY ReplacedParts
<1>2. CASE rules = <<>>
  BY <1>2, Zenon DEF Replaced
<1>3. CASE rules # <<>>
  <2>1. /\ n + 2 <= m
        /\ new[m - 1] = Header("email") /\ new[m] = Allow(rules)
        /\ \A j \in (n + 1)..(m - 2) : new[j] = Comment
    BY <1>3, Zenon DEF Replaced
  <2>2. i \in (n + 1)..(m - 2) \/ i = m - 1 \/ i = m
    BY <1>1, <2>1
  <2> QED BY <1>3, <2>1, <2>2, Zenon
<1> QED BY <1>2, <1>3, Zenon

\* The header of the new section is the only one of its kind.
LEMMA OneEmailHeader ==
  ASSUME NEW text \in Seq(RuleLines), NEW new \in Seq(RuleLines), NEW rules,
         NEW n, NEW m, NEW k, Replaced(text, new, rules, n, m, k),
         NEW i \in 1..Len(new), new[i] = Header("email")
  PROVE  rules # <<>> /\ i = m - 1
<1>1. CASE i \in 1..n
  BY <1>1, Zenon DEF Replaced
<1>2. CASE i \in (n + 1)..m
  <2>1. new[i] # Comment
    <3>1. Header("email").kind = "header" /\ Comment.kind = "comment"
      BY LineNames, Zenon
    <3> QED BY <3>1
  <2>2. new[i] # Allow(rules)
    <3>1. Header("email").kind = "header" /\ Allow(rules).kind = "allow"
      BY LineNames, Zenon
    <3> QED BY <3>1
  <2> QED BY <1>2, <2>1, <2>2, ReplacedMiddle
<1>3. CASE i - m \in 1..(Len(text) - k) /\ m + (i - m) = i
  <2>1. new[m + (i - m)] # Header("email")
    BY <1>3, Zenon DEF Replaced
  <2> QED BY <1>3, <2>1
<1> QED BY <1>1, <1>2, <1>3, ReplacedParts

\* What follows it is no longer of it: the rest begins with another header.
LEMMA RestNotEmail ==
  ASSUME NEW text \in Seq(RuleLines), NEW new \in Seq(RuleLines), NEW rules,
         NEW n, NEW m, NEW k, Replaced(text, new, rules, n, m, k),
         NEW q \in 2..(Len(text) - k)
  PROVE  /\ text[k + 1].kind = "header" /\ new[m + 1].kind = "header"
         /\ ~InSection(new, m + q, "email") /\ ~InSection(text, k + q, "email")
<1>1. /\ n \in Nat /\ m \in Nat /\ k \in Nat /\ Len(text) \in Nat /\ Len(new) \in Nat
      /\ Len(new) - m = Len(text) - k
  BY ReplacedParts
<1>2. k < Len(text) /\ 1 \in 1..(Len(text) - k)
  BY <1>1
<1>3. text[k + 1].kind = "header" /\ new[m + 1] = text[k + 1]
  BY <1>2, Zenon DEF Replaced
<1>4. \A i \in 1..(Len(text) - k) : /\ new[m + i] # Header("email")
                                    /\ text[k + i] # Header("email")
  BY Zenon DEF Replaced
<1>5. ~InSection(new, m + q, "email")
  <2> SUFFICES ASSUME NEW j \in 1..((m + q) - 1), new[j] = Header("email"),
                      \A i \in (j + 1)..((m + q) - 1) : new[i].kind # "header"
               PROVE FALSE
    BY Zenon DEF InSection
  <2>1. CASE j <= m
    <3>1. m + 1 \in (j + 1)..((m + q) - 1)
      BY <1>1, <2>1
    <3> QED BY <3>1, <1>3
  <2>2. CASE j > m
    <3>1. j - m \in 1..(Len(text) - k) /\ m + (j - m) = j
      BY <1>1, <2>2
    <3> QED BY <3>1, <1>4
  <2> QED BY <1>1, <2>1, <2>2
<1>6. ~InSection(text, k + q, "email")
  <2> SUFFICES ASSUME NEW j \in 1..((k + q) - 1), text[j] = Header("email"),
                      \A i \in (j + 1)..((k + q) - 1) : text[i].kind # "header"
               PROVE FALSE
    BY Zenon DEF InSection
  <2>1. CASE j <= k
    <3>1. k + 1 \in (j + 1)..((k + q) - 1)
      BY <1>1, <2>1
    <3> QED BY <3>1, <1>3
  <2>2. CASE j > k
    <3>1. j - k \in 1..(Len(text) - k) /\ k + (j - k) = j
      BY <1>1, <2>2
    <3> QED BY <3>1, <1>4
  <2> QED BY <1>1, <2>1, <2>2
<1> QED BY <1>3, <1>5, <1>6, Zenon

LEMMA ReplacedWellFormed ==
  ASSUME NEW text \in Seq(RuleLines), NEW new \in Seq(RuleLines), NEW rules,
         NEW n, NEW m, NEW k, Replaced(text, new, rules, n, m, k),
         WellFormed(text)
  PROVE  WellFormed(new)
<1>1. /\ n \in Nat /\ m \in Nat /\ k \in Nat /\ Len(text) \in Nat /\ Len(new) \in Nat
      /\ n <= k /\ k <= Len(text) /\ n <= m /\ m <= Len(new)
      /\ Len(new) - m = Len(text) - k
  BY ReplacedParts
<1>2. DOMAIN new = 1..Len(new) /\ DOMAIN text = 1..Len(text)
  OBVIOUS
<1>3. ASSUME NEW i \in DOMAIN new, NEW j \in DOMAIN new,
             new[i] = Header("email"), new[j] = Header("email")
      PROVE  i = j
  BY <1>2, <1>3, OneEmailHeader
<1>4. ASSUME NEW i \in DOMAIN new, new[i].kind = "header", InSection(new, i, "email")
      PROVE  new[i - 1].kind # "comment"
  <2>1. PICK e \in 1..(i - 1) :
          /\ new[e] = Header("email")
          /\ \A q \in (e + 1)..(i - 1) : new[q].kind # "header"
    BY <1>4, Zenon DEF InSection
  <2>2. e \in 1..Len(new) /\ i \in 1..Len(new)
    BY <1>2, <1>1
  <2>3. rules # <<>> /\ e = m - 1
    BY <2>1, <2>2, OneEmailHeader
  <2>4. n + 2 <= m /\ new[m] = Allow(rules)
    BY <2>3, Zenon DEF Replaced
  <2>5. new[m].kind = "allow"
    BY <2>4, LineNames
  <2>6. i > m
    BY <2>2, <2>3, <2>5, <1>1, <1>4
  <2>7. ~(i > m + 1)
    <3> SUFFICES ASSUME i > m + 1 PROVE FALSE
      OBVIOUS
    <3>1. i - m \in 2..(Len(text) - k) /\ m + (i - m) = i
      BY <2>2, <1>1, SMTT(60)
    <3> QED BY <3>1, <1>4, RestNotEmail
  <2>8. i - 1 = m
    BY <2>2, <2>6, <2>7, <1>1, SMTT(60)
  <2> QED BY <2>5, <2>8
<1>5. ASSUME NEW i \in DOMAIN new, new[i] = EmailComment
      PROVE  \A j \in (i + 1)..Len(new) : new[j].kind = "comment"
  <2>1. ~(i \in 1..n)
    BY <1>5, Zenon DEF Replaced
  <2>2. ~(i \in (n + 1)..m)
    <3> SUFFICES ASSUME i \in (n + 1)..m PROVE FALSE
      OBVIOUS
    <3>1. EmailComment # Comment
      BY LineNames, Zenon
    <3>2. EmailComment # Header("email") /\ EmailComment # Allow(rules)
      <4>1. EmailComment.kind = "comment" /\ Header("email").kind = "header"
            /\ Allow(rules).kind = "allow"
        BY LineNames, Zenon
      <4> QED BY <4>1
    <3> QED BY <1>5, <3>1, <3>2, ReplacedMiddle
  <2>3. i - m \in 1..(Len(text) - k) /\ m + (i - m) = i /\ k + (i - m) \in DOMAIN text
    BY <1>2, <2>1, <2>2, ReplacedParts
  <2> DEFINE q == i - m
  <2>4. text[k + q] = EmailComment
    <3>1. new[m + q] = text[k + q]
      BY <2>3, Zenon DEF Replaced
    <3> QED BY <3>1, <2>3, <1>5
  <2>5. ~InSection(text, k + q, "email")
    <3>1. CASE q = 1
      <4>1. text[k + 1].kind = "header"
        <5>1. k < Len(text)
          BY <2>3, <1>1
        <5> QED BY <5>1, Zenon DEF Replaced
      <4>2. EmailComment.kind = "comment"
        BY LineNames, Zenon
      <4> QED BY <3>1, <4>1, <4>2, <2>4
    <3>2. CASE q # 1
      <4>1. q \in 2..(Len(text) - k)
        BY <2>3, <3>2, <1>1
      <4> QED BY <4>1, RestNotEmail, Zenon
    <3> QED BY <3>1, <3>2, Zenon
  <2>6. \A j \in ((k + q) + 1)..Len(text) : text[j].kind = "comment"
    BY <2>3, <2>4, <2>5, Zenon DEF WellFormed
  <2> SUFFICES ASSUME NEW j \in (i + 1)..Len(new) PROVE new[j].kind = "comment"
    OBVIOUS
  <2>7. /\ j - m \in 1..(Len(text) - k) /\ m + (j - m) = j
        /\ k + (j - m) \in ((k + q) + 1)..Len(text)
    BY <2>3, <1>1, SMTT(60)
  <2>8. new[m + (j - m)] = text[k + (j - m)]
    BY <2>7, Zenon DEF Replaced
  <2>9. text[k + (j - m)].kind = "comment"
    BY <2>6, <2>7, Zenon
  <2> QED BY <2>7, <2>8, <2>9, Zenon
<1> QED BY <1>3, <1>4, <1>5, Zenon DEF WellFormed

\* At most so many.
LEMMA UpToTyped ==
  ASSUME NEW S, NEW s \in Seq(S), NEW max \in Nat
  PROVE  /\ UpTo(s, max) \in Seq(S) /\ Len(UpTo(s, max)) <= max
         /\ Len(s) <= max => UpTo(s, max) = s
<1>1. CASE Len(s) < max
  <2>1. UpTo(s, max) = SubSeq(s, 1, Len(s))
    BY <1>1 DEF UpTo
  <2>2. SubSeq(s, 1, Len(s)) = s
    OBVIOUS
  <2> QED BY <1>1, <2>1, <2>2
<1>2. CASE ~(Len(s) < max)
  <2>1. UpTo(s, max) = SubSeq(s, 1, max)
    BY <1>2 DEF UpTo
  <2>2. max \in 0..Len(s)
    BY <1>2
  <2>3. SubSeq(s, 1, max) \in Seq(S) /\ Len(SubSeq(s, 1, max)) = max
    BY <2>2
  <2>4. ASSUME Len(s) <= max PROVE SubSeq(s, 1, max) = s
    <3>1. max = Len(s)
      BY <2>2, <2>4
    <3> QED BY <3>1
  <2> QED BY <2>1, <2>3, <2>4
<1> QED BY <1>1, <1>2

LEMMA RulesTyped ==
  ASSUME NEW text \in Seq(RuleLines), NEW t, MAX_RULES \in Nat, LINE_RULES \in Nat
  PROVE  Rules(text, t) \in Seq(Patterns) /\ Len(Rules(text, t)) <= MAX_RULES
<1>1. PICK f : Gathered(text, t, f)
  BY RulesGathered
<1>2. Len(text) \in Nat
  OBVIOUS
<1> DEFINE P == {i \in 0..Len(text) : f[i] \in Seq(Patterns)}
<1>3. 0 \in P
  <2>1. f[0] = <<>>
    BY <1>1, Zenon DEF Gathered
  <2>2. f[0] \in Seq(Patterns)
    BY <2>1
  <2> QED BY <1>2, <2>2
<1>4. ASSUME NEW i \in 0..(Len(text) - 1), i \in P PROVE i + 1 \in P
  <2>1. i + 1 \in 1..Len(text) /\ (i + 1) - 1 = i /\ i + 1 \in 0..Len(text)
    BY <1>2
  <2>2. f[i + 1] = IF text[i + 1].kind = "allow" /\ InSection(text, i + 1, t)
                   THEN f[i] \o UpTo(text[i + 1].rules, LINE_RULES) ELSE f[i]
    BY <1>1, <2>1, Zenon DEF Gathered
  <2>3. f[i] \in Seq(Patterns)
    BY <1>4
  <2>4. ASSUME text[i + 1].kind = "allow"
        PROVE  f[i] \o UpTo(text[i + 1].rules, LINE_RULES) \in Seq(Patterns)
    <3>1. text[i + 1] \in RuleLines
      BY <2>1
    <3>2. text[i + 1].rules \in Seq(Patterns)
      BY <2>4, <3>1, LineKinds, Zenon
    <3>3. UpTo(text[i + 1].rules, LINE_RULES) \in Seq(Patterns)
      BY <3>2, UpToTyped, Zenon
    <3> QED BY <2>3, <3>3
  <2>5. f[i + 1] \in Seq(Patterns)
    BY <2>2, <2>3, <2>4, Zenon
  <2> QED BY <2>1, <2>5
<1> HIDE DEF P
<1>5. \A i \in 0..Len(text) : i \in P
  BY <1>2, <1>3, <1>4, Climbs, Zenon
<1>6. Len(text) \in P
  BY <1>2, <1>5
<1>7. f[Len(text)] \in Seq(Patterns)
  BY <1>6 DEF P
<1>8. Rules(text, t) = UpTo(f[Len(text)], MAX_RULES)
  BY <1>1, Zenon DEF Gathered
<1>9. /\ UpTo(f[Len(text)], MAX_RULES) \in Seq(Patterns)
      /\ Len(UpTo(f[Len(text)], MAX_RULES)) <= MAX_RULES
  BY <1>7, UpToTyped
<1> QED BY <1>8, <1>9, Zenon

\* A save leaves the rules of the other lists alone.
LEMMA ReplacedKeeps ==
  ASSUME NEW text \in Seq(RuleLines), NEW new \in Seq(RuleLines), NEW rules,
         NEW n, NEW m, NEW k, Replaced(text, new, rules, n, m, k),
         NEW t, t # "email"
  PROVE  Rules(new, t) = Rules(text, t)
<1>1. /\ n \in Nat /\ m \in Nat /\ k \in Nat /\ Len(text) \in Nat /\ Len(new) \in Nat
      /\ n <= k /\ k <= Len(text) /\ n <= m /\ m <= Len(new)
      /\ Len(new) - m = Len(text) - k
  BY ReplacedParts
<1>2. PICK f : Gathered(text, t, f)
  BY RulesGathered
<1>3. PICK g : Gathered(new, t, g)
  BY RulesGathered
<1>4. f[0] = <<>> /\ g[0] = <<>>
  BY <1>2, <1>3, Zenon DEF Gathered
\* The lines before the section,
<1>5. f[n] = g[n]
  <2>1. ASSUME NEW i \in 1..n
        PROVE  /\ new[0 + i] = text[0 + i]
               /\ InSection(text, 0 + i, t) <=> InSection(new, 0 + i, t)
    <3>1. 0 + i = i /\ i \in 1..n /\ \A j \in 1..(i - 1) : j \in 1..n
      BY <1>1
    <3>2. \A j \in 1..n : new[j] = text[j]
      BY Zenon DEF Replaced
    <3>3. \A j \in 1..(i - 1) : new[j] = text[j]
      BY <3>1, <3>2, Zenon
    <3>4. ASSUME NEW j \in 1..(i - 1), NEW q \in (j + 1)..(i - 1)
          PROVE  new[q] = text[q]
      <4>1. q \in 1..(i - 1)
        BY <1>1
      <4> QED BY <4>1, <3>3
    <3>5. InSection(text, i, t) <=> InSection(new, i, t)
      <4>1. (\A j \in 1..(i - 1) : text[j].kind # "header")
              <=> (\A j \in 1..(i - 1) : new[j].kind # "header")
        BY <3>3, Zenon
      <4>2. ASSUME NEW j \in 1..(i - 1)
            PROVE  /\ text[j] = Header(t) <=> new[j] = Header(t)
                   /\ (\A q \in (j + 1)..(i - 1) : text[q].kind # "header")
                        <=> (\A q \in (j + 1)..(i - 1) : new[q].kind # "header")
        BY <3>3, <3>4, Zenon
      <4> QED BY <4>1, <4>2, Zenon DEF InSection
    <3> QED BY <3>1, <3>2, <3>5
  <2>2. f[0 + n] = g[0 + n]
    <3>1. 0 \in Nat /\ 0 + n <= Len(text) /\ 0 + n <= Len(new) /\ f[0] = g[0]
      BY <1>1, <1>4
    <3>2. GoAlike(text, new, t, 0, 0, n)
      BY <2>1, Zenon DEF GoAlike
    <3> QED BY <1>1, <1>2, <1>3, <3>1, <3>2, GatheredAlike
  <2> QED BY <1>1, <2>2
\* those that were replaced,
<1>6. f[k] = f[n]
  <2>1. ASSUME NEW i \in (n + 1)..k, text[i].kind = "allow"
        PROVE  ~InSection(text, i, t)
    <3>1. i \in (n + 1)..k /\ i \in Nat
      BY <1>1
    <3>2. InSection(text, i, "email")
      BY <2>1, <3>1, Zenon DEF Replaced
    <3>3. PICK e \in 1..(i - 1) :
            text[e] = Header("email") /\ \A q \in (e + 1)..(i - 1) : text[q].kind # "header"
      BY <3>2, Zenon DEF InSection
    <3> QED BY <3>1, <3>3, OneSection, Zenon
  <2>2. GiveNothing(text, t, n, k)
    BY <2>1, Zenon DEF GiveNothing
  <2> QED BY <1>1, <1>2, <2>2, GatheredIdle
\* those that replace them,
<1>7. g[m] = g[n]
  <2>1. ASSUME NEW i \in (n + 1)..m, new[i].kind = "allow"
        PROVE  ~InSection(new, i, t)
    <3>1. i \in (n + 1)..m /\ i \in Nat
      BY <1>1
    <3>2. new[i] # Comment /\ new[i] # Header("email")
      <4>1. Comment.kind = "comment" /\ Header("email").kind = "header"
        BY LineNames, Zenon
      <4> QED BY <2>1, <4>1
    <3>3. rules # <<>> /\ i = m
      BY <3>1, <3>2, ReplacedMiddle
    <3>4. n + 2 <= m /\ new[m - 1] = Header("email")
      BY <3>3, Zenon DEF Replaced
    <3>5. m - 1 \in 1..(i - 1) /\ \A q \in ((m - 1) + 1)..(i - 1) : FALSE
      BY <3>3, <3>4, <1>1
    <3>6. \A q \in ((m - 1) + 1)..(i - 1) : new[q].kind # "header"
      BY <3>5, Zenon
    <3> QED BY <3>1, <3>4, <3>5, <3>6, OneSection, Zenon
  <2>2. GiveNothing(new, t, n, m)
    BY <2>1, Zenon DEF GiveNothing
  <2> QED BY <1>1, <1>3, <2>2, GatheredIdle
\* and those that follow.
<1>8. f[Len(text)] = g[Len(new)]
  <2> DEFINE len == Len(text) - k
  <2>1. /\ len \in Nat /\ k + len = Len(text) /\ m + len = Len(new)
        /\ k + len <= Len(text) /\ m + len <= Len(new)
    BY <1>1
  <2>2. \A i \in 1..len : new[m + i] = text[k + i]
    BY Zenon DEF Replaced
  <2>3. \A i \in 1..len : text[k + i] = new[m + i]
    BY <2>2
  <2>4. ASSUME NEW i \in 1..len, text[k + i].kind = "allow"
        PROVE  InSection(text, k + i, t) <=> InSection(new, m + i, t)
    <3>1. text[k + 1].kind = "header" /\ 1 \in 1..len
      <4>1. k < Len(text) /\ 1 \in 1..len
        BY <1>1
      <4> QED BY <4>1, Zenon DEF Replaced
    <3>2. new[m + 1].kind = "header"
      BY <3>1, <2>2
    <3>3. i \in 2..len
      <4>1. i # 1
        BY <3>1, <2>4
      <4> QED BY <4>1, <1>1
    <3> HIDE DEF len
    <3>4. InSection(text, k + i, t) => InSection(new, m + i, t)
      <4>1. Moved(text, new, k, m, len)
        BY <2>2, <3>1, Zenon DEF Moved
      <4> QED BY <4>1, <1>1, <2>1, <3>3, SameSection, Zenon
    <3>5. InSection(new, m + i, t) => InSection(text, k + i, t)
      <4>1. Moved(new, text, m, k, len)
        BY <2>3, <3>2, Zenon DEF Moved
      <4> QED BY <4>1, <1>1, <2>1, <3>3, SameSection, Zenon
    <3> QED BY <3>4, <3>5
  <2>5. f[k] = g[m]
    BY <1>5, <1>6, <1>7
  <2> HIDE DEF len
  <2>6. f[k + len] = g[m + len]
    <3>1. GoAlike(text, new, t, k, m, len)
      BY <2>2, <2>4, Zenon DEF GoAlike
    <3> QED BY <1>1, <1>2, <1>3, <2>1, <2>5, <3>1, GatheredAlike
  <2> QED BY <2>1, <2>6
<1>9. Rules(text, t) = UpTo(f[Len(text)], MAX_RULES)
      /\ Rules(new, t) = UpTo(g[Len(new)], MAX_RULES)
  BY <1>2, <1>3, Zenon DEF Gathered
<1> QED BY <1>8, <1>9, Zenon

\* A save gives the file the rules of the list, when they fit its line.
LEMMA ReplacedHas ==
  ASSUME NEW text \in Seq(RuleLines), NEW new \in Seq(RuleLines), NEW rules \in Seq(Patterns),
         NEW n, NEW m, NEW k, Replaced(text, new, rules, n, m, k),
         MAX_RULES \in Nat, LINE_RULES \in Nat,
         Len(rules) <= MAX_RULES, Len(rules) <= LINE_RULES
  PROVE  Rules(new, "email") = rules
<1>1. /\ n \in Nat /\ m \in Nat /\ k \in Nat /\ Len(text) \in Nat /\ Len(new) \in Nat
      /\ n <= k /\ k <= Len(text) /\ n <= m /\ m <= Len(new)
      /\ Len(new) - m = Len(text) - k
  BY ReplacedParts
<1>2. PICK g : Gathered(new, "email", g)
  BY RulesGathered
<1>3. g[0] = <<>>
  BY <1>2, Zenon DEF Gathered
<1>4. UpTo(rules, LINE_RULES) = rules /\ UpTo(rules, MAX_RULES) = rules
  <2>1. Len(rules) <= LINE_RULES
    OBVIOUS
  <2> QED BY <2>1, UpToTyped
<1>5. g[Len(new)] = g[m]
  <2>1. ASSUME NEW i \in (m + 1)..Len(new), new[i].kind = "allow"
        PROVE  ~InSection(new, i, "email")
    <3>1. i - m \in 1..(Len(text) - k) /\ m + (i - m) = i
      BY <1>1
    <3>2. i - m # 1
      <4> SUFFICES ASSUME i - m = 1 PROVE FALSE
        OBVIOUS
      <4>1. k < Len(text) /\ 1 \in 1..(Len(text) - k)
        BY <3>1, <1>1
      <4>2. text[k + 1].kind = "header" /\ new[m + 1] = text[k + 1]
        BY <4>1, Zenon DEF Replaced
      <4>3. i = m + 1
        BY <1>1
      <4> QED BY <4>2, <4>3, <2>1
    <3>3. i - m \in 2..(Len(text) - k)
      BY <3>1, <3>2, <1>1
    <3> QED BY <3>1, <3>3, RestNotEmail
  <2>2. GiveNothing(new, "email", m, Len(new))
    BY <2>1, Zenon DEF GiveNothing
  <2> QED BY <1>1, <1>2, <2>2, GatheredIdle
\* Above the header nothing is of the section.
<1>6. ASSUME NEW i \in 1..Len(new), InSection(new, i, "email")
      PROVE  rules # <<>> /\ m <= i
  <2>1. PICK e \in 1..(i - 1) : new[e] = Header("email")
    BY <1>6 DEF InSection
  <2>2. e \in 1..Len(new)
    BY <1>1
  <2>3. rules # <<>> /\ e = m - 1
    BY <2>1, <2>2, OneEmailHeader
  <2> QED BY <2>3, <1>1
<1>7. g[m] = rules
  <2>1. CASE rules = <<>>
    <3>1. \A i \in 1..Len(new) : ~InSection(new, i, "email")
      BY <1>6, <2>1, Zenon
    <3>2. GiveNothing(new, "email", 0, m)
      BY <3>1, <1>1 DEF GiveNothing
    <3>3. g[m] = g[0]
      BY <1>1, <1>2, <3>2, GatheredIdle
    <3> QED BY <3>3, <1>3, <2>1
  <2>2. CASE rules # <<>>
    <3>1. n + 2 <= m /\ new[m - 1] = Header("email") /\ new[m] = Allow(rules)
      BY <2>2, Zenon DEF Replaced
    <3>2. m - 1 \in Nat /\ m - 1 <= Len(new) /\ m \in 1..Len(new)
      BY <3>1, <1>1
    <3>3. GiveNothing(new, "email", 0, m - 1)
      <4>1. ASSUME NEW i \in (0 + 1)..(m - 1) PROVE ~InSection(new, i, "email")
        <5>1. i \in 1..Len(new) /\ ~(m <= i)
          BY <3>2, <1>1
        <5> QED BY <5>1, <1>6
      <4> QED BY <4>1, Zenon DEF GiveNothing
    <3>4. g[m - 1] = <<>>
      <4>1. g[m - 1] = g[0]
        BY <1>2, <3>2, <3>3, GatheredIdle
      <4> QED BY <4>1, <1>3
    <3>5. InSection(new, m, "email")
      <4>1. m - 1 \in 1..(m - 1) /\ \A q \in ((m - 1) + 1)..(m - 1) : FALSE
        BY <3>1, <1>1
      <4>2. \A q \in ((m - 1) + 1)..(m - 1) : new[q].kind # "header"
        BY <4>1, Zenon
      <4> QED BY <3>1, <4>1, <4>2, Zenon DEF InSection
    <3>6. new[m].kind = "allow" /\ new[m].rules = rules
      BY <3>1, LineNames
    <3>7. g[m] = g[m - 1] \o UpTo(new[m].rules, LINE_RULES)
      BY <1>2, <3>2, <3>5, <3>6, Zenon DEF Gathered
    <3>8. g[m] = <<>> \o rules
      BY <3>7, <3>6, <3>4, <1>4
    <3> QED BY <3>8
  <2> QED BY <2>1, <2>2
<1>8. Rules(new, "email") = UpTo(g[Len(new)], MAX_RULES)
  BY <1>2, Zenon DEF Gathered
<1> QED BY <1>4, <1>5, <1>7, <1>8, Zenon

\* The list of a type, as the commands leave it.
List == {l \in [rules : Seq(Patterns), enabled : BOOLEAN] :
           /\ Len(l.rules) <= MAX_RULES
           /\ l.enabled = (l.rules # <<>>)}

LEMMA LoadTyped ==
  ASSUME NEW text \in Seq(RuleLines), MAX_RULES \in Nat, LINE_RULES \in Nat
  PROVE  allowlist_load(text) \in [Types -> List]
<1>1. ASSUME NEW t \in Types
      PROVE  [rules |-> Rules(text, t), enabled |-> Rules(text, t) # <<>>] \in List
  BY RulesTyped DEF List
<1> QED BY <1>1 DEF allowlist_load

\* What Tokens goes through.
Gives(f, rules, len) ==
  f = [i \in 0..len |-> IF i = 0 THEN <<>> ELSE f[i - 1] \o Split(rules[i])]

LEMMA GivesExists ==
  ASSUME NEW rules, NEW len \in Nat
  PROVE  \E f : Gives(f, rules, len)
<1> DEFINE Next1(f, i) == f[i - 1] \o Split(rules[i])
           P == {k \in Nat : \E f : Gives(f, rules, k)}
<1>1. 0 \in P
  <2>1. Gives([i \in 0..0 |-> <<>>], rules, 0)
    BY DEF Gives
  <2> QED BY <2>1
<1>2. ASSUME NEW k \in 0..(len - 1), k \in P PROVE k + 1 \in P
  <2>1. PICK f : Gives(f, rules, k)
    BY <1>2
  <2>2. \A i \in 0..k : f[i] = IF i = 0 THEN <<>> ELSE Next1(f, i)
    BY <2>1 DEF Gives
  <2> DEFINE g == [i \in 0..(k + 1) |-> IF i <= k THEN f[i] ELSE Next1(f, k + 1)]
  <2> HIDE DEF Next1
  <2>3. g[k + 1] = Next1(f, k + 1) /\ \A i \in 0..k : g[i] = f[i]
    OBVIOUS
  <2>4. ASSUME NEW i \in 1..(k + 1) PROVE Next1(g, i) = Next1(f, i)
    <3>1. g[i - 1] = f[i - 1]
      BY <2>3
    <3> HIDE DEF g
    <3> QED BY <3>1, Zenon DEF Next1
  <2>5. \A i \in 0..(k + 1) : g[i] = IF i = 0 THEN <<>> ELSE Next1(g, i)
    <3> SUFFICES ASSUME NEW i \in 0..(k + 1)
                 PROVE g[i] = IF i = 0 THEN <<>> ELSE Next1(g, i)
      OBVIOUS
    <3> HIDE DEF g
    <3>1. CASE i = 0
      BY <3>1, <2>2, <2>3
    <3>2. CASE i \in 1..k
      BY <3>2, <2>2, <2>3, <2>4
    <3>3. CASE i = k + 1
      BY <3>3, <2>3, <2>4
    <3> QED BY <3>1, <3>2, <3>3
  <2>6. Gives(g, rules, k + 1)
    <3>1. g = [i \in 0..(k + 1) |-> g[i]]
      OBVIOUS
    <3> HIDE DEF g
    <3>2. g = [i \in 0..(k + 1) |-> IF i = 0 THEN <<>> ELSE Next1(g, i)]
      BY <3>1, <2>5
    <3> QED BY <3>2, Zenon DEF Gives, Next1
  <2> QED BY <2>6
<1> HIDE DEF P
<1>3. \A i \in 0..len : i \in P
  BY <1>1, <1>2, Climbs, Zenon
<1>4. len \in P
  BY <1>3
<1> QED BY <1>4 DEF P

\* Given: these are the tokens of the first n rules.
Given(rules, f) ==
  /\ f[0] = <<>>
  /\ \A i \in 1..Len(rules) : f[i] = f[i - 1] \o Split(rules[i])
  /\ Tokens(rules) = f[Len(rules)]

LEMMA TokensGiven ==
  ASSUME NEW rules \in Seq(Patterns)
  PROVE  \E f : Given(rules, f)
<1>1. Len(rules) \in Nat
  OBVIOUS
<1> DEFINE h == CHOOSE f : Gives(f, rules, Len(rules))
<1>2. Gives(h, rules, Len(rules))
  BY <1>1, GivesExists, Zenon
<1>3. Tokens(rules) = h[Len(rules)]
  BY Zenon DEF Tokens, Gives
<1> HIDE DEF h
<1>4. \A i \in 0..Len(rules) : h[i] = IF i = 0 THEN <<>> ELSE h[i - 1] \o Split(rules[i])
  BY <1>2 DEF Gives
<1>5. h[0] = <<>>
  BY <1>1, <1>4
<1>6. ASSUME NEW i \in 1..Len(rules) PROVE h[i] = h[i - 1] \o Split(rules[i])
  <2>1. i \in 0..Len(rules) /\ i # 0
    BY <1>1
  <2> QED BY <1>4, <2>1, Zenon
<1> QED BY <1>3, <1>5, <1>6, Zenon DEF Given

\* The text of a list is made of patterns; without commas it is the list.
LEMMA TokensTyped ==
  ASSUME NEW rules \in Seq(Patterns)
  PROVE  /\ Tokens(rules) \in Seq(Patterns)
         /\ (\A i \in DOMAIN rules : Split(rules[i]) = <<rules[i]>>)
              => Tokens(rules) = rules
<1>1. PICK f : Given(rules, f)
  BY TokensGiven
<1>2. Len(rules) \in Nat /\ DOMAIN rules = 1..Len(rules)
  OBVIOUS
<1>3. f[0] = <<>> /\ Tokens(rules) = f[Len(rules)]
  BY <1>1, Zenon DEF Given
<1>4. \A i \in 1..Len(rules) : f[i] = f[i - 1] \o Split(rules[i])
  BY <1>1, Zenon DEF Given
<1>5. ASSUME NEW i \in 0..(Len(rules) - 1)
      PROVE  /\ i + 1 \in 1..Len(rules) /\ (i + 1) - 1 = i /\ i + 1 \in 0..Len(rules)
             /\ f[i + 1] = f[i] \o Split(rules[i + 1])
             /\ rules[i + 1] \in Patterns
  <2>1. i + 1 \in 1..Len(rules) /\ (i + 1) - 1 = i /\ i + 1 \in 0..Len(rules)
    BY <1>2
  <2>2. f[i + 1] = f[(i + 1) - 1] \o Split(rules[i + 1])
    BY <1>4, <2>1, Zenon
  <2>3. rules[i + 1] \in Patterns
    BY <2>1
  <2>4. f[i + 1] = f[i] \o Split(rules[i + 1])
    BY <2>1, <2>2, Zenon
  <2> QED BY <2>1, <2>3, <2>4, Zenon
<1>6. Tokens(rules) \in Seq(Patterns)
  <2> DEFINE P == {i \in 0..Len(rules) : f[i] \in Seq(Patterns)}
  <2>1. 0 \in P
    <3>1. f[0] \in Seq(Patterns)
      BY <1>3
    <3> QED BY <1>2, <3>1
  <2>2. ASSUME NEW i \in 0..(Len(rules) - 1), i \in P PROVE i + 1 \in P
    <3>1. f[i] \in Seq(Patterns)
      BY <2>2
    <3>2. Split(rules[i + 1]) \in Seq(Patterns)
      BY <1>5, MailAssumption, Zenon
    <3>3. f[i] \o Split(rules[i + 1]) \in Seq(Patterns)
      BY <3>1, <3>2
    <3>4. f[i + 1] \in Seq(Patterns)
      BY <1>5, <3>3, Zenon
    <3> QED BY <1>5, <3>4
  <2> HIDE DEF P
  <2>3. \A i \in 0..Len(rules) : i \in P
    BY <1>2, <2>1, <2>2, Climbs, Zenon
  <2>4. Len(rules) \in P
    BY <1>2, <2>3
  <2> QED BY <1>3, <2>4 DEF P
<1>7. ASSUME \A i \in DOMAIN rules : Split(rules[i]) = <<rules[i]>>
      PROVE  Tokens(rules) = rules
  <2> DEFINE P == {i \in 0..Len(rules) : f[i] = SubSeq(rules, 1, i)}
  <2>1. 0 \in P
    <3>1. SubSeq(rules, 1, 0) = <<>>
      OBVIOUS
    <3>2. f[0] = SubSeq(rules, 1, 0)
      BY <1>3, <3>1, Zenon
    <3>3. 0 \in 0..Len(rules)
      BY <1>2
    <3> QED BY <3>2, <3>3, Zenon
  <2>2. ASSUME NEW i \in 0..(Len(rules) - 1), i \in P PROVE i + 1 \in P
    <3>1. f[i] = SubSeq(rules, 1, i)
      BY <2>2
    <3>2. Split(rules[i + 1]) = <<rules[i + 1]>>
      BY <1>2, <1>5, <1>7, Zenon
    <3>3. f[i + 1] = SubSeq(rules, 1, i) \o <<rules[i + 1]>>
      BY <1>5, <3>1, <3>2, Zenon
    <3>4. SubSeq(rules, 1, i) \o <<rules[i + 1]>> = SubSeq(rules, 1, i + 1)
      BY <1>2
    <3> QED BY <1>5, <3>3, <3>4
  <2> HIDE DEF P
  <2>3. \A i \in 0..Len(rules) : i \in P
    BY <1>2, <2>1, <2>2, Climbs, Zenon
  <2>4. Len(rules) \in P
    BY <1>2, <2>3
  <2>5. SubSeq(rules, 1, Len(rules)) = rules
    OBVIOUS
  <2> QED BY <1>3, <2>4, <2>5 DEF P
<1> QED BY <1>6, <1>7, Zenon

\* What is loaded after a save: the rules of the list, if they fit, and, of the
\* other lists, those of the text before.
LEMMA SavedLoads ==
  ASSUME NEW text \in Seq(RuleLines), WellFormed(text), NEW list \in List,
         MAX_RULES \in Nat, LINE_RULES \in Nat
  PROVE  /\ SavedEmail(text, list) \in Seq(RuleLines)
         /\ WellFormed(SavedEmail(text, list))
         /\ Fits(list) => allowlist_load(SavedEmail(text, list))["email"] = list
         /\ \A t \in Types \ {"email"} :
              allowlist_load(SavedEmail(text, list))[t] = allowlist_load(text)[t]
<1> DEFINE new == SavedEmail(text, list)
           tokens == Tokens(list.rules)
<1>1. list.rules \in Seq(Patterns) /\ Len(list.rules) <= MAX_RULES
      /\ list = [rules |-> list.rules, enabled |-> list.rules # <<>>]
  BY DEF List
<1>2. tokens \in Seq(Patterns)
  BY <1>1, TokensTyped, Zenon
<1>3. new \in Seq(RuleLines) /\ \E n, m, k : Replaced(text, new, tokens, n, m, k)
  BY <1>2, SavedReplaced, Zenon
<1> HIDE DEF new, tokens
<1>4. PICK n, m, k : Replaced(text, new, tokens, n, m, k)
  BY <1>3
<1>5. WellFormed(new)
  BY <1>3, <1>4, ReplacedWellFormed, Zenon
<1>6. "email" \in Types
  BY DEF Types
<1>7. ASSUME Fits(list) PROVE allowlist_load(new)["email"] = list
  <2>1. tokens = list.rules /\ Len(list.rules) <= LINE_RULES
    BY <1>1, <1>7, TokensTyped, Zenon DEF Fits, tokens
  <2>2. Replaced(text, new, list.rules, n, m, k)
    BY <1>4, <2>1, Zenon
  <2>3. Rules(new, "email") = list.rules
    BY <1>1, <1>3, <2>1, <2>2, ReplacedHas, Zenon
  <2> QED BY <1>1, <1>6, <2>3 DEF allowlist_load
<1>8. \A t \in Types \ {"email"} : Rules(new, t) = Rules(text, t)
  BY <1>3, <1>4, ReplacedKeeps
<1>9. \A t \in Types \ {"email"} : allowlist_load(new)[t] = allowlist_load(text)[t]
  BY <1>8 DEF allowlist_load
<1> QED BY <1>3, <1>5, <1>7, <1>9, Zenon DEF new

\* The text of the file that is to be kept: while it is being written, the one
\* that was read.
Kept == IF cmd = "write" THEN old ELSE file

\* As long as no write was cut short.
RulesInv ==
  ~torn =>
    /\ Kept \in Seq(RuleLines) /\ WellFormed(Kept)
    /\ lists \in [Types -> List]
    /\ cmd = "shift" => freed \in 1..Len(email.rules)
    /\ \A t \in Types \ {"email"} : lists[t] = allowlist_load(Kept)[t]
    /\ cmd = "none" /\ saved /\ Fits(email) => email = allowlist_load(Kept)["email"]

Settings == MAX_RULES \in Nat /\ LINE_RULES \in Nat

LEMMA SettingsHold == Settings
BY MailAssumption DEF Settings

LEMMA RulesStart == RulesFit /\ MailInit => RulesInv
<1> SUFFICES ASSUME RulesFit, MailInit PROVE RulesInv
  OBVIOUS
<1>1. Settings
  BY SettingsHold
<1>2. file \in Seq(RuleLines) /\ WellFormed(file)
  BY DEF MailInit, RulesFit
<1>3. lists = allowlist_load(file) /\ cmd = "none"
  BY DEF MailInit
<1>4. lists \in [Types -> List]
  BY <1>1, <1>2, <1>3, LoadTyped, Zenon DEF Settings
<1>5. Kept = file
  BY <1>3 DEF Kept
<1> QED BY <1>2, <1>3, <1>4, <1>5 DEF RulesInv, email

LEMMA RulesStill ==
  ASSUME RulesInv, UNCHANGED aclVars
  PROVE  RulesInv'
BY DEF RulesInv, Kept, aclVars, email

\* Only the list of the email addresses changes.
LEMMA OtherLists ==
  ASSUME NEW ls \in [Types -> List], NEW l \in List
  PROVE  /\ [ls EXCEPT !["email"] = l] \in [Types -> List]
         /\ [ls EXCEPT !["email"] = l]["email"] = l
         /\ \A t \in Types \ {"email"} : [ls EXCEPT !["email"] = l][t] = ls[t]
BY DEF Types

LEMMA Removed ==
  ASSUME NEW l \in List, NEW i \in 1..Len(l.rules)
  PROVE  allowlist_remove(l, i) \in List
<1> DEFINE r == l.rules
           a == SubSeq(r, 1, i - 1)
           b == SubSeq(r, i + 1, Len(r))
<1>1. r \in Seq(Patterns) /\ Len(r) <= MAX_RULES /\ Len(r) \in Nat
  BY DEF List
<1>2. a \in Seq(Patterns) /\ Len(a) = i - 1
  BY <1>1, Piece
<1>3. b \in Seq(Patterns) /\ Len(b) = Len(r) - i
  BY <1>1, Piece
<1> DEFINE c == a \o b
<1>4. Joins(Patterns, c, a, b)
  BY <1>2, <1>3, Joined
<1>5. RemoveAt(r, i) = c
  BY Zenon DEF RemoveAt
<1> HIDE DEF a, b, c, r
<1>6. c \in Seq(Patterns) /\ Len(c) = Len(r) - 1
  BY <1>1, <1>2, <1>3, <1>4 DEF Joins
<1>7. (Len(r) > 1) = (c # <<>>)
  <2>1. c = <<>> <=> Len(c) = 0
    <3>1. c \in Seq(Patterns)
      BY <1>6
    <3> QED BY <3>1, EmptySeq
  <2> QED BY <2>1, <1>1, <1>6
<1>8. allowlist_remove(l, i) = [rules |-> c, enabled |-> Len(r) > 1]
  BY <1>5, Zenon DEF allowlist_remove, r
<1>9. Len(c) <= MAX_RULES
  <2>1. MAX_RULES \in Nat
    BY MailAssumption
  <2> QED BY <2>1, <1>1, <1>6
<1> QED BY <1>6, <1>7, <1>8, <1>9 DEF List

\* A torn file stays one.
LEMMA TornStays == ASSUME [MailNext]_mailVars, torn PROVE torn'
<1>1. ASSUME NEW p \in Patterns, cmd_email_allow(p) \/ cmd_email_deny(p) PROVE torn'
  BY <1>1 DEF cmd_email_allow, cmd_email_deny
<1>2. CASE DenyShift \/ SaveOpen \/ SaveWrite \/ SkillsReload \/ Restart
  BY <1>2 DEF DenyShift, SaveOpen, SaveWrite, SkillsReload, Restart
<1>3. CASE UNCHANGED aclVars
  BY <1>3 DEF aclVars
<1>4. ASSUME NEW x \in Mails, Arrive(x) PROVE UNCHANGED aclVars
  BY <1>4 DEF Arrive
<1>5. CASE Poll
  BY <1>3, <1>5 DEF Poll, PollSearch, PollNext, FetchNothing, Fetch, CheckRule,
              Blocked, PollPublish
<1>6. ASSUME NEW uid \in DOMAIN inbox, email_send(uid) PROVE UNCHANGED aclVars
  BY <1>6 DEF email_send
<1>7. ASSUME NEW s, \/ \E a \in Addresses : SendAsk(s, a)
                    \/ email_channel_send_direct(s) \/ SendCheck(s)
                    \/ SendBlocked(s) \/ smtp_send(s)
      PROVE  UNCHANGED aclVars
  BY <1>7 DEF SendAsk, email_channel_send_direct, SendCheck, SendBlocked, smtp_send
<1>8. CASE UNCHANGED mailVars
  BY <1>3, <1>8 DEF mailVars
<1> QED BY <1>1, <1>2, <1>3, <1>4, <1>5, <1>6, <1>7, <1>8 DEF MailNext

LEMMA RulesStep ==
  ASSUME RulesInv, [MailNext]_mailVars
  PROVE  RulesInv'
<1> SUFFICES ASSUME ~torn' PROVE RulesInv'
  BY DEF RulesInv
<1> ~torn
  BY TornStays
<1>0. Settings
  BY SettingsHold
<1>1. ASSUME NEW p \in Patterns, cmd_email_allow(p) PROVE RulesInv'
  <2>1. /\ cmd = "none" /\ UNCHANGED <<freed, file, old, saved>>
        /\ lists' = allowlist_add(lists, "email", p)
        /\ cmd' = IF lists' = lists THEN "none" ELSE "open"
    BY <1>1 DEF cmd_email_allow, Command
  <2>2. Kept' = Kept
    BY <2>1 DEF Kept
  <2>3. CASE lists' = lists
    BY <2>1, <2>2, <2>3 DEF RulesInv, email
  <2>4. CASE lists' # lists
    <3> DEFINE l == [rules |-> Append(email.rules, p), enabled |-> TRUE]
    <3>1. lists' = [lists EXCEPT !["email"] = l] /\ ~(Len(email.rules) >= MAX_RULES)
      BY <2>1, <2>4 DEF allowlist_add, email
    <3>2. email \in List
      BY DEF RulesInv, email, Types
    <3>3. l \in List
      <4>1. email.rules \in Seq(Patterns)
        BY <3>2 DEF List
      <4>2. /\ Append(email.rules, p) \in Seq(Patterns) /\ Append(email.rules, p) # <<>>
            /\ Len(Append(email.rules, p)) <= MAX_RULES
        BY <4>1, <3>1, <1>0 DEF Settings
      <4> QED BY <4>2 DEF List
    <3> HIDE DEF l
    <3>4. /\ lists' \in [Types -> List]
          /\ \A t \in Types \ {"email"} : lists'[t] = lists[t]
      BY <3>1, <3>3, OtherLists, Zenon DEF RulesInv
    <3>5. cmd' = "open"
      BY <2>1, <2>4
    <3> QED BY <3>4, <3>5, <2>2 DEF RulesInv
  <2> QED BY <2>3, <2>4
<1>2. ASSUME NEW p \in Patterns, cmd_email_deny(p) PROVE RulesInv'
  <2> DEFINE hits == {i \in DOMAIN email.rules : email.rules[i] = p}
  <2>1. /\ cmd = "none" /\ UNCHANGED <<lists, file, old, saved>>
        /\ \/ hits = {} /\ cmd' = "none" /\ UNCHANGED freed
           \/ hits # {} /\ cmd' = "shift"
              /\ freed' = CHOOSE i \in hits : \A j \in hits : i <= j
    BY <1>2 DEF cmd_email_deny, Command
  <2>2. Kept' = Kept
    BY <2>1 DEF Kept
  <2>3. CASE hits = {}
    BY <2>1, <2>2, <2>3 DEF RulesInv, email
  <2>4. CASE hits # {}
    <3>1. email \in List
      BY DEF RulesInv, email, Types
    <3>2. email.rules \in Seq(Patterns)
      BY <3>1 DEF List
    <3>3. hits \subseteq 1..Len(email.rules) /\ hits \in SUBSET Nat
      BY <3>2
    <3> HIDE DEF hits
    <3>4. \E i \in hits : \A j \in hits : i <= j
      BY <2>4, <3>3, Least, Zenon
    <3>5. freed' \in hits /\ cmd' = "shift"
      BY <3>4, <2>1, <2>4, Zenon
    <3>6. freed' \in 1..Len(email'.rules)
      <4>1. email' = email
        BY <2>1 DEF email
      <4> QED BY <4>1, <3>3, <3>5, Zenon
    <3> QED BY <3>5, <3>6, <2>1, <2>2 DEF RulesInv
  <2> QED BY <2>3, <2>4
<1>3. ASSUME DenyShift PROVE RulesInv'
  <2>1. /\ cmd = "shift" /\ cmd' = "open" /\ UNCHANGED <<file, old>>
        /\ lists' = [lists EXCEPT !["email"] = allowlist_remove(email, freed)]
    BY <1>3 DEF DenyShift, email
  <2>2. email \in List /\ freed \in 1..Len(email.rules)
    BY <2>1 DEF RulesInv, email, Types
  <2> DEFINE l == allowlist_remove(email, freed)
  <2>3. l \in List
    BY <2>2, Removed, Zenon
  <2> HIDE DEF l
  <2>4. /\ lists' \in [Types -> List]
        /\ \A t \in Types \ {"email"} : lists'[t] = lists[t]
    BY <2>1, <2>3, OtherLists, Zenon DEF RulesInv, l
  <2>5. Kept' = Kept
    BY <2>1 DEF Kept
  <2> QED BY <2>1, <2>4, <2>5 DEF RulesInv
<1>4. ASSUME SaveOpen PROVE RulesInv'
  <2>1. cmd = "open" /\ UNCHANGED lists
    BY <1>4 DEF SaveOpen
  <2>2. \/ cmd' = "none" /\ saved' = FALSE /\ UNCHANGED <<file, old>>
        \/ cmd' = "write" /\ old' = file /\ UNCHANGED saved
    BY <1>4 DEF SaveOpen
  <2>3. Kept' = Kept
    BY <2>1, <2>2 DEF Kept
  <2> QED BY <2>1, <2>2, <2>3 DEF RulesInv
<1>5. ASSUME SaveWrite PROVE RulesInv'
  <2>1. /\ cmd = "write" /\ cmd' = "none" /\ UNCHANGED lists
        /\ file' = SavedEmail(old, email)
    BY <1>5, Zenon DEF SaveWrite
  <2>2. Kept = old /\ Kept' = SavedEmail(old, email)
    BY <2>1 DEF Kept
  <2>3. email \in List /\ email' = email
    BY <2>1 DEF RulesInv, email, Types
  <2>4. /\ SavedEmail(old, email) \in Seq(RuleLines)
        /\ WellFormed(SavedEmail(old, email))
        /\ Fits(email) => allowlist_load(SavedEmail(old, email))["email"] = email
        /\ \A t \in Types \ {"email"} :
             allowlist_load(SavedEmail(old, email))[t] = allowlist_load(old)[t]
    BY <1>0, <2>2, <2>3, SavedLoads, Zenon DEF RulesInv, Settings
  <2> QED BY <2>1, <2>2, <2>3, <2>4 DEF RulesInv
<1>6. ASSUME Restart PROVE RulesInv'
  <2>1. cmd # "write" /\ cmd' = "none" /\ file' = file /\ lists' = allowlist_load(file)
    BY <1>6 DEF Restart
  <2>2. Kept = file /\ Kept' = file
    BY <2>1 DEF Kept
  <2>3. lists' \in [Types -> List]
    BY <1>0, <2>1, <2>2, LoadTyped, Zenon DEF RulesInv, Settings
  <2> QED BY <2>1, <2>2, <2>3 DEF RulesInv, email
<1>7. ASSUME UNCHANGED aclVars PROVE RulesInv'
  BY <1>7, RulesStill
<1>8. CASE UNCHANGED mailVars
  BY <1>7, <1>8 DEF mailVars
<1>9. CASE MailNext
  <2>1. ASSUME NEW x \in Mails, Arrive(x) PROVE UNCHANGED aclVars
    BY <2>1 DEF Arrive
  <2>2. ASSUME NEW s, \/ \E a \in Addresses : SendAsk(s, a)
                      \/ email_channel_send_direct(s) \/ SendCheck(s)
                      \/ SendBlocked(s) \/ smtp_send(s)
        PROVE  UNCHANGED aclVars
    BY <2>2 DEF SendAsk, email_channel_send_direct, SendCheck, SendBlocked, smtp_send
  <2>3. ASSUME Poll PROVE UNCHANGED aclVars
    BY <2>3 DEF Poll, PollSearch, PollNext, FetchNothing, Fetch, CheckRule,
                Blocked, PollPublish
  <2>4. ASSUME NEW uid \in DOMAIN inbox, email_send(uid) PROVE UNCHANGED aclVars
    BY <2>4 DEF email_send
  <2>5. ASSUME SkillsReload PROVE RulesInv'
    <3>1. cmd = "none" /\ cmd' = "none" /\ UNCHANGED <<lists, file, old, saved>>
      BY <2>5 DEF SkillsReload, Command
    <3>2. Kept' = Kept
      BY <3>1 DEF Kept
    <3> QED BY <3>1, <3>2 DEF RulesInv, email
  <2> QED BY <1>1, <1>2, <1>3, <1>4, <1>5, <1>6, <1>7, <1>9, <2>1, <2>2, <2>3, <2>4,
             <2>5, Zenon DEF MailNext
<1> QED BY <1>8, <1>9, Zenon

\* Only Restart counts the restarts.
LEMMA OnlyRestart == ASSUME MailNext, restarts' # restarts PROVE Restart
<1>1. ASSUME NEW x \in Mails, Arrive(x) PROVE UNCHANGED restarts
  BY <1>1 DEF Arrive
<1>2. ASSUME NEW s, \/ \E a \in Addresses : SendAsk(s, a)
                    \/ email_channel_send_direct(s) \/ SendCheck(s)
                    \/ SendBlocked(s) \/ smtp_send(s)
      PROVE  UNCHANGED restarts
  BY <1>2 DEF SendAsk, email_channel_send_direct, SendCheck, SendBlocked, smtp_send
<1>3. ASSUME Poll PROVE UNCHANGED restarts
  BY <1>3 DEF Poll, PollSearch, PollNext, FetchNothing, Fetch, CheckRule,
              Blocked, PollPublish
<1>4. ASSUME NEW uid \in DOMAIN inbox, email_send(uid) PROVE UNCHANGED restarts
  BY <1>4 DEF email_send
<1>5. ASSUME NEW p \in Patterns, cmd_email_allow(p) \/ cmd_email_deny(p)
      PROVE  UNCHANGED restarts
  BY <1>5 DEF cmd_email_allow, cmd_email_deny
<1>6. ASSUME DenyShift \/ SaveOpen \/ SaveWrite \/ SkillsReload PROVE UNCHANGED restarts
  BY <1>6 DEF DenyShift, SaveOpen, SaveWrite, SkillsReload
<1> QED BY <1>1, <1>2, <1>3, <1>4, <1>5, <1>6, Zenon DEF MailNext

LEMMA RestartStep ==
  ASSUME RulesInv, [MailNext]_mailVars
  PROVE  [(restarts' # restarts /\ cmd = "none" /\ saved /\ ~torn /\ Fits(email))
            => lists' = lists]_mailVars
<1> SUFFICES ASSUME MailNext, restarts' # restarts, cmd = "none", saved, ~torn,
                    Fits(email)
             PROVE  lists' = lists
  BY DEF mailVars
<1>1. lists' = allowlist_load(file)
  BY OnlyRestart DEF Restart
<1>2. Kept = file
  BY DEF Kept
<1>3. \A t \in Types : lists[t] = allowlist_load(file)[t]
  BY <1>2 DEF RulesInv, email
<1>4. lists \in [Types -> List] /\ allowlist_load(file) = [t \in Types |-> allowlist_load(file)[t]]
  BY DEF RulesInv, allowlist_load
<1> QED BY <1>1, <1>3, <1>4

\* "Persists to allowlist.conf [email]": after any commands whose last save was
\* reported as done, the process starts again with the rules it had, of all four
\* lists, when the rules of [email] fit a line and have no commas and no write was
\* cut short: for any number of rules and commands, saves that could not open the
\* file, restarts in the middle of a command, and any text that is WellFormed.
THEOREM RulesSurviveRestart == RulesFit => (MailSpec => RestartKeepsRules)
<1> SUFFICES ASSUME RulesFit PROVE MailSpec => RestartKeepsRules
  OBVIOUS
<1>1. MailInit => RulesInv
  BY RulesStart
<1>2. RulesInv /\ [MailNext]_mailVars => RulesInv'
  BY RulesStep
<1>3. RulesInv /\ [MailNext]_mailVars
        => [(restarts' # restarts /\ cmd = "none" /\ saved /\ ~torn /\ Fits(email))
              => lists' = lists]_mailVars
  BY RestartStep
<1> QED BY <1>1, <1>2, <1>3, PTL DEF MailSpec, RestartKeepsRules

----------------------------------------------------------------------------
(* The files of memory/ *)

Threads == Callers \cup {Main}

\* A record with the fields of NoCall.
IsCall(r) ==
  r = [pc |-> r.pc, op |-> r.op, section |-> r.section, key |-> r.key,
       value |-> r.value, content |-> r.content, result |-> r.result]

CallTypes ==
  /\ call = [c \in Threads |-> call[c]]
  /\ \A c \in Threads : IsCall(call[c])

Holding(c) == call[c].pc \in {"write", "rename", "unlock", "dead"}

\* Only the holder of the mutex is inside memory_store, and whoever ended with
\* it was cancelled.
Exclusive ==
  /\ mu # None => mu \in Threads /\ Holding(mu)
  /\ \A c \in Threads : Holding(c) => mu = c
  /\ \A c \in Threads : call[c].pc = "dead" => c \in Subagents

\* Tools run when the boot is over; the main thread stores only in a migration.
InBoot ==
  /\ ~Running => \A c \in Callers : call[c] = NoCall
  /\ boot # "unlink" => call[Main] = NoCall

\* What the holder has read is what the file still holds; the temporary file is
\* the update of that.
Current ==
  \A c \in Threads :
    /\ call[c].pc \in {"write", "rename"} => call[c].content = read_memory_file
    /\ call[c].pc = "rename" =>
         TMP \in DOMAIN dir /\ dir[TMP] \in Written(Update(c, call[c].content))

MemoryInv == CallTypes /\ Exclusive /\ InBoot /\ Current

LEMMA NoCallShape ==
  IsCall(NoCall) /\ NoCall.pc = "idle"
  BY DEF NoCall, IsCall

LEMMA EnterShape ==
  ASSUME NEW op, NEW section, NEW key, NEW value
  PROVE  /\ IsCall(Enter(op, section, key, value))
         /\ Enter(op, section, key, value).pc = "lock"
  BY DEF Enter, NoCall, IsCall

\* The file is what it was when its text and its presence are.
LEMMA SameFile ==
  ASSUME MEMORY_FILE \in DOMAIN dir <=> MEMORY_FILE \in DOMAIN dir',
         MEMORY_FILE \in DOMAIN dir => dir'[MEMORY_FILE] = dir[MEMORY_FILE]
  PROVE  read_memory_file' = read_memory_file
  BY DEF read_memory_file

LEMMA MemoryStart == MemoryInit => MemoryInv
  BY NoCallShape, MemoryAssumption DEF MemoryInit, MemoryInv, CallTypes,
     Exclusive, InBoot, Current, Holding, Threads

\* A step of one thread inside a call keeps the others where they are.
LEMMA OneThread ==
  ASSUME CallTypes, NEW c \in Threads, NEW r, IsCall(r),
         call' = [call EXCEPT ![c] = r]
  PROVE  CallTypes' /\ call'[c] = r /\ \A d \in Threads \ {c} : call'[d] = call[d]
  BY DEF CallTypes

\* The fields that a step of the call sets.
LEMMA SetPc ==
  ASSUME NEW r, IsCall(r), NEW p
  PROVE  LET s == [r EXCEPT !.pc = p]
         IN IsCall(s) /\ s.pc = p /\ s.section = r.section /\ s.key = r.key
              /\ s.value = r.value /\ s.content = r.content
  BY DEF IsCall

LEMMA SetResult ==
  ASSUME NEW r, IsCall(r), NEW v
  PROVE  LET s == [r EXCEPT !.result = v]
         IN IsCall(s) /\ s.pc = r.pc
  BY DEF IsCall

\* A thread inside a call is the main thread in a migration, or a caller in a
\* running process.
LEMMA WhoServes ==
  ASSUME MemoryInv, NEW c \in Threads, call[c].pc # "idle"
  PROVE  (Running \/ c = Main) /\ (boot = "unlink" \/ c # Main)
  BY NoCallShape, MemoryAssumption DEF MemoryInv, InBoot, Running, Threads

\* InBoot holds after the step of a thread that was inside a call.
LEMMA ServeInBoot ==
  ASSUME MemoryInv, NEW c \in Threads, call[c].pc # "idle", boot' = boot,
         \A d \in Threads \ {c} : call'[d] = call[d]
  PROVE  InBoot'
  BY WhoServes, MemoryAssumption DEF MemoryInv, InBoot, Running, Threads

LEMMA LockKeeps ==
  ASSUME MemoryInv, NEW c \in Threads, StoreLock(c)
  PROVE  MemoryInv'
<1>1. IsCall(call[c]) /\ CallTypes
  BY DEF MemoryInv, CallTypes
<1>2. PICK q, r : /\ q = [call[c] EXCEPT !.pc = "write"]
                  /\ r = [q EXCEPT !.content = read_memory_file]
                  /\ call' = [call EXCEPT ![c] = r]
  BY DEF StoreLock
<1>3. IsCall(r) /\ r.pc = "write" /\ r.content = read_memory_file
  <2>1. IsCall(q) /\ q.pc = "write"
    BY <1>1, <1>2, SetPc
  <2>2. r.content = read_memory_file
    BY <1>2, <2>1 DEF IsCall
  <2>3. IsCall(r) /\ r.pc = q.pc
    BY <1>2, <2>1 DEF IsCall
  <2> QED BY <2>1, <2>2, <2>3
<1>4. CallTypes' /\ call'[c] = r /\ \A d \in Threads \ {c} : call'[d] = call[d]
  BY <1>1, <1>2, <1>3, OneThread
<1>5. \A d \in Threads : ~Holding(d)
  BY MemoryAssumption DEF StoreLock, MemoryInv, Exclusive, Threads
<1>6. Exclusive'
  BY <1>3, <1>4, <1>5 DEF StoreLock, Exclusive, Holding
<1>7. InBoot'
  BY <1>4, ServeInBoot DEF StoreLock, startVars
<1>8. Current'
  BY <1>3, <1>4, <1>5 DEF StoreLock, Current, Holding, read_memory_file
<1> QED BY <1>4, <1>6, <1>7, <1>8 DEF MemoryInv

LEMMA WriteKeeps ==
  ASSUME MemoryInv, NEW c \in Threads, StoreWrite(c)
  PROVE  MemoryInv'
<1> DEFINE r == [call[c] EXCEPT !.pc = "rename"]
<1>1. IsCall(call[c]) /\ CallTypes
  BY DEF MemoryInv, CallTypes
<1>2. call' = [call EXCEPT ![c] = r]
  BY DEF StoreWrite
<1>3. /\ IsCall(r) /\ r.pc = "rename" /\ r.content = call[c].content
      /\ r.section = call[c].section /\ r.key = call[c].key /\ r.value = call[c].value
  BY <1>1, SetPc
<1> HIDE DEF r
<1>4. CallTypes' /\ call'[c] = r /\ \A d \in Threads \ {c} : call'[d] = call[d]
  BY <1>1, <1>2, <1>3, OneThread
<1>5. Holding(c) /\ \A d \in Threads \ {c} : ~Holding(d)
  BY DEF StoreWrite, MemoryInv, Exclusive, Holding
<1>6. Exclusive'
  BY <1>3, <1>4, <1>5 DEF StoreWrite, MemoryInv, Exclusive, Holding
<1>7. InBoot'
  BY <1>4, ServeInBoot DEF StoreWrite, startVars
<1>8. PICK text \in Written(Update(c, call[c].content)) : dir' = Creating(TMP, text)
  BY DEF StoreWrite
<1>9. TMP \in DOMAIN dir' /\ dir'[TMP] = text
  BY <1>8 DEF Creating
<1>10. read_memory_file' = read_memory_file
  BY <1>8, SameFile DEF Creating, TMP, MEMORY_FILE
<1>11. Update(c, call[c].content)' = Update(c, call[c].content)
  BY <1>3, <1>4 DEF Update
<1>12. Current'
  <2>1. call[c].content = read_memory_file
    BY DEF StoreWrite, MemoryInv, Current
  <2>2. Written(Update(c, call[c].content))' = Written(Update(c, call[c].content))
    BY <1>11 DEF Written
  <2>3. \A d \in Threads \ {c} : call'[d].pc \notin {"write", "rename"}
    BY <1>4, <1>5 DEF Holding
  <2> QED BY <1>3, <1>4, <1>8, <1>9, <1>10, <2>1, <2>2, <2>3 DEF Current
<1> QED BY <1>4, <1>6, <1>7, <1>12 DEF MemoryInv

\* The two ways out of write_memory_file, with the mutex held.
LEMMA WrittenKeeps ==
  ASSUME MemoryInv, NEW c \in Threads, StoreRename(c) \/ StoreFails(c)
  PROVE  MemoryInv'
<1>1. IsCall(call[c]) /\ CallTypes
  BY DEF MemoryInv, CallTypes
<1>2. PICK v, q, r : /\ q = [call[c] EXCEPT !.pc = "unlock"]
                     /\ r = [q EXCEPT !.result = v]
                     /\ call' = [call EXCEPT ![c] = r]
  <2>1. CASE StoreRename(c)
    BY <2>1 DEF StoreRename
  <2>2. CASE StoreFails(c)
    BY <2>2 DEF StoreFails
  <2> QED BY <2>1, <2>2
<1>3. IsCall(r) /\ r.pc = "unlock"
  <2>1. IsCall(q) /\ q.pc = "unlock"
    BY <1>1, <1>2, SetPc
  <2> QED BY <1>2, <2>1, SetResult
<1>4. CallTypes' /\ call'[c] = r /\ \A d \in Threads \ {c} : call'[d] = call[d]
  BY <1>1, <1>2, <1>3, OneThread
<1>5. Holding(c) /\ mu = c /\ \A d \in Threads \ {c} : ~Holding(d)
  BY DEF StoreRename, StoreFails, MemoryInv, Exclusive, Holding
<1>6. mu' = mu /\ boot' = boot
  BY DEF StoreRename, StoreFails, startVars
<1>7. Exclusive'
  BY <1>3, <1>4, <1>5, <1>6 DEF MemoryInv, Exclusive, Holding
<1>8. InBoot'
  BY <1>4, <1>5, <1>6, ServeInBoot DEF Holding
<1>9. Current'
  BY <1>3, <1>4, <1>5 DEF Current, Holding
<1> QED BY <1>4, <1>7, <1>8, <1>9 DEF MemoryInv

LEMMA UnlockKeeps ==
  ASSUME MemoryInv, NEW c \in Threads, StoreUnlock(c)
  PROVE  MemoryInv'
<1> DEFINE r == [call[c] EXCEPT !.pc = "return"]
<1>1. IsCall(call[c]) /\ CallTypes
  BY DEF MemoryInv, CallTypes
<1>2. call' = [call EXCEPT ![c] = r]
  BY DEF StoreUnlock
<1>3. IsCall(r) /\ r.pc = "return"
  BY <1>1, SetPc
<1> HIDE DEF r
<1>4. CallTypes' /\ call'[c] = r /\ \A d \in Threads \ {c} : call'[d] = call[d]
  BY <1>1, <1>2, <1>3, OneThread
<1>5. \A d \in Threads \ {c} : ~Holding(d)
  BY DEF StoreUnlock, MemoryInv, Exclusive, Holding
<1>6. Exclusive'
  BY <1>3, <1>4, <1>5 DEF StoreUnlock, Exclusive, Holding
<1>7. InBoot'
  BY <1>4, ServeInBoot DEF StoreUnlock, startVars
<1>8. Current'
  BY <1>3, <1>4, <1>5 DEF Current, Holding
<1> QED BY <1>4, <1>6, <1>7, <1>8 DEF MemoryInv

LEMMA RecallKeeps ==
  ASSUME MemoryInv, NEW c \in Threads, RecallRead(c)
  PROVE  MemoryInv'
<1>1. IsCall(call[c]) /\ CallTypes
  BY DEF MemoryInv, CallTypes
<1>2. PICK v, q, r : /\ q = [call[c] EXCEPT !.pc = "return"]
                     /\ r = [q EXCEPT !.result = v]
                     /\ call' = [call EXCEPT ![c] = r]
  BY DEF RecallRead
<1>3. IsCall(r) /\ r.pc = "return"
  <2>1. IsCall(q) /\ q.pc = "return"
    BY <1>1, <1>2, SetPc
  <2> QED BY <1>2, <2>1, SetResult
<1>4. CallTypes' /\ call'[c] = r /\ \A d \in Threads \ {c} : call'[d] = call[d]
  BY <1>1, <1>2, <1>3, OneThread
<1>5. \A d \in Threads : ~Holding(d)
  BY MemoryAssumption DEF RecallRead, MemoryInv, Exclusive, Threads
<1>6. Exclusive'
  BY <1>3, <1>4, <1>5 DEF RecallRead, MemoryInv, Exclusive, Holding
<1>7. InBoot'
  BY <1>4, ServeInBoot DEF RecallRead, startVars
<1>8. Current'
  BY <1>3, <1>4, <1>5 DEF Current, Holding
<1> QED BY <1>4, <1>6, <1>7, <1>8 DEF MemoryInv

\* A cancelled sub-agent ends with the mutex; what it has written of the temporary
\* file is not read again.
LEMMA CancelKeeps ==
  ASSUME MemoryInv, NEW c \in Threads, Cancel(c)
  PROVE  MemoryInv'
<1> DEFINE r == [call[c] EXCEPT !.pc = "dead"]
<1>1. IsCall(call[c]) /\ CallTypes
  BY DEF MemoryInv, CallTypes
<1>2. call' = [call EXCEPT ![c] = r] /\ c \in Subagents /\ mu' = c /\ boot' = boot
  BY DEF Cancel, startVars
<1>3. IsCall(r) /\ r.pc = "dead"
  BY <1>1, SetPc
<1> HIDE DEF r
<1>4. CallTypes' /\ call'[c] = r /\ \A d \in Threads \ {c} : call'[d] = call[d]
  BY <1>1, <1>2, <1>3, OneThread
<1>5. call[c].pc \in {"lock", "write"} /\ \A d \in Threads \ {c} : ~Holding(d)
  BY MemoryAssumption DEF Cancel, MemoryInv, Exclusive, Holding, Threads
<1>6. Exclusive'
  BY <1>2, <1>3, <1>4, <1>5 DEF Exclusive, Holding
<1>7. InBoot'
  BY <1>2, <1>4, <1>5, ServeInBoot
<1>8. Current'
  BY <1>3, <1>4, <1>5 DEF Current, Holding
<1> QED BY <1>4, <1>6, <1>7, <1>8 DEF MemoryInv

LEMMA ToolKeeps ==
  ASSUME MemoryInv, NEW c \in Callers, ToolCall(c) \/ Return(c)
  PROVE  MemoryInv'
<1>1. PICK r : /\ IsCall(r) /\ r.pc \in {"idle", "lock"}
               /\ r = NoCall \/ Running
               /\ call' = [call EXCEPT ![c] = r]
  <2>1. CASE ToolCall(c)
    BY <2>1, EnterShape DEF ToolCall
  <2>2. CASE Return(c)
    BY <2>2, NoCallShape DEF Return
  <2> QED BY <2>1, <2>2
<1>2. c \in Threads /\ c # Main /\ CallTypes
  BY MemoryAssumption DEF Threads, MemoryInv
<1>3. CallTypes' /\ call'[c] = r /\ \A d \in Threads \ {c} : call'[d] = call[d]
  BY <1>1, <1>2, OneThread
<1>4. UNCHANGED <<dir, mu, boot>> /\ ~Holding(c)
  BY NoCallShape DEF ToolCall, Return, startVars, Holding
<1>5. Exclusive'
  BY <1>1, <1>2, <1>3, <1>4 DEF MemoryInv, Exclusive, Holding
<1>6. InBoot'
  BY <1>1, <1>2, <1>3, <1>4 DEF MemoryInv, InBoot, Running, Threads
<1>7. \A d \in Threads \ {c} :
        Update(d, call[d].content)' = Update(d, call[d].content)
  BY <1>3 DEF Update
<1>8. read_memory_file' = read_memory_file
  BY <1>4 DEF read_memory_file
<1>9. Current'
  BY <1>1, <1>3, <1>4, <1>7, <1>8 DEF MemoryInv, Current, Written
<1> QED BY <1>3, <1>5, <1>6, <1>9 DEF MemoryInv

\* While the process boots no thread is inside memory_store, but for the main
\* thread in a migration.
LEMMA MemoryBootKeeps ==
  ASSUME MemoryInv, MemoryBoot
  PROVE  MemoryInv'
<1>1. CASE \E f \in LegacyFiles : MigrateRead(f)
  <2>1. PICK f \in LegacyFiles : MigrateRead(f)
    BY <1>1
  <2>2. PICK r : /\ IsCall(r) /\ r.pc \in {"return", "lock"}
                 /\ call' = [call EXCEPT ![Main] = r]
    <3>1. /\ IsCall([NoCall EXCEPT !.pc = "return"])
          /\ [NoCall EXCEPT !.pc = "return"].pc = "return"
      BY NoCallShape, SetPc
    <3> QED BY <2>1, <3>1, EnterShape DEF MigrateRead
  <2>3. Main \in Threads /\ CallTypes
    BY DEF Threads, MemoryInv
  <2>4. /\ CallTypes' /\ call'[Main] = r
        /\ \A d \in Threads \ {Main} : call'[d] = call[d]
    BY <2>2, <2>3, OneThread
  <2>5. UNCHANGED <<dir, mu>> /\ boot = "migrate" /\ boot' = "unlink"
    BY <2>1 DEF MigrateRead
  <2>6. \A d \in Threads : ~Holding(d)
    BY <2>5, NoCallShape DEF MemoryInv, InBoot, Running, Threads, Holding
  <2>7. \A d \in Threads : ~Holding(d)'
    BY <2>2, <2>4, <2>6 DEF Holding
  <2>8. Exclusive' /\ Current'
    BY <2>5, <2>6, <2>7 DEF MemoryInv, Exclusive, Current, Holding
  <2>9. InBoot'
    BY <2>4, <2>5, MemoryAssumption DEF MemoryInv, InBoot, Running, Threads
  <2> QED BY <2>4, <2>8, <2>9 DEF MemoryInv
<1>2. CASE MigrateUnlink
  <2>1. /\ CallTypes' /\ call'[Main] = NoCall
        /\ \A d \in Threads \ {Main} : call'[d] = call[d]
    BY <1>2, OneThread, NoCallShape DEF MigrateUnlink, Threads, MemoryInv
  <2>2. mu' = mu /\ boot = "unlink" /\ boot' = "migrate" /\ call[Main].pc = "return"
    BY <1>2 DEF MigrateUnlink
  <2>3. \A d \in Threads : ~Holding(d) /\ call'[d] = NoCall
    BY <2>1, <2>2, NoCallShape DEF MemoryInv, InBoot, Running, Threads, Holding
  <2>4. Exclusive' /\ Current' /\ InBoot'
    BY <2>2, <2>3, NoCallShape DEF MemoryInv, Exclusive, Current, Holding, InBoot, Threads
  <2> QED BY <2>1, <2>4 DEF MemoryInv
<1>3. CASE \/ MemorySeed \/ BootCopy \/ history_create \/ BootLog \/ BootCreate
           \/ create_initial_memory \/ BootDone
  <2>1. UNCHANGED <<mu, call>> /\ ~Running /\ boot # "unlink" /\ boot' # "unlink"
    BY <1>3 DEF MemorySeed, BootCopy, history_create, BootLog, BootCreate,
       create_initial_memory, BootDone, BootStep, Running
  <2>2. \A d \in Threads : call'[d] = NoCall
    BY <2>1 DEF MemoryInv, InBoot, Threads
  <2>3. CallTypes'
    BY <2>1 DEF MemoryInv, CallTypes
  <2>4. Exclusive' /\ Current' /\ InBoot'
    BY <2>1, <2>2, NoCallShape DEF MemoryInv, Exclusive, Current, Holding, InBoot,
       Threads
  <2> QED BY <2>3, <2>4 DEF MemoryInv
<1> QED BY <1>1, <1>2, <1>3 DEF MemoryBoot

LEMMA MemoryRestKeeps ==
  ASSUME MemoryInv, LogTurn \/ Midnight \/ Crash \/ UNCHANGED memoryVars
  PROVE  MemoryInv'
<1>1. CASE Crash
  <2>1. call' = [c \in Threads |-> NoCall] /\ mu' = None
    BY <1>1 DEF Crash, MemoryInv, CallTypes
  <2> QED BY <2>1, NoCallShape, MemoryAssumption DEF MemoryInv, CallTypes, Exclusive,
             InBoot, Current, Holding, Threads
<1>2. CASE LogTurn \/ Midnight \/ UNCHANGED memoryVars
  <2>1. UNCHANGED <<mu, call, boot>>
    BY <1>2 DEF LogTurn, Midnight, memoryVars, fileVars, startVars
  <2>2. /\ read_memory_file' = read_memory_file
        /\ TMP \in DOMAIN dir => TMP \in DOMAIN dir' /\ dir'[TMP] = dir[TMP]
    <3>1. CASE LogTurn
      <4>1. PICK text : dir' = Creating(HISTORY, text)
        BY <3>1 DEF LogTurn, history_log
      <4> QED BY <4>1, SameFile DEF Creating, HISTORY, MEMORY_FILE, TMP
    <3>2. CASE dir' = dir
      BY <3>2 DEF read_memory_file
    <3> QED BY <1>2, <3>1, <3>2 DEF Midnight, memoryVars, fileVars
  <2>3. CallTypes' /\ Exclusive' /\ InBoot'
    BY <2>1 DEF MemoryInv, CallTypes, Exclusive, InBoot, Holding, Running
  <2>4. \A d \in Threads : Update(d, call[d].content)' = Update(d, call[d].content)
    BY <2>1 DEF Update
  <2>5. Current'
    BY <2>1, <2>2, <2>4 DEF MemoryInv, Current, Written
  <2> QED BY <2>3, <2>5 DEF MemoryInv
<1> QED BY <1>1, <1>2

LEMMA MemoryStep == MemoryInv /\ [MemoryNext]_memoryVars => MemoryInv'
<1> SUFFICES ASSUME MemoryInv, [MemoryNext]_memoryVars PROVE MemoryInv'
  OBVIOUS
<1>1. ASSUME NEW c \in Threads, Serve(c) PROVE MemoryInv'
  BY <1>1, LockKeeps, WriteKeeps, WrittenKeeps, UnlockKeeps, RecallKeeps, CancelKeeps DEF Serve
<1> QED BY <1>1, ToolKeeps, MemoryBootKeeps, MemoryRestKeeps DEF MemoryNext, Threads

\* Whoever holds the mutex of the memory is in memory_store and on its way to
\* release it, whatever fails, unless it is a sub-agent that its watchdog has
\* cancelled there: the cancellation is the only way to lose the mutex.
THEOREM MutexAlwaysReleased == MemorySpec => []MutexIsReleased
<1>1. MemoryInv => MutexIsReleased
  BY DEF MemoryInv, Exclusive, Holding, MutexIsReleased
<1> QED BY MemoryStart, MemoryStep, <1>1, PTL DEF MemorySpec

\* Of any number of threads that store, none undoes what another has stored: the
\* rename replaces the file by the update of what the file is then, not of what
\* it was before others wrote.  The steps of the boot, which write the file
\* without the mutex, and crashes are covered.
THEOREM NoUpdateLost == MemorySpec => StoresUpdateCurrent
<1>1. MemoryInv => \A c \in Threads : StoreRename(c) =>
        dir'[MEMORY_FILE] \in Written(Update(c, read_memory_file))
  <2> SUFFICES ASSUME MemoryInv, NEW c \in Threads, StoreRename(c)
               PROVE  dir'[MEMORY_FILE] \in Written(Update(c, read_memory_file))
    OBVIOUS
  <2>1. /\ call[c].content = read_memory_file
        /\ dir[TMP] \in Written(Update(c, call[c].content))
    BY DEF StoreRename, MemoryInv, Current
  <2>2. dir'[MEMORY_FILE] = dir[TMP]
    BY DEF StoreRename
  <2> QED BY <2>1, <2>2
<1>2. MemoryInv /\ [MemoryNext]_memoryVars =>
        [\A c \in Callers \cup {Main} : StoreRename(c) =>
           dir'[MEMORY_FILE] \in Written(Update(c, read_memory_file))]_memoryVars
  BY <1>1 DEF Threads
<1> QED BY MemoryStart, MemoryStep, <1>2, PTL DEF MemorySpec, StoresUpdateCurrent

----------------------------------------------------------------------------
(* What MEMORY.md says: texts and the facts read from them *)

Marks ==
  STRING \cup Keys \cup Range(Sections) \cup Range(Days) \cup {"", HISTORY, Notes}
    \cup DOMAIN Legacy \cup {canonicalise_section(c) : c \in Categories}
    \cup {v.first : v \in Values}
Kinds == {"heading", "bullet", "text", "entry", "unterminated"}
FileLine == [kind : Kinds, key : Marks, value : Marks]

LEMMA LineFields ==
  ASSUME NEW kind, NEW key, NEW value
  PROVE  /\ Line(kind, key, value).kind = kind
         /\ Line(kind, key, value).key = key
         /\ Line(kind, key, value).value = value
         /\ kind \in Kinds /\ key \in Marks /\ value \in Marks =>
              Line(kind, key, value) \in FileLine
  BY DEF Line, FileLine

LEMMA HeadingFields ==
  ASSUME NEW s
  PROVE  Heading(s).kind = "heading" /\ Heading(s).key = s /\ Heading(s).value = ""
  BY DEF Heading, Line

LEMMA HeadingIs ==
  ASSUME NEW l \in FileLine, NEW s, l.kind = "heading" => l.value = ""
  PROVE  l = Heading(s) <=> l.kind = "heading" /\ l.key = s
<1>1. CASE l.kind = "heading" /\ l.key = s
  BY <1>1 DEF Heading, Line, FileLine
<1>2. CASE l = Heading(s)
  BY <1>2, HeadingFields
<1> QED BY <1>1, <1>2

LEMMA HeadingsDiffer ==
  ASSUME NEW s, NEW r, Heading(s) = Heading(r)
  PROVE  s = r
<1>1. Heading(s).key = s /\ Heading(r).key = r
  BY HeadingFields
<1> QED BY <1>1

\* The section that is open at the end of a text.
Opens(text, s) == OpenAt(text, Len(text), s)

\* The line says this of the key when the section is open above it.
Speaks(line, key) == line.kind = "bullet" /\ existing_key(line) = key

Hits(text, s, k) == {i \in Under(text, s) : text[i].kind = "bullet" /\ existing_key(text[i]) = k}

LEMMA OpenStep ==
  ASSUME NEW text, NEW i \in Nat, NEW s
  PROVE  OpenAt(text, i + 1, s) <=>
           IF text[i + 1].kind = "heading" THEN text[i + 1] = Heading(s)
           ELSE OpenAt(text, i, s)
<1>1. CASE text[i + 1].kind = "heading"
  <2>1. ASSUME OpenAt(text, i + 1, s) PROVE text[i + 1] = Heading(s)
    <3>1. PICK h \in 1..(i + 1) :
            /\ text[h] = Heading(s)
            /\ \A j \in (h + 1)..(i + 1) : text[j].kind # "heading"
      BY <2>1, Zenon DEF OpenAt
    <3>2. h = i + 1
      <4>1. i + 1 \notin (h + 1)..(i + 1)
        BY <1>1, <3>1, Zenon
      <4> QED BY <4>1
    <3> QED BY <3>1, <3>2
  <2>2. ASSUME text[i + 1] = Heading(s) PROVE OpenAt(text, i + 1, s)
    <3>1. i + 1 \in 1..(i + 1) /\ ((i + 1) + 1)..(i + 1) = {}
      OBVIOUS
    <3> QED BY <2>2, <3>1, Zenon DEF OpenAt
  <2> QED BY <1>1, <2>1, <2>2
<1>2. CASE text[i + 1].kind # "heading"
  <2>1. ASSUME OpenAt(text, i + 1, s) PROVE OpenAt(text, i, s)
    <3>1. PICK h \in 1..(i + 1) :
            /\ text[h] = Heading(s)
            /\ \A j \in (h + 1)..(i + 1) : text[j].kind # "heading"
      BY <2>1, Zenon DEF OpenAt
    <3>2. Heading(s).kind = "heading"
      BY HeadingFields
    <3>3. h # i + 1
      BY <1>2, <3>1, <3>2, Zenon
    <3>4. h \in 1..i /\ \A j \in (h + 1)..i : j \in (h + 1)..(i + 1)
      BY <3>3
    <3> QED BY <3>1, <3>4, Zenon DEF OpenAt
  <2>2. ASSUME OpenAt(text, i, s) PROVE OpenAt(text, i + 1, s)
    <3>1. PICK h \in 1..i : /\ text[h] = Heading(s)
                            /\ \A j \in (h + 1)..i : text[j].kind # "heading"
      BY <2>2, Zenon DEF OpenAt
    <3>2. h \in 1..(i + 1) /\ \A j \in (h + 1)..(i + 1) : j = i + 1 \/ j \in (h + 1)..i
      OBVIOUS
    <3> QED BY <1>2, <3>1, <3>2, Zenon DEF OpenAt
  <2> QED BY <1>2, <2>1, <2>2
<1> QED BY <1>1, <1>2

LEMMA UnderOpen ==
  ASSUME NEW text, NEW i \in DOMAIN text, i \in Nat \ {0}, NEW s
  PROVE  i \in Under(text, s) <=> text[i].kind # "heading" /\ OpenAt(text, i - 1, s)
<1>1. ASSUME i \in Under(text, s)
      PROVE  text[i].kind # "heading" /\ OpenAt(text, i - 1, s)
  <2>1. PICK h \in 1..(i - 1) : /\ text[h] = Heading(s)
                                /\ \A j \in (h + 1)..i : text[j].kind # "heading"
    BY <1>1, Zenon DEF Under
  <2>2. i \in (h + 1)..i /\ \A j \in (h + 1)..(i - 1) : j \in (h + 1)..i
    OBVIOUS
  <2> QED BY <2>1, <2>2, Zenon DEF OpenAt
<1>2. ASSUME text[i].kind # "heading", OpenAt(text, i - 1, s)
      PROVE  i \in Under(text, s)
  <2>1. PICK h \in 1..(i - 1) : /\ text[h] = Heading(s)
                                /\ \A j \in (h + 1)..(i - 1) : text[j].kind # "heading"
    BY <1>2, Zenon DEF OpenAt
  <2>2. \A j \in (h + 1)..i : j = i \/ j \in (h + 1)..(i - 1)
    OBVIOUS
  <2> QED BY <1>2, <2>1, <2>2, Zenon DEF Under
<1> QED BY <1>1, <1>2

\* Sections exclude each other.
LEMMA OneOpen ==
  ASSUME NEW text, NEW i \in Nat, NEW s, NEW r, OpenAt(text, i, s), OpenAt(text, i, r)
  PROVE  s = r
<1>1. PICK h \in 1..i : /\ text[h] = Heading(s)
                        /\ \A j \in (h + 1)..i : text[j].kind # "heading"
  BY Zenon DEF OpenAt
<1>2. PICK g \in 1..i : /\ text[g] = Heading(r)
                        /\ \A j \in (g + 1)..i : text[j].kind # "heading"
  BY Zenon DEF OpenAt
<1>3. Heading(s).kind = "heading" /\ Heading(r).kind = "heading"
  BY HeadingFields
<1>4. ~(h < g) /\ ~(g < h)
  <2>1. ASSUME h < g PROVE FALSE
    <3>1. g \in (h + 1)..i
      BY <2>1
    <3> QED BY <3>1, <1>1, <1>2, <1>3, Zenon
  <2>2. ASSUME g < h PROVE FALSE
    <3>1. h \in (g + 1)..i
      BY <2>2
    <3> QED BY <3>1, <1>1, <1>2, <1>3, Zenon
  <2> QED BY <2>1, <2>2
<1>5. h = g
  BY <1>4
<1> QED BY <1>1, <1>2, <1>5, HeadingsDiffer, Zenon

\* Texts that begin alike.
Begins(u, t, n) == \A j \in 1..n : u[j] = t[j]

LEMMA BeginOpen ==
  ASSUME NEW t, NEW u, NEW n \in Nat, Begins(u, t, n), NEW i \in 0..n, NEW s
  PROVE  OpenAt(u, i, s) <=> OpenAt(t, i, s)
<1>1. \A h \in 1..i : h \in 1..n /\ \A j \in (h + 1)..i : j \in 1..n
  OBVIOUS
<1> QED BY <1>1, Zenon DEF OpenAt, Begins

LEMMA BeginUnder ==
  ASSUME NEW t, NEW u, NEW n \in Nat, Begins(u, t, n), 1..n \subseteq DOMAIN t,
         1..n \subseteq DOMAIN u, NEW i \in 1..n, NEW s
  PROVE  i \in Under(u, s) <=> i \in Under(t, s)
<1>1. i - 1 \in 0..n /\ i \in Nat \ {0} /\ i \in DOMAIN t /\ i \in DOMAIN u
  OBVIOUS
<1>2. OpenAt(u, i - 1, s) <=> OpenAt(t, i - 1, s)
  BY <1>1, BeginOpen, Zenon
<1>3. u[i] = t[i]
  BY DEF Begins
<1> QED BY <1>1, <1>2, <1>3, UnderOpen, Zenon

\* The value that is recalled is that of the first hit.
LEMMA RecallFirst ==
  ASSUME NEW t \in Seq(FileLine), NEW s, NEW k
  PROVE  /\ Hits(t, s, k) \in SUBSET (1..Len(t))
         /\ Hits(t, s, k) = {} => bullet_value(t, s, k) = None
         /\ \A m \in Hits(t, s, k) :
              (\A j \in Hits(t, s, k) : m <= j) => bullet_value(t, s, k) = t[m].value
         /\ Hits(t, s, k) # {} =>
              \E m \in Hits(t, s, k) : \A j \in Hits(t, s, k) : m <= j
<1> DEFINE H == Hits(t, s, k)
           m == CHOOSE i \in H : \A j \in H : i <= j
<1>1. H \in SUBSET (1..Len(t)) /\ H \in SUBSET Nat
  BY DEF Hits, Under
<1>2. bullet_value(t, s, k) = IF H = {} THEN None ELSE t[m].value
  BY Zenon DEF bullet_value, Hits
<1> HIDE DEF H
<1>3. H # {} => \E i \in H : \A j \in H : i <= j
  BY <1>1, Least, Zenon
<1>4. ASSUME NEW i \in H, \A j \in H : i <= j PROVE bullet_value(t, s, k) = t[i].value
  <2>1. m \in H /\ \A j \in H : m <= j
    BY <1>4, Zenon
  <2> HIDE DEF m
  <2>2. m = i
    <3>1. m <= i /\ i <= m /\ m \in Nat /\ i \in Nat
      BY <1>1, <1>4, <2>1
    <3> QED BY <3>1
  <2> QED BY <1>2, <1>4, <2>2, Zenon
<1> QED BY <1>1, <1>2, <1>3, <1>4, Zenon DEF H

\* Two texts say the same of a fact.
Agree(t, u, s, k) ==
  /\ Hits(t, s, k) = {} <=> Hits(u, s, k) = {}
  /\ bullet_value(t, s, k) = bullet_value(u, s, k)

LEMMA AgreeSym ==
  ASSUME NEW t, NEW u, NEW s, NEW k, Agree(t, u, s, k)
  PROVE  Agree(u, t, s, k)
  BY DEF Agree

LEMMA AgreeTrans ==
  ASSUME NEW t, NEW u, NEW w, NEW s, NEW k, Agree(t, u, s, k), Agree(u, w, s, k)
  PROVE  Agree(t, w, s, k)
  BY Zenon DEF Agree

\* What a text becomes with one line more.
More(t, u, line) ==
  /\ t \in Seq(FileLine) /\ u \in Seq(FileLine) /\ line \in FileLine
  /\ Len(u) = Len(t) + 1 /\ u[Len(t) + 1] = line /\ Begins(u, t, Len(t))

LEMMA AppendMore ==
  ASSUME NEW t \in Seq(FileLine), NEW line \in FileLine
  PROVE  More(t, Append(t, line), line) /\ Append(t, line) = t \o <<line>>
  BY DEF More, Begins

LEMMA MoreOpens ==
  ASSUME NEW t, NEW u, NEW line, More(t, u, line), NEW s
  PROVE  Opens(u, s) <=> IF line.kind = "heading" THEN line = Heading(s) ELSE Opens(t, s)
<1>1. Len(t) \in Nat /\ Len(t) \in 0..Len(t)
  BY DEF More
<1>2. OpenAt(u, Len(t), s) <=> OpenAt(t, Len(t), s)
  BY <1>1, BeginOpen, Zenon DEF More
<1>3. OpenAt(u, Len(t) + 1, s) <=>
        IF u[Len(t) + 1].kind = "heading" THEN u[Len(t) + 1] = Heading(s)
        ELSE OpenAt(u, Len(t), s)
  BY <1>1, OpenStep
<1>4. Len(u) = Len(t) + 1 /\ u[Len(t) + 1] = line
  BY DEF More
<1> QED BY <1>2, <1>3, <1>4, Zenon DEF Opens

\* What one line more says of a fact.
HitsMore(t, u, line, s, k) ==
  /\ Speaks(line, k) /\ Opens(t, s) => Hits(u, s, k) = Hits(t, s, k) \cup {Len(t) + 1}
  /\ ~(Speaks(line, k) /\ Opens(t, s)) => Hits(u, s, k) = Hits(t, s, k)

LEMMA MoreHits ==
  ASSUME NEW t, NEW u, NEW line, More(t, u, line), NEW s, NEW k
  PROVE  HitsMore(t, u, line, s, k)
<1> DEFINE n == Len(t)
<1>1. /\ n \in Nat /\ n \in 0..n /\ (n + 1) - 1 = n /\ n + 1 \in Nat \ {0}
      /\ DOMAIN t = 1..n /\ DOMAIN u = 1..(n + 1) /\ 1..n \subseteq DOMAIN u
      /\ 1..n \subseteq DOMAIN t /\ n + 1 \in DOMAIN u /\ u[n + 1] = line
      /\ Begins(u, t, n) /\ DOMAIN u = 1..n \cup {n + 1} /\ n + 1 \notin 1..n
  BY DEF More
<1> HIDE DEF n
<1>2. ASSUME NEW i \in 1..n PROVE i \in Hits(u, s, k) <=> i \in Hits(t, s, k)
  <2>1. i \in Under(u, s) <=> i \in Under(t, s)
    BY <1>1, BeginUnder, Zenon
  <2>2. u[i] = t[i]
    BY <1>1, Zenon DEF Begins
  <2> QED BY <2>1, <2>2, Zenon DEF Hits
<1>3. n + 1 \in Hits(u, s, k) <=> Speaks(line, k) /\ Opens(t, s)
  <2>1. OpenAt(u, n, s) <=> Opens(t, s)
    BY <1>1, BeginOpen, Zenon DEF Opens, n
  <2>2. n + 1 \in Under(u, s) <=> line.kind # "heading" /\ OpenAt(u, (n + 1) - 1, s)
    BY <1>1, UnderOpen, Zenon
  <2>3. Speaks(line, k) => line.kind # "heading"
    BY DEF Speaks
  <2> QED BY <1>1, <2>1, <2>2, <2>3 DEF Hits, Speaks
<1>4. Hits(u, s, k) \subseteq DOMAIN u /\ Hits(t, s, k) \subseteq DOMAIN t
  BY DEF Hits, Under
<1>5. \A i : i \in Hits(u, s, k) <=>
        i \in Hits(t, s, k) \/ (i = n + 1 /\ Speaks(line, k) /\ Opens(t, s))
  BY <1>1, <1>2, <1>3, <1>4, Zenon
<1>6. CASE Speaks(line, k) /\ Opens(t, s)
  <2>1. Hits(u, s, k) = Hits(t, s, k) \cup {n + 1}
    BY <1>5, <1>6, Zenon
  <2> QED BY <1>6, <2>1, Zenon DEF n, HitsMore
<1>7. CASE ~(Speaks(line, k) /\ Opens(t, s))
  <2>1. Hits(u, s, k) = Hits(t, s, k)
    BY <1>5, <1>7, Zenon
  <2> QED BY <1>7, <2>1, Zenon DEF HitsMore
<1> QED BY <1>6, <1>7, Zenon

\* What one line more changes: a fact that was not there yet.
RecallMore(t, u, line, s, k) ==
  bullet_value(u, s, k) =
    IF Hits(t, s, k) # {} THEN bullet_value(t, s, k)
    ELSE IF Speaks(line, k) /\ Opens(t, s) THEN line.value ELSE None

LEMMA MoreRecall ==
  ASSUME NEW t, NEW u, NEW line, More(t, u, line), NEW s, NEW k
  PROVE  RecallMore(t, u, line, s, k)
<1> DEFINE n == Len(t)
           H == Hits(t, s, k)
           G == Hits(u, s, k)
<1>1. /\ t \in Seq(FileLine) /\ u \in Seq(FileLine) /\ n \in Nat /\ u[n + 1] = line
      /\ \A i \in 1..n : u[i] = t[i]
  BY DEF More, Begins
<1>2. /\ Speaks(line, k) /\ Opens(t, s) => G = H \cup {n + 1}
      /\ ~(Speaks(line, k) /\ Opens(t, s)) => G = H
  <2>1. HitsMore(t, u, line, s, k)
    BY MoreHits
  <2> QED BY <2>1, Zenon DEF HitsMore
<1>3. /\ H \in SUBSET (1..n)
      /\ H = {} => bullet_value(t, s, k) = None
      /\ \A m \in H : (\A j \in H : m <= j) => bullet_value(t, s, k) = t[m].value
      /\ H # {} => \E m \in H : \A j \in H : m <= j
  BY <1>1, RecallFirst, Zenon
<1>4. /\ G = {} => bullet_value(u, s, k) = None
      /\ \A m \in G : (\A j \in G : m <= j) => bullet_value(u, s, k) = u[m].value
  BY <1>1, RecallFirst, Zenon
<1> HIDE DEF H, G, n
<1>5. CASE H # {}
  <2>1. PICK m \in H : \A j \in H : m <= j
    BY <1>3, <1>5, Zenon
  <2>2. m \in G /\ \A j \in G : m <= j
    <3>1. m \in 1..n
      BY <1>3, <2>1
    <3>2. m <= n + 1
      BY <1>1, <3>1
    <3> QED BY <1>2, <2>1, <3>2
  <2>3. u[m] = t[m]
    <3>1. m \in 1..n
      BY <1>3, <2>1
    <3> QED BY <1>1, <3>1, Zenon
  <2> QED BY <1>3, <1>4, <1>5, <2>1, <2>2, <2>3, Zenon DEF H, G, RecallMore
<1>6. CASE H = {} /\ Speaks(line, k) /\ Opens(t, s)
  <2>1. G = {n + 1}
    BY <1>2, <1>6
  <2>2. n + 1 \in G /\ \A j \in G : n + 1 <= j
    BY <2>1, <1>1
  <2>3. bullet_value(u, s, k) = u[n + 1].value
    BY <1>4, <2>2, Zenon
  <2> QED BY <1>1, <1>6, <2>3, Zenon DEF H, RecallMore
<1>7. CASE H = {} /\ ~(Speaks(line, k) /\ Opens(t, s))
  <2>1. G = {}
    BY <1>2, <1>7
  <2> QED BY <1>4, <1>7, <2>1, Zenon DEF H, RecallMore
<1> QED BY <1>5, <1>6, <1>7, Zenon

\* The same line added to two texts.
BothGrow(t, u, tt, uu, line, s, k) ==
  /\ More(t, tt, line) /\ More(u, uu, line)
  /\ Agree(t, u, s, k) /\ (Opens(t, s) <=> Opens(u, s))

LEMMA BothMore ==
  ASSUME NEW t, NEW u, NEW tt, NEW uu, NEW line, NEW s, NEW k,
         BothGrow(t, u, tt, uu, line, s, k)
  PROVE  Agree(tt, uu, s, k)
<1> USE DEF BothGrow
<1>1. RecallMore(t, tt, line, s, k) /\ RecallMore(u, uu, line, s, k)
  BY MoreRecall
<1>2. HitsMore(t, tt, line, s, k) /\ HitsMore(u, uu, line, s, k)
  BY MoreHits
<1>3. Hits(tt, s, k) = {} <=> Hits(uu, s, k) = {}
  <2>1. CASE Speaks(line, k) /\ Opens(t, s)
    BY <1>2, <2>1 DEF HitsMore
  <2>2. CASE ~(Speaks(line, k) /\ Opens(t, s))
    BY <1>2, <2>2 DEF Agree, HitsMore
  <2> QED BY <2>1, <2>2
<1>4. bullet_value(tt, s, k) = bullet_value(uu, s, k)
  BY <1>1, Zenon DEF RecallMore, Agree
<1> QED BY <1>3, <1>4, Zenon DEF Agree

\* A line that says nothing of the fact.
LEMMA SilentMore ==
  ASSUME NEW t, NEW u, NEW line, More(t, u, line), NEW s, NEW k,
         ~(Speaks(line, k) /\ Opens(t, s))
  PROVE  Hits(u, s, k) = Hits(t, s, k) /\ Agree(t, u, s, k)
<1>1. t \in Seq(FileLine)
  BY DEF More
<1>2. Hits(u, s, k) = Hits(t, s, k)
  <2>1. HitsMore(t, u, line, s, k)
    BY MoreHits
  <2> QED BY <2>1, Zenon DEF HitsMore
<1>3. Hits(t, s, k) = {} => bullet_value(t, s, k) = None
  BY <1>1, RecallFirst, Zenon
<1>4. bullet_value(u, s, k) = bullet_value(t, s, k)
  <2>1. RecallMore(t, u, line, s, k)
    BY MoreRecall
  <2> QED BY <1>3, <2>1, Zenon DEF RecallMore
<1> QED BY <1>2, <1>4, Zenon DEF Agree

\* Lines that open no durable section, where none is open.
LEMMA NotesAdded ==
  ASSUME NEW t \in Seq(FileLine), NEW u \in Seq(FileLine), NEW s, ~Opens(t, s),
         \A i \in DOMAIN u : u[i] # Heading(s)
  PROVE  ~Opens(t \o u, s) /\ \A k : Hits(t \o u, s, k) = Hits(t, s, k) /\ Agree(t, t \o u, s, k)
<1> DEFINE n == Len(t)
           w == t \o u
<1>1. /\ w \in Seq(FileLine) /\ n \in Nat /\ n \in 0..n /\ Len(w) = n + Len(u) /\ Len(u) \in Nat
      /\ \A i \in 1..n : w[i] = t[i]
      /\ \A i \in DOMAIN w : i > n => w[i] = u[i - n] /\ i - n \in DOMAIN u
      /\ DOMAIN t = 1..n /\ DOMAIN w = 1..Len(w) /\ 1..n \subseteq DOMAIN w
  OBVIOUS
<1> HIDE DEF w, n
<1>2. ASSUME NEW i \in Nat, n <= i, i <= Len(w) PROVE ~OpenAt(w, i, s)
  <2> SUFFICES ASSUME NEW h \in 1..i, w[h] = Heading(s),
                      \A j \in (h + 1)..i : w[j].kind # "heading"
               PROVE  FALSE
    BY Zenon DEF OpenAt
  <2>1. h \in 1..n
    <3>1. h \in DOMAIN w
      BY <1>1, <1>2
    <3>2. ~(h > n)
      BY <3>1, <1>1
    <3> QED BY <3>2, <1>1
  <2>2. t[h] = Heading(s) /\ \A j \in (h + 1)..n : j \in (h + 1)..i /\ j \in 1..n
    BY <1>1, <1>2, <2>1
  <2>3. \A j \in (h + 1)..n : t[j].kind # "heading"
    <3> SUFFICES ASSUME NEW j \in (h + 1)..n PROVE t[j].kind # "heading"
      OBVIOUS
    <3>1. w[j].kind # "heading" /\ w[j] = t[j]
      BY <1>1, <2>2, Zenon
    <3> QED BY <3>1
  <2>4. OpenAt(t, n, s)
    BY <2>1, <2>2, <2>3, Zenon DEF OpenAt
  <2> QED BY <2>4, Zenon DEF Opens, n
<1>3. Begins(w, t, n)
  BY <1>1 DEF Begins
<1>4. ASSUME NEW k PROVE Hits(w, s, k) = Hits(t, s, k)
  <2>1. ASSUME NEW i \in 1..n PROVE i \in Hits(w, s, k) <=> i \in Hits(t, s, k)
    <3>1. 1..n \subseteq DOMAIN t
      BY <1>1
    <3>2. i \in Under(w, s) <=> i \in Under(t, s)
      BY <1>1, <1>3, <3>1, BeginUnder, Zenon
    <3>3. w[i] = t[i]
      BY <1>1
    <3> QED BY <3>2, <3>3, Zenon DEF Hits
  <2>2. ASSUME NEW i \in DOMAIN w, i \notin 1..n PROVE i \notin Hits(w, s, k)
    <3>1. i \in Nat \ {0} /\ i - 1 \in Nat /\ n <= i - 1 /\ i - 1 <= Len(w)
      BY <1>1, <2>2
    <3>2. ~OpenAt(w, i - 1, s)
      BY <3>1, <1>2, Zenon
    <3> QED BY <3>1, <3>2, UnderOpen, Zenon DEF Hits
  <2>3. Hits(w, s, k) \subseteq DOMAIN w /\ Hits(t, s, k) \subseteq 1..n
    BY <1>1 DEF Hits, Under
  <2> QED BY <2>1, <2>2, <2>3
<1>5. ASSUME NEW k PROVE Agree(t, w, s, k)
  <2> DEFINE H == Hits(t, s, k)
  <2>1. Hits(w, s, k) = H
    BY <1>4
  <2>2. /\ H \in SUBSET (1..n)
        /\ H = {} => bullet_value(t, s, k) = None
        /\ \A m \in H : (\A j \in H : m <= j) => bullet_value(t, s, k) = t[m].value
        /\ H # {} => \E m \in H : \A j \in H : m <= j
    BY RecallFirst, Zenon DEF n
  <2>3. /\ H = {} => bullet_value(w, s, k) = None
        /\ \A m \in H : (\A j \in H : m <= j) => bullet_value(w, s, k) = w[m].value
    <3>1. /\ Hits(w, s, k) = {} => bullet_value(w, s, k) = None
          /\ \A m \in Hits(w, s, k) :
               (\A j \in Hits(w, s, k) : m <= j) => bullet_value(w, s, k) = w[m].value
      BY <1>1, RecallFirst, Zenon
    <3> QED BY <2>1, <3>1, Zenon
  <2> HIDE DEF H
  <2>4. bullet_value(w, s, k) = bullet_value(t, s, k)
    <3>1. CASE H = {}
      BY <2>2, <2>3, <3>1, Zenon
    <3>2. CASE H # {}
      <4>1. PICK m \in H : \A j \in H : m <= j
        BY <2>2, <3>2, Zenon
      <4>2. w[m] = t[m]
        <5>1. m \in 1..n
          BY <2>2, <4>1
        <5> QED BY <1>1, <5>1, Zenon
      <4>3. bullet_value(t, s, k) = t[m].value
        BY <2>2, <4>1, Zenon
      <4>4. bullet_value(w, s, k) = w[m].value
        BY <2>3, <4>1, Zenon
      <4> QED BY <4>2, <4>3, <4>4, Zenon
    <3> QED BY <3>1, <3>2, Zenon
  <2> QED BY <2>1, <2>4, Zenon DEF Agree, H
<1>6. ~Opens(w, s)
  <2>1. Len(w) \in Nat /\ n <= Len(w) /\ Len(w) <= Len(w)
    BY <1>1
  <2> QED BY <2>1, <1>2, Zenon DEF Opens
<1> QED BY <1>4, <1>5, <1>6, Zenon DEF w

\* What a store writes: a bullet, and behind it what is no fact.
NewLines(new, section, key, v) ==
  /\ new \in Seq(FileLine) /\ new # <<>> /\ Foreign(new)
  /\ new[1] = Line("bullet", key, v)
  /\ section \in Durable => new = <<new[1]>>

\* out is the text p but for the lines of one fact.
Frame(out, p, section, key) ==
  /\ out \in Seq(FileLine) /\ p \in Seq(FileLine) /\ Headed(out)
  /\ \A s \in Durable :
       /\ Opens(out, s) <=> Opens(p, s)
       /\ (\E h \in DOMAIN p : p[h] = Heading(s)) => \E h \in DOMAIN out : out[h] = Heading(s)
       /\ \A k : s # section \/ k # key => Agree(p, out, s, k)

\* The fact in question: as stored, or not there.
Target(out, written, section, key, v) ==
  section \in Durable =>
    /\ written => Hits(out, section, key) # {} /\ bullet_value(out, section, key) = v
    /\ ~written => Hits(out, section, key) = {}

LEMMA SpeaksOf ==
  ASSUME ColonKeys = {}, NEW line, NEW k
  PROVE  Speaks(line, k) <=> line.kind = "bullet" /\ line.key = k
  BY DEF Speaks, existing_key

\* The same line comes to both.
LEMMA LineAdded ==
  ASSUME NEW section, NEW key, NEW out, NEW p, NEW q, NEW line, Frame(out, p, section, key),
         More(p, q, line), Headed(q)
  PROVE  Frame(Append(out, line), q, section, key)
<1> DEFINE u == Append(out, line)
<1>1. /\ out \in Seq(FileLine) /\ p \in Seq(FileLine) /\ q \in Seq(FileLine) /\ line \in FileLine
      /\ Len(q) = Len(p) + 1 /\ q[Len(p) + 1] = line /\ Len(p) \in Nat
      /\ \A i \in 1..Len(p) : q[i] = p[i]
  BY DEF Frame, More, Begins
<1>2. More(out, u, line)
  BY <1>1, AppendMore
<1>3. /\ u \in Seq(FileLine) /\ DOMAIN u = DOMAIN out \cup {Len(out) + 1}
      /\ u[Len(out) + 1] = line /\ \A i \in DOMAIN out : u[i] = out[i]
  BY <1>1
<1>4. Headed(u)
  <2>1. line.kind = "heading" => line.value = ""
    <3>1. Len(p) + 1 \in DOMAIN q
      BY <1>1
    <3> QED BY <3>1, <1>1, Zenon DEF Headed
  <2> QED BY <2>1, <1>3, Zenon DEF Headed, Frame
<1> HIDE DEF u
<1>5. ASSUME NEW s \in Durable
      PROVE  /\ Opens(u, s) <=> Opens(q, s)
             /\ (\E h \in DOMAIN q : q[h] = Heading(s)) => \E h \in DOMAIN u : u[h] = Heading(s)
             /\ \A k : s # section \/ k # key => Agree(q, u, s, k)
  <2>1. Opens(out, s) <=> Opens(p, s)
    BY Zenon DEF Frame
  <2>2. Opens(u, s) <=> Opens(q, s)
    <3>1. Opens(u, s) <=> IF line.kind = "heading" THEN line = Heading(s) ELSE Opens(out, s)
      BY <1>2, MoreOpens
    <3>2. Opens(q, s) <=> IF line.kind = "heading" THEN line = Heading(s) ELSE Opens(p, s)
      BY MoreOpens
    <3> QED BY <2>1, <3>1, <3>2, Zenon
  <2>3. ASSUME NEW h \in DOMAIN q, q[h] = Heading(s)
        PROVE  \E g \in DOMAIN u : u[g] = Heading(s)
    <3>1. h \in DOMAIN p \/ h = Len(p) + 1
      BY <1>1
    <3>2. CASE h \in DOMAIN p
      <4>1. p[h] = Heading(s)
        BY <1>1, <2>3, <3>2
      <4>2. PICK g \in DOMAIN out : out[g] = Heading(s)
        BY <3>2, <4>1, Zenon DEF Frame
      <4> QED BY <4>2, <1>3, Zenon
    <3>3. CASE h = Len(p) + 1
      BY <1>1, <1>3, <2>3, <3>3, Zenon
    <3> QED BY <3>1, <3>2, <3>3
  <2>4. ASSUME NEW k, s # section \/ k # key PROVE Agree(q, u, s, k)
    <3>1. Agree(p, out, s, k)
      BY <2>4, Zenon DEF Frame
    <3>2. BothGrow(p, out, q, u, line, s, k)
      BY <3>1, <2>1, <1>2, Zenon DEF BothGrow
    <3> QED BY <3>2, BothMore
  <2> QED BY <2>2, <2>3, <2>4, Zenon
<1>6. Frame(u, q, section, key)
  BY <1>1, <1>3, <1>4, <1>5, Zenon DEF Frame
<1> QED BY <1>6 DEF u

\* The line that says the old value of the fact is left out.
LEMMA LineSkipped ==
  ASSUME ColonKeys = {}, NEW section, NEW key, NEW out, NEW p, NEW q, NEW line,
         Frame(out, p, section, key), More(p, q, line), Speaks(line, key), Opens(p, section)
  PROVE  Frame(out, q, section, key)
<1>1. /\ out \in Seq(FileLine) /\ p \in Seq(FileLine) /\ q \in Seq(FileLine) /\ line \in FileLine
      /\ Len(q) = Len(p) + 1 /\ q[Len(p) + 1] = line /\ Len(p) \in Nat
      /\ \A i \in 1..Len(p) : q[i] = p[i]
  BY DEF Frame, More, Begins
<1>2. line.kind = "bullet" /\ line.key = key
  BY SpeaksOf
<1>3. ASSUME NEW s \in Durable
      PROVE  /\ Opens(out, s) <=> Opens(q, s)
             /\ (\E h \in DOMAIN q : q[h] = Heading(s)) => \E h \in DOMAIN out : out[h] = Heading(s)
             /\ \A k : s # section \/ k # key => Agree(q, out, s, k)
  <2>1. Opens(out, s) <=> Opens(p, s)
    BY Zenon DEF Frame
  <2>2. Opens(q, s) <=> Opens(p, s)
    <3>1. Opens(q, s) <=> IF line.kind = "heading" THEN line = Heading(s) ELSE Opens(p, s)
      BY MoreOpens
    <3> QED BY <3>1, <1>2
  <2>3. ASSUME NEW h \in DOMAIN q, q[h] = Heading(s)
        PROVE  \E g \in DOMAIN out : out[g] = Heading(s)
    <3>1. h \in DOMAIN p \/ h = Len(p) + 1
      BY <1>1
    <3>2. h # Len(p) + 1
      <4>1. Heading(s).kind = "heading"
        BY HeadingFields
      <4> QED BY <4>1, <1>1, <1>2, <2>3
    <3>3. p[h] = Heading(s) /\ h \in DOMAIN p
      BY <1>1, <2>3, <3>1, <3>2
    <3> QED BY <3>3, Zenon DEF Frame
  <2>4. ASSUME NEW k, s # section \/ k # key PROVE Agree(q, out, s, k)
    <3>1. Agree(p, out, s, k)
      BY <2>4, Zenon DEF Frame
    <3>2. ~(Speaks(line, k) /\ Opens(p, s))
      <4>1. Speaks(line, k) => k = key
        BY <1>2, SpeaksOf
      <4>2. Opens(p, s) => s = section
        BY <1>1, OneOpen DEF Opens
      <4> QED BY <4>1, <4>2, <2>4, Zenon
    <3>3. Agree(p, q, s, k)
      BY <3>2, SilentMore
    <3>4. Agree(q, p, s, k)
      BY <3>3, AgreeSym
    <3> QED BY <3>1, <3>4, AgreeTrans
  <2> QED BY <2>1, <2>2, <2>3, <2>4, Zenon
<1> QED BY <1>1, <1>3, Zenon DEF Frame

\* The new lines go where their section is open.
LEMMA NewAdded ==
  ASSUME ColonKeys = {}, NEW section, NEW key, NEW v, NEW out, NEW p, NEW new,
         NewLines(new, section, key, v), Frame(out, p, section, key), Opens(p, section),
         NEW written, Target(out, written, section, key, v)
  PROVE  Frame(out \o new, p, section, key) /\ Target(out \o new, TRUE, section, key, v)
<1> DEFINE u == out \o new
           b == new[1]
<1>1. /\ out \in Seq(FileLine) /\ p \in Seq(FileLine) /\ new \in Seq(FileLine) /\ new # <<>>
      /\ Headed(out) /\ Headed(new) /\ b = Line("bullet", key, v)
      /\ \A i \in DOMAIN new : \A s \in Durable : new[i] # Heading(s)
      /\ section \in Durable => new = <<b>>
  BY Zenon DEF Frame, NewLines, Foreign
<1>2. /\ u \in Seq(FileLine) /\ \A i \in DOMAIN out : i \in DOMAIN u /\ u[i] = out[i]
      /\ \A i \in DOMAIN u : i \notin DOMAIN out =>
           i - Len(out) \in DOMAIN new /\ u[i] = new[i - Len(out)]
  BY <1>1
<1>3. b \in FileLine /\ b.kind = "bullet" /\ b.key = key /\ b.value = v
  <2>1. b \in FileLine
    BY <1>1
  <2> HIDE DEF b
  <2> QED BY <2>1, <1>1, LineFields
<1> HIDE DEF u, b
<1>4. Headed(u)
  BY <1>1, <1>2, ZenonT(60) DEF Headed
<1>5. ASSUME NEW s \in Durable, NEW h \in DOMAIN out, out[h] = Heading(s)
      PROVE  \E g \in DOMAIN u : u[g] = Heading(s)
  BY <1>2, <1>5, Zenon
<1>6. CASE section \in Durable
  <2>1. u = Append(out, b)
    <3>1. out \o <<b>> = Append(out, b)
      BY <1>1, <1>3
    <3> QED BY <3>1, <1>1, <1>6, Zenon DEF u
  <2>2. More(out, u, b)
    BY <1>1, <1>3, <2>1, AppendMore
  <2>3. Opens(out, section)
    BY <1>6, Zenon DEF Frame
  <2>4. ASSUME NEW s \in Durable
        PROVE  /\ Opens(u, s) <=> Opens(p, s)
               /\ \A k : s # section \/ k # key => Agree(p, u, s, k)
    <3>1. Opens(u, s) <=> Opens(out, s)
      <4>1. Opens(u, s) <=> IF b.kind = "heading" THEN b = Heading(s) ELSE Opens(out, s)
        BY <2>2, MoreOpens
      <4> QED BY <4>1, <1>3
    <3>2. ASSUME NEW k, s # section \/ k # key PROVE Agree(p, u, s, k)
      <4>1. Speaks(b, k) => k = key
        BY <1>3, SpeaksOf
      <4>2. Opens(out, s) => s = section
        BY <1>1, <2>3, OneOpen DEF Opens
      <4>3. ~(Speaks(b, k) /\ Opens(out, s))
        BY <4>1, <4>2, <3>2, Zenon
      <4>4. Agree(out, u, s, k)
        BY <4>3, <2>2, SilentMore
      <4>5. Agree(p, out, s, k)
        BY <3>2, Zenon DEF Frame
      <4> QED BY <4>4, <4>5, AgreeTrans
    <3> QED BY <3>1, <3>2, Zenon DEF Frame
  <2>5. Frame(u, p, section, key)
    BY <1>1, <1>2, <1>4, <1>5, <2>4, Zenon DEF Frame
  <2>6. Target(u, TRUE, section, key, v)
    <3>1. HitsMore(out, u, b, section, key) /\ RecallMore(out, u, b, section, key)
      BY <2>2, MoreHits, MoreRecall
    <3>2. Speaks(b, key)
      BY <1>3, SpeaksOf
    <3>3. Hits(u, section, key) # {}
      BY <3>1, <3>2, <2>3 DEF HitsMore
    <3>4. Hits(out, section, key) # {} => bullet_value(out, section, key) = v
      BY <1>6, Zenon DEF Target
    <3>5. bullet_value(u, section, key) = v
      BY <3>1, <3>2, <3>4, <2>3, <1>3, Zenon DEF RecallMore
    <3> QED BY <3>3, <3>5, Zenon DEF Target
  <2> QED BY <2>5, <2>6, Zenon DEF u
<1>7. CASE section \notin Durable
  <2>1. ASSUME NEW s \in Durable
        PROVE  /\ Opens(u, s) <=> Opens(p, s)
               /\ \A k : s # section \/ k # key => Agree(p, u, s, k)
    <3>1. ~Opens(p, s)
      <4>1. Opens(p, s) => s = section
        BY <1>1, OneOpen DEF Opens
      <4> QED BY <4>1, <1>7
    <3>2. ~Opens(out, s)
      BY <3>1, Zenon DEF Frame
    <3>3. ~Opens(u, s) /\ \A k : Agree(out, u, s, k)
      BY <1>1, <3>2, NotesAdded DEF u
    <3>4. \A k : s # section \/ k # key => Agree(p, out, s, k)
      BY Zenon DEF Frame
    <3> QED BY <3>1, <3>3, <3>4, AgreeTrans
  <2>2. Frame(u, p, section, key)
    BY <1>1, <1>2, <1>4, <1>5, <2>1, Zenon DEF Frame
  <2> QED BY <2>2, <1>7, Zenon DEF u, Target
<1> QED BY <1>6, <1>7

\* No line, or none but the last, is without its newline.
Unbroken(text) == \A i \in DOMAIN text : text[i] # Unterminated

Tight(out, p) ==
  \A i \in DOMAIN out : out[i] = Unterminated =>
    i = Len(out) /\ Len(p) \in DOMAIN p /\ p[Len(p)] = Unterminated

LEMMA PutWhole ==
  ASSUME NEW out \in Seq(FileLine), Unbroken(out), NEW all
  PROVE  Put(out, all) = out \o all
<1>1. out # <<>> => Len(out) \in DOMAIN out /\ Last(out) = out[Len(out)]
  BY DEF Last
<1> QED BY <1>1, Zenon DEF Put, Unbroken

LEMMA UnbrokenJoin ==
  ASSUME NEW out \in Seq(FileLine), NEW new \in Seq(FileLine), Unbroken(out), Unbroken(new)
  PROVE  Unbroken(out \o new)
<1> DEFINE u == out \o new
<1>1. \A i \in DOMAIN u : (i \in DOMAIN out /\ u[i] = out[i])
                          \/ (i - Len(out) \in DOMAIN new /\ u[i] = new[i - Len(out)])
  OBVIOUS
<1> HIDE DEF u
<1>2. Unbroken(u)
  BY <1>1, Zenon DEF Unbroken
<1> QED BY <1>2 DEF u

LEMMA UnbrokenAppend ==
  ASSUME NEW out \in Seq(FileLine), Unbroken(out), NEW line \in FileLine, line # Unterminated
  PROVE  Append(out, line) \in Seq(FileLine) /\ Unbroken(Append(out, line))
<1> DEFINE u == Append(out, line)
<1>1. u \in Seq(FileLine) /\ \A i \in DOMAIN u : (i \in DOMAIN out /\ u[i] = out[i]) \/ u[i] = line
  OBVIOUS
<1> HIDE DEF u
<1>2. Unbroken(u)
  BY <1>1, Zenon DEF Unbroken
<1> QED BY <1>1, <1>2 DEF u

LEMMA HeadedJoin ==
  ASSUME NEW out \in Seq(FileLine), NEW new \in Seq(FileLine), Headed(out), Headed(new)
  PROVE  Headed(out \o new)
<1> DEFINE u == out \o new
<1>1. \A i \in DOMAIN u : (i \in DOMAIN out /\ u[i] = out[i])
                          \/ (i - Len(out) \in DOMAIN new /\ u[i] = new[i - Len(out)])
  OBVIOUS
<1> HIDE DEF u
<1>2. Headed(u)
  BY <1>1, Zenon DEF Headed
<1> QED BY <1>2 DEF u

LEMMA TightAdded ==
  ASSUME NEW out \in Seq(FileLine), Unbroken(out), NEW p, NEW q, NEW line, More(p, q, line)
  PROVE  Tight(Append(out, line), q)
<1> DEFINE u == Append(out, line)
<1>1. /\ \A i \in DOMAIN u : (i \in DOMAIN out /\ u[i] = out[i]) \/ (i = Len(u) /\ u[i] = line)
  OBVIOUS
<1>2. Len(q) \in DOMAIN q /\ q[Len(q)] = line
  BY DEF More
<1> HIDE DEF u
<1>3. Tight(u, q)
  BY <1>1, <1>2, Zenon DEF Tight, Unbroken
<1> QED BY <1>3 DEF u

\* A line that does not speak of the fact keeps what is said of it.
LEMMA TargetSilent ==
  ASSUME NEW out, NEW u, NEW line, More(out, u, line), NEW written, NEW section, NEW key,
         NEW v, Target(out, written, section, key, v),
         section \in Durable => ~(Speaks(line, key) /\ Opens(out, section))
  PROVE  Target(u, written, section, key, v)
<1>1. CASE section \in Durable
  <2>1. Hits(u, section, key) = Hits(out, section, key) /\ Agree(out, u, section, key)
    BY <1>1, SilentMore
  <2> QED BY <2>1, <1>1, Zenon DEF Target, Agree
<1>2. CASE section \notin Durable
  BY <1>2, Zenon DEF Target
<1> QED BY <1>1, <1>2

\* Where the loop is after the text p.
Scanned(st, p, section, key, v) ==
  /\ st.cut = FALSE
  /\ Frame(st.out, p, section, key)
  /\ st.in_target <=> Opens(p, section)
  /\ (\E h \in DOMAIN p : p[h] = Heading(section)) => st.section_found
  /\ st.section_found /\ ~Opens(p, section) => st.key_written
  /\ Target(st.out, st.key_written, section, key, v)
  /\ Tight(st.out, p)

\* The end of the section is reached and the fact has not been seen.
Ends(st, line) == line.kind = "heading" /\ st.in_target /\ ~st.key_written
InTarget(st, line, section) ==
  IF line.kind = "heading" THEN line.key = section ELSE st.in_target
Replaces(st, line, section, key) == InTarget(st, line, section) /\ Speaks(line, key)

Scans(st, line, section, key, new, r) ==
  /\ ~st.cut =>
       r.out = Put(st.out, (IF Ends(st, line) THEN new ELSE <<>>)
                       \o (IF Replaces(st, line, section, key) THEN new ELSE <<line>>))
  /\ r.in_target <=> InTarget(st, line, section)
  /\ r.key_written <=> st.key_written \/ Ends(st, line) \/ Replaces(st, line, section, key)
  /\ r.section_found <=>
       st.section_found \/ (line.kind = "heading" /\ InTarget(st, line, section))
  /\ LongValues = {} /\ st.cut = FALSE => r.cut = FALSE

LEMMA ScansLine ==
  ASSUME NEW st, NEW line, NEW section, NEW key, NEW new
  PROVE  Scans(st, line, section, key, new, ScanLine(st, line, section, key, new))
<1> DEFINE heading == line.kind = "heading"
           ends == heading /\ st.in_target /\ ~st.key_written
           in_target == IF heading THEN line.key = section ELSE st.in_target
           hit == in_target /\ line.kind = "bullet" /\ existing_key(line) = key
           text == (IF ends THEN new ELSE <<>>) \o (IF hit THEN new ELSE <<line>>)
           r == ScanLine(st, line, section, key, new)
<1>1. r = [out |-> IF st.cut THEN st.out ELSE Put(st.out, text),
           in_target |-> in_target,
           key_written |-> st.key_written \/ ends \/ hit,
           section_found |-> st.section_found \/ (heading /\ in_target),
           cut |-> st.cut \/ (~hit /\ line.value \in LongValues)]
  BY Zenon DEF ScanLine
<1> HIDE DEF r
<1>2. /\ r.out = IF st.cut THEN st.out ELSE Put(st.out, text)
      /\ r.in_target = in_target
      /\ r.key_written = (st.key_written \/ ends \/ hit)
      /\ r.section_found = (st.section_found \/ (heading /\ in_target))
      /\ r.cut = (st.cut \/ (~hit /\ line.value \in LongValues))
  BY <1>1, Zenon
<1>3. hit <=> Replaces(st, line, section, key)
  BY Zenon DEF Replaces, InTarget, Speaks
<1>4. (ends <=> Ends(st, line)) /\ (in_target <=> InTarget(st, line, section))
  BY Zenon DEF Ends, InTarget
<1>5. text = (IF Ends(st, line) THEN new ELSE <<>>)
              \o (IF Replaces(st, line, section, key) THEN new ELSE <<line>>)
  BY <1>3, <1>4, Zenon
<1>6. LongValues = {} /\ st.cut = FALSE => r.cut = FALSE
  BY <1>2, Zenon
<1> HIDE DEF text, hit, ends, in_target
<1>7. Scans(st, line, section, key, new, r)
  BY <1>2, <1>3, <1>4, <1>5, <1>6, Zenon DEF Scans, heading
<1> QED BY <1>7, Zenon DEF r

\* One line, when the text before it is whole.
LEMMA LineScanned ==
  ASSUME ColonKeys = {}, LongValues = {}, NEW section, NEW key, NEW v, NEW new,
         NewLines(new, section, key, v), NEW p, NEW q, NEW line, More(p, q, line),
         Headed(q), Unbroken(p), NEW st, Scanned(st, p, section, key, v)
  PROVE  Scanned(ScanLine(st, line, section, key, new), q, section, key, v)
<1> DEFINE r == ScanLine(st, line, section, key, new)
           ends == Ends(st, line)
           hit == Replaces(st, line, section, key)
           out == st.out
<1>1. Scans(st, line, section, key, new, r)
  BY ScansLine
<1> HIDE DEF r
<1>2. /\ st.cut = FALSE /\ Frame(out, p, section, key) /\ Tight(out, p)
      /\ Target(out, st.key_written, section, key, v)
      /\ st.in_target <=> Opens(p, section)
      /\ (\E h \in DOMAIN p : p[h] = Heading(section)) => st.section_found
      /\ st.section_found /\ ~Opens(p, section) => st.key_written
  BY Zenon DEF Scanned
<1>3. /\ r.out = Put(out, (IF ends THEN new ELSE <<>>) \o (IF hit THEN new ELSE <<line>>))
      /\ r.in_target <=> InTarget(st, line, section)
      /\ r.key_written <=> st.key_written \/ ends \/ hit
      /\ r.section_found <=>
           st.section_found \/ (line.kind = "heading" /\ InTarget(st, line, section))
      /\ r.cut = FALSE
  BY <1>1, <1>2, Zenon DEF Scans
<1> HIDE DEF out
<1>4. /\ out \in Seq(FileLine) /\ p \in Seq(FileLine) /\ q \in Seq(FileLine)
      /\ line \in FileLine /\ new \in Seq(FileLine)
  BY <1>2, Zenon DEF Frame, NewLines, More
<1>5. Unbroken(out)
  BY <1>2, Zenon DEF Tight, Unbroken
<1>6. Unbroken(new)
  BY Zenon DEF NewLines, Foreign, Unbroken
<1>7. /\ Len(q) = Len(p) + 1 /\ q[Len(p) + 1] = line /\ Len(p) + 1 \in DOMAIN q
      /\ DOMAIN q = DOMAIN p \cup {Len(p) + 1} /\ \A i \in DOMAIN p : q[i] = p[i]
  BY DEF More, Begins
<1>8. line.kind = "heading" => line.value = ""
  BY <1>7, Zenon DEF Headed
<1>9. line.kind = "heading" => (line = Heading(section) <=> line.key = section)
  BY <1>4, <1>8, HeadingIs
<1>10. Opens(q, section) <=>
         IF line.kind = "heading" THEN line = Heading(section) ELSE Opens(p, section)
  BY MoreOpens
<1>11. InTarget(st, line, section) <=> Opens(q, section)
  BY <1>2, <1>9, <1>10, Zenon DEF InTarget
<1>12. (\E h \in DOMAIN q : q[h] = Heading(section)) => r.section_found
  <2> SUFFICES ASSUME NEW h \in DOMAIN q, q[h] = Heading(section) PROVE r.section_found
    OBVIOUS
  <2>1. CASE h \in DOMAIN p
    BY <2>1, <1>2, <1>3, <1>7, Zenon
  <2>2. CASE h = Len(p) + 1
    <3>1. line = Heading(section)
      BY <2>2, <1>7
    <3>2. line.kind = "heading"
      BY <3>1, HeadingFields
    <3> QED BY <3>1, <3>2, <1>3, <1>10, <1>11, Zenon
  <2> QED BY <2>1, <2>2, <1>7, Zenon
<1>13. r.section_found /\ ~Opens(q, section) => r.key_written
  <2> SUFFICES ASSUME r.section_found, ~Opens(q, section) PROVE r.key_written
    OBVIOUS
  <2>1. st.section_found
    BY <1>3, <1>11, Zenon
  <2>2. CASE Opens(p, section)
    BY <2>2, <1>2, <1>3, <1>10, Zenon DEF Ends
  <2>3. CASE ~Opens(p, section)
    BY <2>1, <2>3, <1>2, <1>3, Zenon
  <2> QED BY <2>2, <2>3
<1>14. <<>> \o new = new /\ <<>> \o <<line>> = <<line>>
  BY <1>4
<1>15. CASE ends
  <2> DEFINE u == out \o new
  <2>1. line.kind = "heading" /\ Opens(p, section)
    BY <1>2, <1>15, Zenon DEF Ends
  <2>2. ~Speaks(line, key) /\ ~hit
    BY <2>1 DEF Speaks, Replaces
  <2>3. r.out = Append(u, line)
    <3>1. r.out = out \o (new \o <<line>>)
      BY <1>3, <1>4, <1>5, <1>15, <2>2, PutWhole
    <3>2. out \o (new \o <<line>>) = Append(out \o new, line)
      BY <1>4
    <3> QED BY <3>1, <3>2
  <2>4. Frame(u, p, section, key) /\ Target(u, TRUE, section, key, v)
    BY <1>2, <2>1, NewAdded
  <2>5. u \in Seq(FileLine) /\ Unbroken(u)
    BY <1>4, <1>5, <1>6, UnbrokenJoin
  <2> HIDE DEF u
  <2>6. Frame(Append(u, line), q, section, key)
    BY <2>4, LineAdded
  <2>7. Target(Append(u, line), TRUE, section, key, v)
    <3>1. More(u, Append(u, line), line)
      BY <1>4, <2>5, AppendMore
    <3> QED BY <3>1, <2>2, <2>4, TargetSilent
  <2>8. Tight(Append(u, line), q)
    BY <2>5, TightAdded
  <2>9. Target(r.out, r.key_written, section, key, v)
    BY <2>3, <2>7, <1>3, <1>15, Zenon DEF Target
  <2> QED BY <1>3, <1>11, <1>12, <1>13, <2>3, <2>6, <2>8, <2>9, Zenon DEF Scanned, r
<1>16. CASE hit
  <2> DEFINE u == out \o new
  <2>1. Speaks(line, key) /\ InTarget(st, line, section)
    BY <1>16, Zenon DEF Replaces
  <2>2. line.kind # "heading" /\ ~ends
    BY <2>1 DEF Speaks, Ends
  <2>3. Opens(p, section)
    BY <2>1, <2>2, <1>10, <1>11, Zenon
  <2>4. r.out = u
    <3>1. r.out = out \o (<<>> \o new)
      BY <1>3, <1>5, <1>4, <1>16, <2>2, PutWhole
    <3> QED BY <3>1, <1>14
  <2>5. Frame(u, p, section, key) /\ Target(u, TRUE, section, key, v)
    BY <1>2, <2>3, NewAdded
  <2>6. Unbroken(u)
    BY <1>4, <1>5, <1>6, UnbrokenJoin
  <2> HIDE DEF u
  <2>7. Frame(u, q, section, key)
    BY <2>1, <2>3, <2>5, LineSkipped
  <2>8. Tight(u, q)
    BY <2>6, Zenon DEF Tight, Unbroken
  <2>9. Target(r.out, r.key_written, section, key, v)
    BY <2>4, <2>5, <1>3, <1>16, Zenon DEF Target
  <2> QED BY <1>3, <1>11, <1>12, <1>13, <2>4, <2>7, <2>8, <2>9, Zenon DEF Scanned, r
<1>17. CASE ~ends /\ ~hit
  <2> DEFINE u == Append(out, line)
  <2>1. r.out = u
    <3>1. r.out = out \o (<<>> \o <<line>>)
      BY <1>3, <1>4, <1>5, <1>17, PutWhole
    <3>2. out \o <<line>> = Append(out, line)
      BY <1>4
    <3> QED BY <3>1, <3>2, <1>14
  <2>2. Frame(u, q, section, key)
    BY <1>2, LineAdded
  <2>3. Tight(u, q)
    BY <1>4, <1>5, TightAdded
  <2>4. Target(u, st.key_written, section, key, v)
    <3>1. More(out, u, line)
      BY <1>4, AppendMore
    <3>2. section \in Durable => ~(Speaks(line, key) /\ Opens(out, section))
      <4>1. Speaks(line, key) => line.kind # "heading"
        BY DEF Speaks
      <4>2. section \in Durable => (Opens(out, section) <=> Opens(p, section))
        BY <1>2, Zenon DEF Frame
      <4> QED BY <4>1, <4>2, <1>10, <1>11, <1>17, Zenon DEF Replaces
    <3> QED BY <3>1, <3>2, <1>2, TargetSilent
  <2> HIDE DEF u
  <2>5. Target(r.out, r.key_written, section, key, v)
    BY <2>1, <2>4, <1>3, <1>17, Zenon DEF Target
  <2> QED BY <1>3, <1>11, <1>12, <1>13, <2>1, <2>2, <2>3, <2>5, Zenon DEF Scanned, r
<1> QED BY <1>15, <1>16, <1>17, Zenon

\* The loop over the lines.
ScanAfter(f, text, section, key, new, n) ==
  f = [i \in 0..n |-> IF i = 0 THEN ScanStart
                      ELSE ScanLine(f[i - 1], text[i], section, key, new)]

LEMMA ScanAfterExists ==
  ASSUME NEW text, NEW section, NEW key, NEW new, NEW n \in Nat
  PROVE  \E f : ScanAfter(f, text, section, key, new, n)
<1> DEFINE Next1(s, i) == ScanLine(s, text[i], section, key, new)
           P == {k \in Nat : \E f : ScanAfter(f, text, section, key, new, k)}
<1>1. 0 \in P
  <2>1. ScanAfter([i \in 0..0 |-> ScanStart], text, section, key, new, 0)
    BY DEF ScanAfter
  <2> QED BY <2>1
<1>2. ASSUME NEW k \in 0..(n - 1), k \in P PROVE k + 1 \in P
  <2>1. PICK f : ScanAfter(f, text, section, key, new, k)
    BY <1>2
  <2>2. \A i \in 0..k : f[i] = IF i = 0 THEN ScanStart ELSE Next1(f[i - 1], i)
    BY <2>1 DEF ScanAfter
  <2> DEFINE g == [i \in 0..(k + 1) |-> IF i <= k THEN f[i] ELSE Next1(f[k], k + 1)]
  <2> HIDE DEF Next1
  <2>3. g[k + 1] = Next1(f[k], k + 1) /\ \A i \in 0..k : g[i] = f[i]
    OBVIOUS
  <2>4. g = [i \in 0..(k + 1) |-> g[i]]
    OBVIOUS
  <2> HIDE DEF g
  <2>5. ASSUME NEW i \in 0..(k + 1)
        PROVE  g[i] = IF i = 0 THEN ScanStart ELSE Next1(g[i - 1], i)
    <3>1. CASE i = 0
      BY <3>1, <2>2, <2>3
    <3>2. CASE i \in 1..k
      <4>1. g[i] = f[i] /\ g[i - 1] = f[i - 1] /\ i # 0 /\ i \in 0..k
        BY <2>3, <3>2
      <4> QED BY <4>1, <2>2, Zenon
    <3>3. CASE i = k + 1
      <4>1. g[i - 1] = f[k] /\ i # 0
        BY <2>3, <3>3
      <4> QED BY <4>1, <2>3, <3>3, Zenon
    <3> QED BY <3>1, <3>2, <3>3
  <2>6. ScanAfter(g, text, section, key, new, k + 1)
    BY <2>4, <2>5, Zenon DEF ScanAfter, Next1
  <2> QED BY <2>6
<1> HIDE DEF P
<1>3. \A i \in 0..n : i \in P
  BY <1>1, <1>2, Climbs, Zenon
<1>4. n \in P
  BY <1>3
<1> QED BY <1>4 DEF P

LEMMA NothingScanned ==
  ASSUME NEW section, NEW key, NEW v
  PROVE  Scanned(ScanStart, <<>>, section, key, v)
<1> DEFINE none == <<>>
<1>1. /\ ScanStart.out = <<>> /\ ~ScanStart.in_target /\ ~ScanStart.key_written
      /\ ~ScanStart.section_found /\ ScanStart.cut = FALSE
  BY DEF ScanStart
<1>2. none \in Seq(FileLine) /\ DOMAIN none = {} /\ Len(none) = 0
  OBVIOUS
<1>3. \A s : ~Opens(none, s)
  BY DEF Opens, OpenAt
<1>4. \A s, k : Hits(none, s, k) = {} /\ Agree(none, none, s, k)
  BY DEF Hits, Under, Agree
<1> HIDE DEF none
<1>5. Frame(none, none, section, key)
  BY <1>2, <1>3, <1>4, Zenon DEF Frame, Headed
<1>6. Target(none, FALSE, section, key, v)
  BY <1>4, Zenon DEF Target
<1>7. Tight(none, none)
  BY <1>2, Zenon DEF Tight
<1>8. ScanStart.out = none
  BY <1>1 DEF none
<1>9. Target(ScanStart.out, ScanStart.key_written, section, key, v)
  BY <1>1, <1>6, <1>8, Zenon DEF Target
<1>10. Scanned(ScanStart, none, section, key, v)
  BY <1>1, <1>2, <1>3, <1>5, <1>7, <1>8, <1>9, Zenon DEF Scanned
<1> QED BY <1>10 DEF none

\* The first lines of a text.
LEMMA PrefixIndices ==
  ASSUME NEW n \in Nat, NEW i \in 0..(n - 1)
  PROVE  /\ i \in Nat /\ i + 1 \in 1..n /\ (i + 1) - 1 = i /\ i + 1 \in 0..n /\ i \in 0..n
         /\ \A j \in 1..i : j \in 1..n /\ j # n /\ j \in 1..(i + 1)
         /\ \A j \in 1..(i + 1) : j \in 1..n
  OBVIOUS

LEMMA PrefixIs ==
  ASSUME NEW text \in Seq(FileLine), NEW i \in 0..Len(text)
  PROVE  /\ SubSeq(text, 1, i) \in Seq(FileLine) /\ Len(SubSeq(text, 1, i)) = i
         /\ DOMAIN SubSeq(text, 1, i) = 1..i
         /\ \A j \in 1..i : SubSeq(text, 1, i)[j] = text[j]
  OBVIOUS

\* A text that memory_store can be given.
Sound(text) == text \in Seq(FileLine) /\ Headed(text) /\ Closed(text)

LEMMA AllScanned ==
  ASSUME ColonKeys = {}, LongValues = {}, NEW section, NEW key, NEW v, NEW new,
         NewLines(new, section, key, v), NEW text, Sound(text)
  PROVE  Scanned(Scan(text, section, key, new), text, section, key, v)
<1> DEFINE n == Len(text)
           Pre(i) == SubSeq(text, 1, i)
           h == CHOOSE f : ScanAfter(f, text, section, key, new, n)
<1>1. /\ text \in Seq(FileLine) /\ n \in Nat /\ DOMAIN text = 1..n
  BY DEF Sound
<1>2. ScanAfter(h, text, section, key, new, n)
  BY <1>1, ScanAfterExists, Zenon
<1>3. Scan(text, section, key, new) = h[n]
  BY Zenon DEF Scan, ScanAfter
<1> HIDE DEF h
<1>4. h[0] = ScanStart
      /\ \A i \in 1..n : h[i] = ScanLine(h[i - 1], text[i], section, key, new)
  BY <1>1, <1>2 DEF ScanAfter
<1> DEFINE P == {i \in 0..n : Scanned(h[i], Pre(i), section, key, v)}
<1> HIDE DEF n
<1>5. 0 \in P
  <2>1. Pre(0) = <<>> /\ 0 \in 0..n
    BY <1>1
  <2> QED BY <2>1, <1>4, NothingScanned
<1>6. ASSUME NEW i \in 0..(n - 1), i \in P PROVE i + 1 \in P
  <2> DEFINE p == Pre(i)
             q == Pre(i + 1)
             line == text[i + 1]
  <2>0. /\ i \in Nat /\ i + 1 \in 1..n /\ (i + 1) - 1 = i /\ i + 1 \in 0..n
        /\ \A j \in 1..i : j \in 1..n /\ j # n /\ j \in 1..(i + 1)
        /\ \A j \in 1..(i + 1) : j \in 1..n
    BY <1>1, PrefixIndices
  <2>1. /\ p \in Seq(FileLine) /\ Len(p) = i /\ DOMAIN p = 1..i
        /\ \A j \in 1..i : p[j] = text[j]
    BY <1>1, PrefixIs
  <2>2. /\ q \in Seq(FileLine) /\ Len(q) = i + 1 /\ DOMAIN q = 1..(i + 1)
        /\ \A j \in 1..(i + 1) : q[j] = text[j]
    BY <1>1, <2>0, PrefixIs
  <2>3. line \in FileLine
    BY <1>1, <2>0, ElementOfSeq
  <2> HIDE DEF p, q, line
  <2>4. More(p, q, line)
    <3>1. q[i + 1] = line /\ \A j \in 1..i : q[j] = p[j]
      BY <2>0, <2>1, <2>2 DEF line
    <3> QED BY <3>1, <2>1, <2>2, <2>3, Zenon DEF More, Begins
  <2>5. Headed(q)
    BY <1>1, <2>0, <2>2, Zenon DEF Headed, Sound
  <2>6. Unbroken(p)
    <3>1. \A j \in DOMAIN text : text[j] = Unterminated => j = n
      BY Zenon DEF Sound, Closed, n
    <3> QED BY <1>1, <2>0, <2>1, <3>1, Zenon DEF Unbroken
  <2>7. Scanned(h[i], p, section, key, v)
    BY <1>6 DEF p
  <2>8. Scanned(ScanLine(h[i], line, section, key, new), q, section, key, v)
    BY <2>4, <2>5, <2>6, <2>7, LineScanned
  <2>9. h[i + 1] = ScanLine(h[i], line, section, key, new)
    BY <2>0, <1>4 DEF line
  <2>10. Scanned(h[i + 1], Pre(i + 1), section, key, v)
    BY <2>8, <2>9 DEF q
  <2> QED BY <2>0, <2>10, Zenon
<1> HIDE DEF P
<1>7. n \in P
  <2>1. \A i \in 0..n : i \in P
    BY <1>1, <1>5, <1>6, Climbs, Zenon
  <2> QED BY <1>1, <2>1
<1>8. Pre(n) = text
  BY <1>1
<1>9. Scanned(h[n], text, section, key, v)
  <2>1. Scanned(h[n], Pre(n), section, key, v)
    BY <1>7, Zenon DEF P
  <2> QED BY <2>1, <1>8
<1> QED BY <1>3, <1>9

\* Lines that come behind a last one without newline make it a line of text.
LEMMA Glued ==
  ASSUME NEW out \in Seq(FileLine), NEW rest \in Seq(FileLine), Headed(out), Foreign(rest),
         out # <<>>, out[Len(out)] = Unterminated,
         \A i \in DOMAIN out : out[i] = Unterminated => i = Len(out),
         \A s \in Durable : ~Opens(out, s)
  PROVE  LET u == Append(Front(out), Text) \o rest
         IN /\ u \in Seq(FileLine) /\ Headed(u) /\ Unbroken(u)
            /\ \A s \in Durable : \A k : Agree(out, u, s, k)
<1> DEFINE t == Front(out)
           w == Append(t, Text)
           u == w \o rest
           n == Len(out) - 1
<1>1. n \in Nat /\ Len(out) = n + 1 /\ DOMAIN out = 1..(n + 1) /\ n + 1 \notin 1..n
      /\ n \in 0..Len(out) /\ \A i \in 1..n : i \in 1..(n + 1)
  <2>1. Len(out) # 0
    OBVIOUS
  <2> QED BY <2>1
<1>2. /\ t \in Seq(FileLine) /\ Len(t) = n /\ DOMAIN t = 1..n
      /\ \A i \in 1..n : t[i] = out[i]
  <2>1. t = SubSeq(out, 1, n)
    BY Zenon DEF Front
  <2>2. n \in 0..Len(out)
    BY <1>1
  <2> HIDE DEF n, t
  <2>3. /\ SubSeq(out, 1, n) \in Seq(FileLine) /\ Len(SubSeq(out, 1, n)) = n
        /\ DOMAIN SubSeq(out, 1, n) = 1..n
        /\ \A j \in 1..n : SubSeq(out, 1, n)[j] = out[j]
    BY <2>2, PrefixIs, Zenon
  <2> QED BY <2>1, <2>3, Zenon
<1>3. /\ Text \in FileLine /\ Unterminated \in FileLine /\ Text # Unterminated
      /\ Text.kind # "heading" /\ Unterminated.kind # "heading"
      /\ Text.kind # "bullet" /\ Unterminated.kind # "bullet"
  BY DEF Text, Unterminated, Line, FileLine, Kinds, Marks
<1> HIDE DEF n, t
<1>4. More(t, out, Unterminated)
  BY <1>1, <1>2, <1>3, Zenon DEF More, Begins
<1>5. More(t, w, Text)
  BY <1>2, <1>3, AppendMore
<1>6. /\ w \in Seq(FileLine) /\ DOMAIN w = 1..(n + 1) /\ w[n + 1] = Text
      /\ \A i \in 1..n : w[i] = t[i]
  BY <1>1, <1>2, <1>3
<1>7. Headed(w) /\ Unbroken(w)
  <2> SUFFICES ASSUME NEW i \in 1..(n + 1)
               PROVE  w[i] # Unterminated /\ (w[i].kind = "heading" => w[i].value = "")
    BY <1>6, Zenon DEF Headed, Unbroken
  <2>1. CASE i = n + 1
    BY <2>1, <1>3, <1>6
  <2>2. CASE i # n + 1
    <3>1. i \in 1..n
      BY <2>2, <1>1
    <3>2. w[i] = out[i] /\ i \in DOMAIN out /\ i # Len(out)
      BY <3>1, <1>1, <1>2, <1>6
    <3> QED BY <3>2, Zenon DEF Headed
  <2> QED BY <2>1, <2>2
<1> HIDE DEF w
<1>8. ASSUME NEW s \in Durable, NEW k
      PROVE  ~Opens(w, s) /\ Agree(out, w, s, k)
  <2>1. Opens(out, s) <=> Opens(t, s)
    <3>1. Opens(out, s) <=>
            IF Unterminated.kind = "heading" THEN Unterminated = Heading(s) ELSE Opens(t, s)
      BY <1>4, MoreOpens
    <3> QED BY <3>1, <1>3, Zenon
  <2>2. Opens(w, s) <=> Opens(t, s)
    <3>1. Opens(w, s) <=> IF Text.kind = "heading" THEN Text = Heading(s) ELSE Opens(t, s)
      BY <1>5, MoreOpens
    <3> QED BY <3>1, <1>3, Zenon
  <2>3. Agree(t, out, s, k) /\ Agree(t, w, s, k)
    <3>1. ~Speaks(Text, k) /\ ~Speaks(Unterminated, k)
      BY <1>3, Zenon DEF Speaks
    <3> QED BY <3>1, <1>4, <1>5, SilentMore
  <2>4. Agree(out, t, s, k)
    BY <2>3, AgreeSym
  <2> QED BY <2>1, <2>2, <2>3, <2>4, AgreeTrans
<1>9. ASSUME NEW s \in Durable, NEW k PROVE Agree(out, u, s, k)
  <2>1. \A i \in DOMAIN rest : rest[i] # Heading(s)
    BY Zenon DEF Foreign
  <2>2. Agree(w, u, s, k)
    BY <1>6, <1>8, <2>1, NotesAdded
  <2> QED BY <2>2, <1>8, AgreeTrans
<1>10. u \in Seq(FileLine) /\ Unbroken(u)
  <2>1. Unbroken(rest)
    BY Zenon DEF Foreign, Unbroken
  <2> QED BY <2>1, <1>6, <1>7, UnbrokenJoin
<1>11. Headed(u)
  <2>1. Headed(rest)
    BY Zenon DEF Foreign
  <2> QED BY <2>1, <1>6, <1>7, HeadedJoin
<1> QED BY <1>9, <1>10, <1>11, Zenon DEF w, t

LEMMA OneLineFirst ==
  ASSUME NEW out \in Seq(FileLine), NEW line \in FileLine, NEW new \in Seq(FileLine)
  PROVE  /\ out \o (<<line>> \o new) = Append(out, line) \o new
         /\ Tail(<<line>> \o new) = new /\ <<line>> \o new # <<>>
<1>1. out \o (<<line>> \o new) = Append(out, line) \o new
  BY SMTT(60)
<1>2. <<line>> \o new # <<>>
  OBVIOUS
<1>3. Tail(<<line>> \o new) = new
  OBVIOUS
<1> QED BY <1>1, <1>2, <1>3

LEMMA ForeignTail ==
  ASSUME NEW new \in Seq(FileLine), new # <<>>, Foreign(new)
  PROVE  Tail(new) \in Seq(FileLine) /\ Foreign(Tail(new))
<1> DEFINE t == Tail(new)
<1>1. t \in Seq(FileLine) /\ \A j \in DOMAIN t : j + 1 \in DOMAIN new /\ t[j] = new[j + 1]
  OBVIOUS
<1> HIDE DEF t
<1>2. Foreign(t)
  BY <1>1, Zenon DEF Foreign, Headed
<1> QED BY <1>1, <1>2 DEF t

\* What memory_store has made of a text.
Result(u, text, section, key, v) ==
  /\ Sound(u)
  /\ \A s \in Durable : \A k : s # section \/ k # key => Agree(text, u, s, k)
  /\ section \in Durable => bullet_value(u, section, key) = v

LEMMA FrameResult ==
  ASSUME NEW u, NEW q, NEW text, NEW section, NEW key, NEW v, Frame(u, q, section, key),
         Target(u, TRUE, section, key, v), Closed(u),
         \A s \in Durable : \A k : Agree(text, q, s, k)
  PROVE  Result(u, text, section, key, v)
<1>1. ASSUME NEW s \in Durable, NEW k, s # section \/ k # key PROVE Agree(text, u, s, k)
  <2>1. Agree(q, u, s, k)
    BY <1>1, Zenon DEF Frame
  <2> QED BY <2>1, AgreeTrans
<1>2. Sound(u)
  BY Zenon DEF Frame, Sound
<1>3. section \in Durable => bullet_value(u, section, key) = v
  BY Zenon DEF Target
<1> QED BY <1>1, <1>2, <1>3, Zenon DEF Result

LEMMA UnbrokenClosed ==
  ASSUME NEW u, Unbroken(u) PROVE Closed(u)
  BY Zenon DEF Unbroken, Closed

LEMMA AgreeSelf ==
  ASSUME NEW t, NEW s, NEW k PROVE Agree(t, t, s, k)
  BY Zenon DEF Agree

\* memory_store on a text: the fact is there, the other facts are what they were.
LEMMA StoredSays ==
  ASSUME ColonKeys = {}, LongValues = {}, NEW section, section \in Marks,
         NEW key, NEW v, NEW new, NewLines(new, section, key, v), NEW text, Sound(text)
  PROVE  Result(Stored(text, section, key, new), text, section, key, v)
<1> DEFINE st == Scan(text, section, key, new)
           H == Heading(section)
           all == (IF st.section_found THEN <<>> ELSE <<H>>) \o new
           u == Stored(text, section, key, new)
           out == st.out
<1>1. u = IF st.cut \/ st.key_written THEN out ELSE Put(out, all)
  BY Zenon DEF Stored
<1>2. Scanned(st, text, section, key, v)
  BY AllScanned
<1> HIDE DEF st, u
<1>3. /\ st.cut = FALSE /\ Frame(out, text, section, key) /\ Tight(out, text)
      /\ Target(out, st.key_written, section, key, v)
      /\ (\E h \in DOMAIN text : text[h] = H) => st.section_found
      /\ st.section_found /\ ~Opens(text, section) => st.key_written
  BY <1>2, Zenon DEF Scanned
<1>4. u = IF st.key_written THEN out ELSE Put(out, all)
  BY <1>1, <1>3, Zenon
<1> HIDE DEF out
<1>5. /\ text \in Seq(FileLine) /\ out \in Seq(FileLine) /\ Headed(out)
      /\ new \in Seq(FileLine) /\ new # <<>> /\ Foreign(new)
  BY <1>3, Zenon DEF Frame, NewLines
<1>6. Unbroken(new)
  BY <1>5, Zenon DEF Foreign, Unbroken
<1>7. \A s, k : Agree(text, text, s, k)
  BY AgreeSelf
<1>8. H \in FileLine /\ H.kind = "heading" /\ H.value = "" /\ H # Unterminated
  <2>1. "" \in Marks
    BY Zenon DEF Marks
  <2> QED BY <2>1 DEF Heading, Unterminated, Line, FileLine, Kinds
<1> HIDE DEF H
<1>9. CASE st.key_written
  <2>1. u = out
    BY <1>4, <1>9
  <2>2. Closed(out)
    <3> SUFFICES ASSUME NEW i \in DOMAIN out, out[i] = Unterminated
                 PROVE  /\ i = Len(out)
                        /\ \A s \in Durable : /\ ~OpenAt(out, i, s)
                                              /\ \E h \in DOMAIN out : out[h] = Heading(s)
      BY Zenon DEF Closed
    <3>1. i = Len(out) /\ Len(text) \in DOMAIN text /\ text[Len(text)] = Unterminated
      BY <1>3, Zenon DEF Tight
    <3>2. \A s \in Durable : /\ ~Opens(text, s)
                             /\ \E h \in DOMAIN text : text[h] = Heading(s)
      BY <3>1, Zenon DEF Sound, Closed, Opens
    <3>3. \A s \in Durable : ~Opens(out, s) /\ \E h \in DOMAIN out : out[h] = Heading(s)
      BY <3>2, <1>3, Zenon DEF Frame
    <3> QED BY <3>1, <3>3, Zenon DEF Opens
  <2>3. Target(out, TRUE, section, key, v)
    BY <1>3, <1>9, Zenon DEF Target
  <2> QED BY <2>1, <2>2, <2>3, <1>3, <1>7, FrameResult, Zenon DEF u
<1>10. CASE ~st.key_written /\ Unbroken(out) /\ st.section_found
  <2>1. u = out \o new
    <3>1. u = out \o (<<>> \o new)
      BY <1>4, <1>5, <1>10, PutWhole
    <3> QED BY <3>1, <1>5
  <2>2. Opens(text, section)
    BY <1>3, <1>10, Zenon
  <2>3. Frame(u, text, section, key) /\ Target(u, TRUE, section, key, v)
    BY <1>3, <2>1, <2>2, NewAdded
  <2>4. Closed(u)
    BY <1>5, <1>6, <1>10, <2>1, UnbrokenJoin, UnbrokenClosed
  <2> QED BY <2>3, <2>4, <1>7, FrameResult, Zenon DEF u
<1>11. CASE ~st.key_written /\ Unbroken(out) /\ ~st.section_found
  <2> DEFINE q == Append(text, H)
             w == Append(out, H)
  <2>1. u = w \o new
    <3>1. u = out \o (<<H>> \o new)
      BY <1>4, <1>5, <1>11, PutWhole
    <3>2. out \o (<<H>> \o new) = Append(out, H) \o new
      BY <1>5, <1>8, OneLineFirst
    <3> QED BY <3>1, <3>2
  <2>2. More(text, q, H) /\ More(out, w, H)
    BY <1>5, <1>8, AppendMore
  <2>3. Headed(q)
    <3>1. \A i \in DOMAIN q : (i \in DOMAIN text /\ q[i] = text[i]) \/ q[i] = H
      BY <1>5
    <3> HIDE DEF q
    <3> QED BY <3>1, <1>8, Zenon DEF Headed, Sound
  <2>4. w \in Seq(FileLine) /\ Unbroken(w)
    BY <1>5, <1>8, <1>11, UnbrokenAppend
  <2>5. Frame(w, q, section, key)
    BY <1>3, <2>2, <2>3, LineAdded
  <2>6. ~Speaks(H, key) /\ \A k : ~Speaks(H, k)
    BY <1>8 DEF Speaks
  <2>7. Target(w, FALSE, section, key, v)
    <3>1. Target(out, FALSE, section, key, v)
      BY <1>3, <1>11, Zenon DEF Target
    <3> QED BY <3>1, <2>2, <2>6, TargetSilent
  <2>8. Opens(q, section)
    BY <2>2, <1>8, MoreOpens DEF H
  <2>9. \A s \in Durable : \A k : Agree(text, q, s, k)
    BY <2>2, <2>6, SilentMore
  <2> HIDE DEF q, w
  <2>10. Frame(u, q, section, key) /\ Target(u, TRUE, section, key, v)
    BY <2>1, <2>5, <2>7, <2>8, NewAdded
  <2>11. Closed(u)
    BY <1>5, <1>6, <2>1, <2>4, UnbrokenJoin, UnbrokenClosed
  <2> QED BY <2>9, <2>10, <2>11, FrameResult, Zenon DEF u
<1>12. CASE ~st.key_written /\ ~Unbroken(out)
  <2>1. PICK i \in DOMAIN out : out[i] = Unterminated
    BY <1>12, Zenon DEF Unbroken
  <2>2. i = Len(out) /\ Len(text) \in DOMAIN text /\ text[Len(text)] = Unterminated
    BY <2>1, <1>3, Zenon DEF Tight
  <2>3. \A s \in Durable : /\ ~Opens(text, s)
                           /\ \E h \in DOMAIN text : text[h] = Heading(s)
    BY <2>2, Zenon DEF Sound, Closed, Opens
  <2>4. section \notin Durable
    BY <2>3, <1>3, <1>12, Zenon DEF H
  <2>5. \A s \in Durable : ~Opens(out, s)
    BY <2>3, <1>3, Zenon DEF Frame
  <2>6. out # <<>> /\ out[Len(out)] = Unterminated
        /\ \A j \in DOMAIN out : out[j] = Unterminated => j = Len(out)
    <3>1. out # <<>>
      BY <2>1
    <3> QED BY <3>1, <2>1, <2>2, <1>3, Zenon DEF Tight
  <2> HIDE DEF all
  <2>7. all # <<>> /\ Tail(all) \in Seq(FileLine) /\ Foreign(Tail(all))
    <3>1. CASE st.section_found
      <4>1. all = new
        BY <3>1, <1>5 DEF all
      <4>2. Tail(new) \in Seq(FileLine) /\ Foreign(Tail(new))
        BY <1>5, ForeignTail
      <4> QED BY <4>1, <4>2, <1>5
    <3>2. CASE ~st.section_found
      <4>1. all = <<H>> \o new
        BY <3>2 DEF all
      <4>2. Tail(<<H>> \o new) = new /\ <<H>> \o new # <<>>
        BY <1>5, <1>8, OneLineFirst
      <4> QED BY <4>1, <4>2, <1>5
    <3> QED BY <3>1, <3>2
  <2>8. u = Append(Front(out), Text) \o Tail(all)
    <3>1. Last(out) = Unterminated
      BY <2>6 DEF Last
    <3> QED BY <3>1, <2>6, <2>7, <1>4, <1>12, Zenon DEF Put
  <2>9. /\ u \in Seq(FileLine) /\ Headed(u) /\ Unbroken(u)
        /\ \A s \in Durable : \A k : Agree(out, u, s, k)
    BY <2>5, <2>6, <2>7, <2>8, <1>5, Glued
  <2>10. Sound(u)
    BY <2>9, UnbrokenClosed DEF Sound
  <2>11. ASSUME NEW s \in Durable, NEW k PROVE Agree(text, u, s, k)
    <3>1. Agree(text, out, s, k)
      BY <2>4, <1>3, Zenon DEF Frame
    <3> QED BY <3>1, <2>9, AgreeTrans
  <2>12. Result(u, text, section, key, v)
    BY <2>4, <2>10, <2>11, Zenon DEF Result
  <2> QED BY <2>12 DEF u
<1> QED BY <1>9, <1>10, <1>11, <1>12, Zenon

----------------------------------------------------------------------------
(* MEMORY.md is a map of facts *)

\* A bullet of a call: no line of its value is a heading of a durable section.
Bulleted(section, value) ==
  /\ value.rest \in Seq(FileLine) /\ Foreign(value.rest)
  /\ section \in Durable => value.rest = <<>>

\* The answer of a store, and of a recall, comes with the end of the call.
StoreShape(r) ==
  /\ r.op = "store" /\ r.section \in Marks
  /\ IF r.pc \in {"unlock", "return"} THEN r.result \in {"stored", "failed"}
     ELSE r.pc \in {"lock", "write", "rename", "dead"} /\ r.result = None
RecallShape(r) == r.op = "recall" /\ r.pc \in {"lock", "return", "dead"}

CallerShape(r) ==
  r # NoCall =>
    /\ (StoreShape(r) /\ r.value \in Values) \/ RecallShape(r)
    /\ r.key \in Keys

\* The main thread stores the text of a file among the notes.
MainShape(r) ==
  r.pc \notin {"idle", "return"} =>
    /\ StoreShape(r) /\ r.section = Notes /\ r.key \in Marks
    /\ r.value.first = "" /\ Bulleted(Notes, r.value)

Shapes == /\ \A c \in Callers : CallerShape(call[c])
          /\ MainShape(call[Main])

\* What the files hold.
FilesInv ==
  /\ MEMORY_FILE \in DOMAIN dir => Sound(dir[MEMORY_FILE])
  /\ boot \in {"copy", "fill"} => MEMORY_FILE \in DOMAIN dir /\ dir[MEMORY_FILE] = <<>>
  /\ \A f \in DOMAIN dir \ {MEMORY_FILE, TMP} :
       f \in Marks /\ dir[f] \in Seq(FileLine) /\ Foreign(dir[f])
  /\ boot = "unlink" => migrating \notin {MEMORY_FILE, TMP}
  /\ day \in 1..Len(Days)

MapInv == MemoryInv /\ Shapes /\ FilesInv

LEMMA NotesNotDurable == Notes \notin Durable
  BY DEF Durable

LEMMA EmptySound == Sound(<<>>) /\ Foreign(<<>>) /\ <<>> \in Seq(FileLine)
<1>1. <<>> \in Seq(FileLine) /\ DOMAIN <<>> = {}
  OBVIOUS
<1> QED BY <1>1 DEF Sound, Headed, Closed, Foreign

LEMMA OneLineAndMore ==
  ASSUME NEW line \in FileLine, NEW rest \in Seq(FileLine)
  PROVE  LET all == <<line>> \o rest
         IN /\ all \in Seq(FileLine) /\ Len(all) \in Nat /\ all[1] = line
            /\ Len(all) >= 1
            /\ rest = <<>> => all = <<line>>
            /\ \A i \in 1..Len(all) : all[i] = line \/ \E j \in DOMAIN rest : all[i] = rest[j]
<1> DEFINE all == <<line>> \o rest
<1>1. all \in Seq(FileLine) /\ Len(all) \in Nat /\ all[1] = line /\ Len(all) >= 1
  OBVIOUS
<1>2. rest = <<>> => all = <<line>>
  OBVIOUS
<1>3. \A i \in 1..Len(all) : all[i] = line \/ (i - 1 \in DOMAIN rest /\ all[i] = rest[i - 1])
  OBVIOUS
<1> HIDE DEF all
<1>4. \A i \in 1..Len(all) : all[i] = line \/ \E j \in DOMAIN rest : all[i] = rest[j]
  BY <1>3, Zenon
<1> QED BY <1>1, <1>2, <1>4, Zenon DEF all

LEMMA BulletLines ==
  ASSUME NEW section, NEW key \in Marks, NEW value, value.first \in Marks,
         Bulleted(section, value)
  PROVE  NewLines(Bullet(key, value), section, key, value.first)
<1> DEFINE b == Line("bullet", key, value.first)
           rest == value.rest
           all == <<b>> \o rest
           m == IF Len(all) < BULLET_MAX THEN Len(all) ELSE BULLET_MAX
           new == Bullet(key, value)
<1>1. /\ rest \in Seq(FileLine) /\ Foreign(rest)
      /\ section \in Durable => rest = <<>>
  BY Zenon DEF Bulleted
<1>2. b \in FileLine /\ b.kind = "bullet"
  <2>1. "bullet" \in Kinds
    BY DEF Kinds
  <2> QED BY <2>1, LineFields
<1>3. new = SubSeq(all, 1, m)
  BY Zenon DEF Bullet
<1> HIDE DEF b, rest, new
<1>4. /\ all \in Seq(FileLine) /\ Len(all) \in Nat /\ all[1] = b /\ Len(all) >= 1
      /\ \A i \in 1..Len(all) : all[i] = b \/ \E j \in DOMAIN rest : all[i] = rest[j]
      /\ rest = <<>> => all = <<b>>
  BY <1>1, <1>2, OneLineAndMore
<1> HIDE DEF all
<1>5. m \in 1..Len(all) /\ m \in 0..Len(all)
  BY <1>4, MemoryAssumption
<1> HIDE DEF m
<1>6. /\ new \in Seq(FileLine) /\ DOMAIN new = 1..m /\ Len(new) = m
      /\ \A i \in 1..m : new[i] = all[i]
  BY <1>3, <1>4, <1>5, PrefixIs
<1>7. new # <<>> /\ new[1] = b
  BY <1>4, <1>5, <1>6
<1>8. ASSUME section \in Durable PROVE new = <<new[1]>>
  <2>1. all = <<b>>
    BY <1>1, <1>4, <1>8
  <2>2. m = 1
    <3>1. Len(all) = 1
      BY <2>1
    <3> QED BY <3>1, <1>5
  <2> QED BY <1>6, <2>2
<1>9. \A i \in DOMAIN new : new[i] = b \/ \E j \in DOMAIN rest : new[i] = rest[j]
  BY <1>4, <1>5, <1>6
<1>10. \A s : b # Heading(s)
  <2> SUFFICES ASSUME NEW s PROVE b # Heading(s)
    OBVIOUS
  <2>1. Heading(s).kind = "heading"
    BY HeadingFields
  <2> QED BY <2>1, <1>2
<1>11. b # Unterminated
  <2>1. Unterminated.kind = "unterminated"
    BY DEF Unterminated, Line
  <2> QED BY <2>1, <1>2
<1>12. Foreign(new)
  <2>1. ASSUME NEW i \in DOMAIN new
        PROVE  /\ new[i].kind = "heading" => new[i].value = ""
               /\ new[i] # Unterminated /\ \A s \in Durable : new[i] # Heading(s)
    <3>1. CASE new[i] = b
      BY <3>1, <1>2, <1>10, <1>11
    <3>2. CASE \E j \in DOMAIN rest : new[i] = rest[j]
      BY <3>2, <1>1, Zenon DEF Foreign, Headed
    <3> QED BY <3>1, <3>2, <1>9, Zenon
  <2> QED BY <2>1, Zenon DEF Foreign, Headed
<1> QED BY <1>6, <1>7, <1>8, <1>12, Zenon DEF NewLines, new, b

\* What a step inside a call sets.
ServedTo(c, pc, result) ==
  /\ \A d \in Threads \ {c} : call'[d] = call[d]
  /\ call'[c].pc = pc /\ call'[c].result = result /\ call'[c].op = call[c].op
  /\ call'[c].section = call[c].section /\ call'[c].key = call[c].key
  /\ call'[c].value = call[c].value

LEMMA SetFields ==
  ASSUME NEW r, IsCall(r), NEW p, NEW v
  PROVE  LET q == [r EXCEPT !.pc = p]
             a == [q EXCEPT !.result = v]
             b == [q EXCEPT !.content = v]
         IN /\ q.pc = p /\ q.result = r.result /\ q.op = r.op /\ q.section = r.section
            /\ q.key = r.key /\ q.value = r.value
            /\ a.pc = p /\ a.result = v /\ a.op = r.op /\ a.section = r.section
            /\ a.key = r.key /\ a.value = r.value
            /\ b.pc = p /\ b.result = r.result /\ b.op = r.op /\ b.section = r.section
            /\ b.key = r.key /\ b.value = r.value
  BY DEF IsCall

LEMMA ServedFields ==
  ASSUME MemoryInv, NEW c \in Threads
  PROVE  /\ StoreLock(c) => ServedTo(c, "write", call[c].result)
         /\ StoreWrite(c) => ServedTo(c, "rename", call[c].result)
         /\ StoreRename(c) => ServedTo(c, "unlock", "stored")
         /\ StoreFails(c) => ServedTo(c, "unlock", "failed")
         /\ StoreUnlock(c) => ServedTo(c, "return", call[c].result)
         /\ RecallRead(c) =>
              ServedTo(c, "return",
                       memory_recall(read_memory_file, call[c].section, call[c].key))
         /\ Cancel(c) => ServedTo(c, "dead", call[c].result)
<1>1. IsCall(call[c]) /\ call = [d \in Threads |-> call[d]]
  BY DEF MemoryInv, CallTypes
<1>2. ASSUME NEW r, call' = [call EXCEPT ![c] = r]
      PROVE  call'[c] = r /\ \A d \in Threads \ {c} : call'[d] = call[d]
  BY <1>1, <1>2
<1>3. ASSUME NEW p, NEW v, call' = [call EXCEPT ![c].pc = p, ![c].result = v]
      PROVE  ServedTo(c, p, v)
  <2>1. PICK q, r : q = [call[c] EXCEPT !.pc = p] /\ r = [q EXCEPT !.result = v]
                    /\ call' = [call EXCEPT ![c] = r]
    BY <1>3
  <2>2. call'[c] = r /\ \A d \in Threads \ {c} : call'[d] = call[d]
    BY <1>2, <2>1
  <2>3. /\ r.pc = p /\ r.result = v /\ r.op = call[c].op /\ r.section = call[c].section
        /\ r.key = call[c].key /\ r.value = call[c].value
    BY <1>1, <2>1, SetFields
  <2> QED BY <2>2, <2>3 DEF ServedTo
<1>4. ASSUME NEW p, call' = [call EXCEPT ![c].pc = p]
      PROVE  ServedTo(c, p, call[c].result)
  <2>1. PICK r : r = [call[c] EXCEPT !.pc = p] /\ call' = [call EXCEPT ![c] = r]
    BY <1>4
  <2>2. call'[c] = r /\ \A d \in Threads \ {c} : call'[d] = call[d]
    BY <1>2, <2>1
  <2>3. /\ r.pc = p /\ r.result = call[c].result /\ r.op = call[c].op
        /\ r.section = call[c].section /\ r.key = call[c].key /\ r.value = call[c].value
    BY <1>1, <2>1, SetFields
  <2> QED BY <2>2, <2>3 DEF ServedTo
<1>5. ASSUME NEW p, NEW v, call' = [call EXCEPT ![c].pc = p, ![c].content = v]
      PROVE  ServedTo(c, p, call[c].result)
  <2>1. PICK q, r : q = [call[c] EXCEPT !.pc = p] /\ r = [q EXCEPT !.content = v]
                    /\ call' = [call EXCEPT ![c] = r]
    BY <1>5
  <2>2. call'[c] = r /\ \A d \in Threads \ {c} : call'[d] = call[d]
    BY <1>2, <2>1
  <2>3. /\ r.pc = p /\ r.result = call[c].result /\ r.op = call[c].op
        /\ r.section = call[c].section /\ r.key = call[c].key /\ r.value = call[c].value
    BY <1>1, <2>1, SetFields
  <2> QED BY <2>2, <2>3 DEF ServedTo
<1> QED BY <1>3, <1>4, <1>5 DEF StoreLock, StoreWrite, StoreRename, StoreFails, StoreUnlock,
           RecallRead, Cancel

\* What the settings of the constants come to.
Fitted ==
  /\ ColonKeys = {} /\ LongValues = {} /\ ~DiskFull
  /\ \A v \in Values : v.first \in Marks /\ \A s : Bulleted(s, v)
  /\ \A d \in DOMAIN Days : Days[d] \in Marks /\ Days[d] \notin Durable
  /\ \A f \in DOMAIN Legacy \ {TMP} : Legacy[f] \in Seq(FileLine) /\ Foreign(Legacy[f])
  /\ Sound(Template)
  /\ \A s \in Durable : \A i \in Under(Template, s) : Template[i].kind # "bullet"

LEMMA FitsFitted == FactsFit => Fitted
<1> SUFFICES ASSUME FactsFit PROVE Fitted
  OBVIOUS
<1>1. TextLines \subseteq FileLine
  BY DEF TextLines, FileLine, Kinds, Marks
<1>2. \A t \in Seq(TextLines) : t \in Seq(FileLine)
  BY <1>1
<1>3. ASSUME NEW v \in Values PROVE v.first \in Marks /\ \A s : Bulleted(s, v)
  <2>1. v.first \in Marks
    BY DEF Marks
  <2>2. v.rest = <<>>
    BY Zenon DEF FactsFit
  <2> QED BY <2>1, <2>2, EmptySound DEF Bulleted
<1>4. ASSUME NEW d \in DOMAIN Days PROVE Days[d] \in Marks
  BY DEF Marks, Range
<1> QED BY <1>2, <1>3, <1>4, Zenon DEF FactsFit, Fitted, Sound

\* A call that is going to write fits the text algorithm.
LEMMA UpdateSays ==
  ASSUME Fitted, MapInv, NEW c \in Threads, call[c].pc \in {"lock", "write", "rename"},
         call[c].op = "store", NEW text, Sound(text)
  PROVE  Result(Update(c, text), text, call[c].section, call[c].key, call[c].value.first)
<1> DEFINE r == call[c]
<1>1. /\ r.section \in Marks /\ r.key \in Marks /\ r.value.first \in Marks
      /\ Bulleted(r.section, r.value)
  <2>1. CASE c = Main
    <3>1. MainShape(r) /\ r.pc \notin {"idle", "return"}
      BY <2>1 DEF MapInv, Shapes
    <3>2. r.section = Notes /\ r.key \in Marks /\ r.value.first = "" /\ Bulleted(Notes, r.value)
      BY <3>1, Zenon DEF MainShape
    <3>3. Notes \in Marks /\ "" \in Marks
      BY Zenon DEF Marks
    <3> QED BY <3>2, <3>3
  <2>2. CASE c # Main
    <3>1. c \in Callers /\ r.pc # "idle"
      BY <2>2 DEF Threads
    <3>2. CallerShape(r) /\ r # NoCall
      BY <3>1, NoCallShape, Zenon DEF MapInv, Shapes
    <3>3. ~RecallShape(r)
      BY DEF RecallShape
    <3>4. StoreShape(r) /\ r.value \in Values /\ r.key \in Keys
      BY <3>2, <3>3, Zenon DEF CallerShape
    <3>5. r.section \in Marks
      BY <3>4, Zenon DEF StoreShape
    <3>6. r.key \in Marks
      BY <3>4, Zenon DEF Marks
    <3> QED BY <3>4, <3>5, <3>6, Zenon DEF Fitted
  <2> QED BY <2>1, <2>2
<1>2. NewLines(Bullet(r.key, r.value), r.section, r.key, r.value.first)
  BY <1>1, BulletLines
<1>3. ColonKeys = {} /\ LongValues = {}
  BY Zenon DEF Fitted
<1> HIDE DEF r
<1>4. Result(Stored(text, r.section, r.key, Bullet(r.key, r.value)), text, r.section, r.key,
             r.value.first)
  BY <1>1, <1>2, <1>3, StoredSays
<1> QED BY <1>4, Zenon DEF Update, r

\* The facts are what they were.
FactsSame == \A s \in Durable, k \in Keys : Recalled(s, k)' = Recalled(s, k)

LEMMA SameText ==
  ASSUME read_memory_file' = read_memory_file
  PROVE  FactsSame
<1>1. ASSUME NEW s \in Durable, NEW k \in Keys
      PROVE  Recalled(s, k)' = bullet_value(read_memory_file', s, k)
  BY DEF Recalled
<1>2. \A s, k : Recalled(s, k) = bullet_value(read_memory_file, s, k)
  BY DEF Recalled
<1> QED BY <1>1, <1>2 DEF FactsSame

LEMMA NoFacts ==
  ASSUME NEW text \in Seq(FileLine), NEW s, NEW k,
         \A i \in Under(text, s) : text[i].kind # "bullet"
  PROVE  bullet_value(text, s, k) = None
<1>1. Hits(text, s, k) = {}
  BY DEF Hits
<1> QED BY <1>1, RecallFirst, Zenon

\* Another file is written, or one is removed.
LEMMA OtherFile ==
  ASSUME FilesInv, NEW f, f \notin {MEMORY_FILE},
         \/ \E text : /\ dir' = Creating(f, text)
                      /\ f # TMP => f \in Marks /\ text \in Seq(FileLine) /\ Foreign(text)
         \/ dir' = Removing(f)
         \/ dir' = dir,
         boot' \in {"copy", "fill"} => boot' = boot,
         boot' = "unlink" => migrating' \notin {MEMORY_FILE, TMP}, day' \in 1..Len(Days)
  PROVE  FilesInv' /\ read_memory_file' = read_memory_file
<1>1. /\ MEMORY_FILE \in DOMAIN dir' <=> MEMORY_FILE \in DOMAIN dir
      /\ MEMORY_FILE \in DOMAIN dir => dir'[MEMORY_FILE] = dir[MEMORY_FILE]
      /\ \A g \in DOMAIN dir' \ {MEMORY_FILE, TMP} :
           g \in Marks /\ dir'[g] \in Seq(FileLine) /\ Foreign(dir'[g])
  <2>0. \A g \in DOMAIN dir \ {MEMORY_FILE, TMP} :
          g \in Marks /\ dir[g] \in Seq(FileLine) /\ Foreign(dir[g])
    BY Zenon DEF FilesInv
  <2>1. CASE \E text : /\ dir' = Creating(f, text)
                       /\ f # TMP => f \in Marks /\ text \in Seq(FileLine) /\ Foreign(text)
    <3>1. PICK text : /\ dir' = Creating(f, text)
                      /\ f # TMP => f \in Marks /\ text \in Seq(FileLine) /\ Foreign(text)
      BY <2>1
    <3>2. DOMAIN dir' = DOMAIN dir \cup {f}
          /\ \A g \in DOMAIN dir' : dir'[g] = IF g = f THEN text ELSE dir[g]
      BY <3>1 DEF Creating
    <3> QED BY <2>0, <3>1, <3>2, Zenon
  <2>2. CASE dir' = Removing(f)
    <3>1. DOMAIN dir' = DOMAIN dir \ {f} /\ \A g \in DOMAIN dir' : dir'[g] = dir[g]
      BY <2>2 DEF Removing, Restrict
    <3> QED BY <2>0, <3>1, Zenon
  <2>3. CASE dir' = dir
    BY <2>0, <2>3, Zenon
  <2> QED BY <2>1, <2>2, <2>3
<1>2. read_memory_file' = read_memory_file
  BY <1>1, SameFile
<1>3. MEMORY_FILE \in DOMAIN dir' => Sound(dir'[MEMORY_FILE])
  BY <1>1, Zenon DEF FilesInv
<1>4. boot' \in {"copy", "fill"} => MEMORY_FILE \in DOMAIN dir' /\ dir'[MEMORY_FILE] = <<>>
  BY <1>1, Zenon DEF FilesInv
<1>5. FilesInv'
  BY <1>1, <1>3, <1>4 DEF FilesInv, Foreign, Sound, Headed, Closed, OpenAt
<1> QED BY <1>2, <1>5

\* A line of the history.
LEMMA HistoryLines ==
  ASSUME Fitted, FilesInv
  PROVE  /\ history_log => \E text : /\ dir' = Creating(HISTORY, text)
                                     /\ text \in Seq(FileLine) /\ Foreign(text)
         /\ history_create => \E text : /\ dir' = Creating(HISTORY, text)
                                        /\ text \in Seq(FileLine) /\ Foreign(text)
         /\ HISTORY \in Marks /\ HISTORY \notin {MEMORY_FILE, TMP}
<1>1. HISTORY \in Marks /\ HISTORY \notin {MEMORY_FILE, TMP}
  BY DEF Marks, HISTORY, MEMORY_FILE, TMP
<1>2. HISTORY \in DOMAIN dir => dir[HISTORY] \in Seq(FileLine) /\ Foreign(dir[HISTORY])
  BY <1>1, Zenon DEF FilesInv
<1>3. ASSUME NEW t \in Seq(FileLine), NEW u \in Seq(FileLine), Foreign(t), Foreign(u)
      PROVE  t \o u \in Seq(FileLine) /\ Foreign(t \o u)
  <2> DEFINE w == t \o u
  <2>1. w \in Seq(FileLine) /\ \A i \in DOMAIN w : (i \in DOMAIN t /\ w[i] = t[i])
                                \/ (i - Len(t) \in DOMAIN u /\ w[i] = u[i - Len(t)])
    BY <1>3
  <2> HIDE DEF w
  <2>2. Foreign(w)
    BY <1>3, <2>1, Zenon DEF Foreign, Headed
  <2> QED BY <2>1, <2>2 DEF w
<1>4. ASSUME NEW l \in FileLine, l # Unterminated, l.kind = "heading" => l.value = "",
             \A s \in Durable : l # Heading(s)
      PROVE  <<l>> \in Seq(FileLine) /\ Foreign(<<l>>)
  <2> DEFINE t == <<l>>
  <2>1. t \in Seq(FileLine)
    OBVIOUS
  <2>2. DOMAIN t = {1} /\ t[1] = l
    OBVIOUS
  <2> HIDE DEF t
  <2>3. Foreign(t)
    BY <2>2, <1>4, Zenon DEF Foreign, Headed
  <2> QED BY <2>1, <2>3 DEF t
<1>5. ASSUME NEW l \in {Text, Entry} PROVE <<l>> \in Seq(FileLine) /\ Foreign(<<l>>)
  <2>1. /\ Text \in FileLine /\ Text.kind = "text" /\ Entry \in FileLine
        /\ Entry.kind = "entry" /\ Unterminated.kind = "unterminated"
    <3>1. "" \in Marks
      BY Zenon DEF Marks
    <3> QED BY <3>1 DEF Text, Entry, Unterminated, Line, FileLine, Kinds
  <2>3. l \in FileLine /\ l.kind # "heading" /\ l # Unterminated
    BY <2>1
  <2>2. \A s \in Durable : l # Heading(s)
    <3> SUFFICES ASSUME NEW s \in Durable PROVE l # Heading(s)
      OBVIOUS
    <3> QED BY <2>3, HeadingFields
  <2> QED BY <2>2, <2>3, <1>4
<1>6. <<Heading(Days[day])>> \in Seq(FileLine) /\ Foreign(<<Heading(Days[day])>>)
  <2> DEFINE d == Days[day]
  <2>1. day \in DOMAIN Days
    <3>1. day \in 1..Len(Days)
      BY Zenon DEF FilesInv
    <3> QED BY <3>1, MemoryAssumption
  <2>2. d \in Marks /\ d \notin Durable
    BY <2>1, Zenon DEF Fitted
  <2> HIDE DEF d
  <2>3. Heading(d).kind = "heading" /\ Heading(d).value = ""
    BY HeadingFields
  <2>4. Heading(d) \in FileLine /\ Heading(d) # Unterminated
    BY <2>2 DEF Heading, Unterminated, Line, FileLine, Kinds, Marks
  <2>5. ASSUME NEW s \in Durable PROVE Heading(d) # Heading(s)
    BY <2>2, HeadingsDiffer
  <2> QED BY <2>3, <2>4, <2>5, <1>4 DEF d
<1>7. ASSUME history_log
      PROVE  \E text : dir' = Creating(HISTORY, text) /\ text \in Seq(FileLine) /\ Foreign(text)
  <2> DEFINE logged == IF HISTORY \in DOMAIN dir THEN dir[HISTORY] ELSE <<>>
             date == IF Days[day] # last_date THEN <<Heading(Days[day])>> ELSE <<>>
  <2>1. dir' = Creating(HISTORY, logged \o date \o <<Entry>>)
    BY <1>7 DEF history_log
  <2>2. logged \in Seq(FileLine) /\ Foreign(logged)
    BY <1>2, EmptySound
  <2>3. date \in Seq(FileLine) /\ Foreign(date)
    BY <1>6, EmptySound
  <2>4. <<Entry>> \in Seq(FileLine) /\ Foreign(<<Entry>>)
    BY <1>5
  <2> HIDE DEF logged, date
  <2>5. logged \o date \in Seq(FileLine) /\ Foreign(logged \o date)
    BY <1>3, <2>2, <2>3
  <2>6. (logged \o date) \o <<Entry>> \in Seq(FileLine) /\ Foreign((logged \o date) \o <<Entry>>)
    BY <1>3, <2>4, <2>5
  <2> QED BY <2>1, <2>6
<1>8. ASSUME history_create
      PROVE  \E text : dir' = Creating(HISTORY, text) /\ text \in Seq(FileLine) /\ Foreign(text)
  <2> DEFINE logged == IF HISTORY \in DOMAIN dir THEN dir[HISTORY] ELSE <<Text>>
  <2>1. dir' = Creating(HISTORY, logged)
    BY <1>8 DEF history_create
  <2>2. logged \in Seq(FileLine) /\ Foreign(logged)
    BY <1>2, <1>5
  <2> QED BY <2>1, <2>2
<1> QED BY <1>1, <1>7, <1>8

\* What a store does to the facts.
StoresFact(c) ==
  \A s \in Durable, k \in Keys :
    Recalled(s, k)' = IF s = call[c].section /\ k = call[c].key THEN call[c].value.first
                      ELSE Recalled(s, k)

LEMMA RenameFiles ==
  ASSUME Fitted, MapInv, BelowCap', NEW c \in Threads, StoreRename(c)
  PROVE  FilesInv' /\ StoresFact(c)
<1> DEFINE u == dir[TMP]
           before == read_memory_file
<1>1. call[c].pc = "rename" /\ boot' = boot /\ migrating' = migrating /\ day' = day
  BY DEF StoreRename, startVars, histVars
<1>2. /\ DOMAIN dir' = (DOMAIN dir \ {TMP}) \cup {MEMORY_FILE} /\ dir'[MEMORY_FILE] = u
      /\ \A g \in DOMAIN dir' \ {MEMORY_FILE} : dir'[g] = dir[g]
  BY DEF StoreRename
<1>3. call[c].content = before /\ u \in Written(Update(c, before))
  BY <1>1 DEF MapInv, MemoryInv, Current
<1>4. Result(Update(c, before), before, call[c].section, call[c].key, call[c].value.first)
  <2>1. Sound(before)
    BY EmptySound, Zenon DEF read_memory_file, MapInv, FilesInv
  <2>2. call[c].op = "store"
    <3>1. CASE c = Main
      BY <1>1, <3>1 DEF MapInv, Shapes, MainShape, StoreShape
    <3>2. CASE c # Main
      <4>1. c \in Callers /\ call[c] # NoCall
        BY <1>1, <3>2, NoCallShape DEF Threads
      <4>2. ~RecallShape(call[c])
        BY <1>1 DEF RecallShape
      <4> QED BY <4>1, <4>2, Zenon DEF MapInv, Shapes, CallerShape, StoreShape
    <3> QED BY <3>1, <3>2
  <2> QED BY <1>1, <2>1, <2>2, UpdateSays
<1>5. Result(u, before, call[c].section, call[c].key, call[c].value.first)
  <2> DEFINE t == Update(c, before)
  <2>1. t \in Seq(FileLine)
    BY <1>4, Zenon DEF Result, Sound
  <2> HIDE DEF t
  <2>2. Written(t) = {SubSeq(t, 1, Len(t))}
    BY <2>1 DEF Written, Fitted
  <2>3. SubSeq(t, 1, Len(t)) = t
    BY <2>1
  <2>4. u = t
    BY <1>3, <2>2, <2>3 DEF t
  <2> QED BY <2>4, <1>4 DEF t
<1>6. read_memory_file' = u
  <2>1. MEMORY_FILE \in DOMAIN dir'
    BY <1>2
  <2> QED BY <1>2, <2>1 DEF read_memory_file, BelowCap
<1> HIDE DEF u, before
<1>7. StoresFact(c)
  <2> SUFFICES ASSUME NEW s \in Durable, NEW k \in Keys
               PROVE  Recalled(s, k)' =
                        IF s = call[c].section /\ k = call[c].key THEN call[c].value.first
                        ELSE Recalled(s, k)
    BY DEF StoresFact
  <2>1. Recalled(s, k)' = bullet_value(u, s, k) /\ Recalled(s, k) = bullet_value(before, s, k)
    BY <1>6 DEF Recalled, before
  <2>2. CASE s = call[c].section /\ k = call[c].key
    <3>1. bullet_value(u, s, k) = call[c].value.first
      BY <1>5, <2>2, Zenon DEF Result
    <3> QED BY <3>1, <2>1, <2>2
  <2>3. CASE ~(s = call[c].section /\ k = call[c].key)
    <3>1. bullet_value(u, s, k) = bullet_value(before, s, k)
      BY <1>5, <2>3, Zenon DEF Result, Agree
    <3> QED BY <3>1, <2>1, <2>3
  <2> QED BY <2>2, <2>3
<1>8. Sound(u)
  BY <1>5, Zenon DEF Result
<1>9. boot \notin {"copy", "fill"}
  <2>1. Running \/ boot = "unlink"
    <3>1. call[c].pc # "idle"
      BY <1>1
    <3> QED BY <3>1, WhoServes DEF MapInv
  <2> QED BY <2>1 DEF Running
<1>10. \A g \in DOMAIN dir' \ {MEMORY_FILE, TMP} :
         g \in Marks /\ dir'[g] \in Seq(FileLine) /\ Foreign(dir'[g])
  <2>1. \A g \in DOMAIN dir \ {MEMORY_FILE, TMP} :
          g \in Marks /\ dir[g] \in Seq(FileLine) /\ Foreign(dir[g])
    BY Zenon DEF MapInv, FilesInv
  <2> QED BY <1>2, <2>1, Zenon
<1>11. boot' = "unlink" => migrating' \notin {MEMORY_FILE, TMP}
  BY <1>1, Zenon DEF MapInv, FilesInv
<1>12. day' \in 1..Len(Days)
  BY <1>1, Zenon DEF MapInv, FilesInv
<1>13. MEMORY_FILE \in DOMAIN dir' => Sound(dir'[MEMORY_FILE])
  BY <1>2, <1>8
<1>14. FilesInv'
  BY <1>1, <1>9, <1>10, <1>11, <1>12, <1>13 DEF FilesInv, Foreign, Sound, Headed, Closed, OpenAt
<1> QED BY <1>7, <1>14

\* The other steps inside a call.
LEMMA ServeFiles ==
  ASSUME Fitted, MapInv, NEW c \in Threads, Serve(c), ~StoreRename(c)
  PROVE  FilesInv' /\ FactsSame
<1>1. boot' = boot /\ migrating' = migrating /\ day' = day
  BY DEF Serve, StoreLock, StoreWrite, StoreFails, StoreUnlock, RecallRead, Cancel,
     startVars, histVars
<1>2. TMP \notin {MEMORY_FILE}
  BY DEF TMP, MEMORY_FILE
<1>3. (\E text : dir' = Creating(TMP, text)) \/ dir' = Removing(TMP) \/ dir' = dir
  BY DEF Serve, StoreLock, StoreWrite, StoreFails, StoreUnlock, RecallRead, Cancel
<1>4. FilesInv /\ day' \in 1..Len(Days) /\ (boot' = "unlink" => migrating' \notin {MEMORY_FILE, TMP})
  BY <1>1, Zenon DEF MapInv, FilesInv
<1>5. FilesInv' /\ read_memory_file' = read_memory_file
  BY <1>1, <1>2, <1>3, <1>4, OtherFile
<1> QED BY <1>5, SameText

\* A text of MEMORY.md in which nothing is stored yet replaces an empty one.
LEMMA FirstText ==
  ASSUME FilesInv, NEW text, Sound(text),
         \A s \in Durable : \A i \in Under(text, s) : text[i].kind # "bullet",
         MEMORY_FILE \notin DOMAIN dir \/ dir[MEMORY_FILE] = <<>>,
         DOMAIN dir' = DOMAIN dir \cup {MEMORY_FILE}, dir'[MEMORY_FILE] = text,
         \A f \in DOMAIN dir \ {MEMORY_FILE} : dir'[f] = dir[f],
         boot' \in {"copy", "fill"} => text = <<>>, boot' # "unlink", day' = day
  PROVE  FilesInv' /\ FactsSame
<1>1. ASSUME NEW t, Sound(t), \A s \in Durable : \A i \in Under(t, s) : t[i].kind # "bullet"
      PROVE  \A s \in Durable : \A k : bullet_value(t, s, k) = None
  <2>1. t \in Seq(FileLine)
    BY <1>1 DEF Sound
  <2> QED BY <1>1, <2>1, NoFacts
<1>2. \A s \in Durable : \A i \in Under(<<>>, s) : <<>>[i].kind # "bullet"
  BY DEF Under
<1>3. \A s \in Durable : \A k : bullet_value(text, s, k) = None /\ bullet_value(<<>>, s, k) = None
  BY <1>1, <1>2, EmptySound
<1>4. read_memory_file = <<>> /\ read_memory_file' \in {<<>>, text}
  BY DEF read_memory_file
<1>5. ASSUME NEW s \in Durable, NEW k \in Keys PROVE Recalled(s, k)' = Recalled(s, k)
  <2>1. Recalled(s, k) = bullet_value(<<>>, s, k)
    BY <1>4 DEF Recalled
  <2>2. Recalled(s, k)' = bullet_value(read_memory_file', s, k)
    BY DEF Recalled
  <2> QED BY <1>3, <1>4, <2>1, <2>2
<1>6. \A f \in DOMAIN dir' \ {MEMORY_FILE, TMP} :
        f \in Marks /\ dir'[f] \in Seq(FileLine) /\ Foreign(dir'[f])
  <2>1. \A f \in DOMAIN dir \ {MEMORY_FILE, TMP} :
          f \in Marks /\ dir[f] \in Seq(FileLine) /\ Foreign(dir[f])
    BY Zenon DEF FilesInv
  <2> QED BY <2>1, Zenon
<1>7. day' \in 1..Len(Days)
  BY Zenon DEF FilesInv
<1>8. /\ MEMORY_FILE \in DOMAIN dir' => Sound(dir'[MEMORY_FILE])
      /\ boot' \in {"copy", "fill"} => MEMORY_FILE \in DOMAIN dir' /\ dir'[MEMORY_FILE] = <<>>
  BY Zenon
<1>9. FilesInv'
  BY <1>6, <1>7, <1>8 DEF FilesInv, Foreign, Sound, Headed, Closed, OpenAt
<1> QED BY <1>5, <1>9 DEF FactsSame

LEMMA InitialText ==
  LET text == <<Text>> \o [i \in DOMAIN Sections |-> Heading(Sections[i])]
  IN Sound(text) /\ \A s \in Durable : \A i \in Under(text, s) : text[i].kind # "bullet"
<1> DEFINE hs == [i \in DOMAIN Sections |-> Heading(Sections[i])]
           text == <<Text>> \o hs
<1>1. \A i \in DOMAIN Sections : Heading(Sections[i]) \in FileLine
  <2> SUFFICES ASSUME NEW i \in DOMAIN Sections PROVE Heading(Sections[i]) \in FileLine
    OBVIOUS
  <2>1. Sections[i] \in Marks /\ "" \in Marks
    BY DEF Marks, Range
  <2> QED BY <2>1 DEF Heading, Line, FileLine, Kinds
<1>2. Text \in FileLine /\ Text.kind = "text"
  BY DEF Text, Line, FileLine, Kinds, Marks
<1>3. hs \in Seq(FileLine) /\ \A i \in DOMAIN hs : \E s : hs[i] = Heading(s)
  <2>1. DOMAIN Sections = 1..Len(Sections) /\ Len(Sections) \in Nat
    BY MemoryAssumption
  <2> QED BY <1>1, <2>1
<1> HIDE DEF hs
<1>4. text \in Seq(FileLine)
  BY <1>2, <1>3
<1>5. \A i \in DOMAIN text : text[i] = Text \/ \E j \in DOMAIN hs : text[i] = hs[j]
  <2>1. \A i \in 1..Len(text) : text[i] = Text \/ \E j \in DOMAIN hs : text[i] = hs[j]
    BY <1>2, <1>3, OneLineAndMore
  <2> QED BY <1>4, <2>1
<1> HIDE DEF text
<1>6. ASSUME NEW i \in DOMAIN text
      PROVE  /\ text[i].kind # "bullet" /\ text[i] # Unterminated
             /\ text[i].kind = "heading" => text[i].value = ""
  <2>1. Unterminated.kind = "unterminated"
    BY DEF Unterminated, Line
  <2>2. CASE text[i] = Text
    BY <2>1, <2>2, <1>2
  <2>3. CASE text[i] # Text
    <3>1. PICK s : text[i] = Heading(s)
      BY <2>3, <1>3, <1>5, Zenon
    <3>2. Heading(s).kind = "heading" /\ Heading(s).value = ""
      BY HeadingFields
    <3> QED BY <2>1, <3>1, <3>2
  <2> QED BY <2>2, <2>3
<1>7. Sound(text)
  BY <1>4, <1>6, Zenon DEF Sound, Headed, Closed
<1>8. \A s \in Durable : \A i \in Under(text, s) : text[i].kind # "bullet"
  BY <1>6, Zenon DEF Under
<1> QED BY <1>7, <1>8, Zenon DEF text, hs

LEMMA BootFiles ==
  ASSUME Fitted, MapInv, MemoryBoot
  PROVE  FilesInv' /\ FactsSame
<1> DEFINE Unfilled == MEMORY_FILE \notin DOMAIN dir \/ dir[MEMORY_FILE] = <<>>
           Writes(text) == /\ DOMAIN dir' = DOMAIN dir \cup {MEMORY_FILE}
                           /\ dir'[MEMORY_FILE] = text
                           /\ \A f \in DOMAIN dir \ {MEMORY_FILE} : dir'[f] = dir[f]
<1>1. FilesInv /\ day \in 1..Len(Days)
  BY Zenon DEF MapInv, FilesInv
<1>2. day' = day
  BY DEF MemoryBoot, MemorySeed, BootCopy, history_create, BootLog, BootCreate,
     create_initial_memory, MigrateRead, MigrateUnlink, BootDone, BootStep, histVars
<1>3. ASSUME NEW text, Sound(text), Unfilled, Writes(text),
             \A s \in Durable : \A i \in Under(text, s) : text[i].kind # "bullet",
             boot' \in {"copy", "fill"} => text = <<>>, boot' # "unlink"
      PROVE  FilesInv' /\ FactsSame
  BY <1>1, <1>2, <1>3, FirstText
<1>4. ASSUME read_memory_file' = read_memory_file PROVE FactsSame
  BY <1>4, SameText
<1>5. \A s \in Durable : \A i \in Under(<<>>, s) : <<>>[i].kind # "bullet"
  BY DEF Under
<1>6. ASSUME dir' = Creating(MEMORY_FILE, <<>>), Unfilled PROVE Writes(<<>>)
  BY <1>6 DEF Creating
<1>7. ASSUME NEW text, dir' = [dir EXCEPT ![MEMORY_FILE] = text], MEMORY_FILE \in DOMAIN dir
      PROVE  Writes(text)
  <2>1. DOMAIN dir' = DOMAIN dir /\ dir'[MEMORY_FILE] = text
        /\ \A f \in DOMAIN dir \ {MEMORY_FILE} : dir'[f] = dir[f]
    BY <1>7
  <2> QED BY <2>1, <1>7
<1>8. ASSUME dir' = dir, boot' \notin {"copy", "fill"},
             boot' = "unlink" => migrating' \notin {MEMORY_FILE, TMP}
      PROVE  FilesInv' /\ FactsSame
  <2>1. FilesInv' /\ read_memory_file' = read_memory_file
    BY <1>1, <1>2, <1>8, OtherFile DEF TMP, MEMORY_FILE
  <2> QED BY <2>1, <1>4
<1>9. ASSUME MemorySeed PROVE FilesInv' /\ FactsSame
  <2>1. CASE MEMORY_FILE \notin DOMAIN dir /\ dir' = Creating(MEMORY_FILE, <<>>) /\ boot' = "copy"
    BY <2>1, <1>3, <1>5, <1>6, EmptySound
  <2>2. CASE dir' = dir /\ boot' = "history"
    BY <2>2, <1>8
  <2> QED BY <1>9, <2>1, <2>2 DEF MemorySeed, BootStep
<1>10. ASSUME BootCreate PROVE FilesInv' /\ FactsSame
  <2>1. CASE MEMORY_FILE \notin DOMAIN dir /\ dir' = Creating(MEMORY_FILE, <<>>) /\ boot' = "fill"
    BY <2>1, <1>3, <1>5, <1>6, EmptySound
  <2>2. CASE dir' = dir /\ boot' = "migrate"
    BY <2>2, <1>8
  <2> QED BY <1>10, <2>1, <2>2 DEF BootCreate, BootStep
<1>11. ASSUME BootCopy PROVE FilesInv' /\ FactsSame
  <2>1. /\ boot = "copy" /\ boot' = "history"
        /\ dir' = [dir EXCEPT ![MEMORY_FILE] = Template]
    BY <1>11 DEF BootCopy, BootStep
  <2>2. MEMORY_FILE \in DOMAIN dir /\ dir[MEMORY_FILE] = <<>>
    BY <1>1, <2>1 DEF FilesInv
  <2>3. Sound(Template) /\ \A s \in Durable : \A i \in Under(Template, s) :
                              Template[i].kind # "bullet"
    BY Zenon DEF Fitted
  <2> QED BY <2>1, <2>2, <2>3, <1>3, <1>7
<1>12. ASSUME create_initial_memory PROVE FilesInv' /\ FactsSame
  <2> DEFINE text == <<Text>> \o [i \in DOMAIN Sections |-> Heading(Sections[i])]
  <2>1. /\ boot = "fill" /\ boot' = "migrate"
        /\ dir' = [dir EXCEPT ![MEMORY_FILE] = text]
    BY <1>12 DEF create_initial_memory, BootStep
  <2>2. MEMORY_FILE \in DOMAIN dir /\ dir[MEMORY_FILE] = <<>>
    BY <1>1, <2>1 DEF FilesInv
  <2>3. Sound(text) /\ \A s \in Durable : \A i \in Under(text, s) : text[i].kind # "bullet"
    BY InitialText
  <2> HIDE DEF text
  <2> QED BY <2>1, <2>2, <2>3, <1>3, <1>7
<1>13. ASSUME BootDone PROVE FilesInv' /\ FactsSame
  <2>1. dir' = dir /\ boot' = "running"
    BY <1>13 DEF BootDone, BootStep
  <2> QED BY <2>1, <1>8
<1>14. ASSUME history_create \/ BootLog PROVE FilesInv' /\ FactsSame
  <2>1. boot' \in {"log", "create"}
    BY <1>14 DEF history_create, BootLog, BootStep
  <2>2. PICK text : dir' = Creating(HISTORY, text) /\ text \in Seq(FileLine) /\ Foreign(text)
    BY <1>1, <1>14, HistoryLines DEF BootLog
  <2>3. HISTORY \in Marks /\ HISTORY \notin {MEMORY_FILE, TMP}
    BY <1>1, HistoryLines
  <2>4. FilesInv' /\ read_memory_file' = read_memory_file
    BY <1>1, <1>2, <2>1, <2>2, <2>3, OtherFile
  <2> QED BY <2>4, <1>4
<1>15. ASSUME NEW f \in LegacyFiles, MigrateRead(f) PROVE FilesInv' /\ FactsSame
  <2>1. dir' = dir /\ boot' = "unlink" /\ migrating' = f
    BY <1>15 DEF MigrateRead
  <2> QED BY <2>1, <1>8 DEF LegacyFiles
<1>16. ASSUME MigrateUnlink PROVE FilesInv' /\ FactsSame
  <2>1. boot = "unlink" /\ boot' = "migrate" /\ dir' = Removing(migrating)
    BY <1>16 DEF MigrateUnlink
  <2>2. migrating \notin {MEMORY_FILE, TMP}
    BY <2>1, <1>1 DEF FilesInv
  <2>3. FilesInv' /\ read_memory_file' = read_memory_file
    BY <1>1, <1>2, <2>1, <2>2, OtherFile
  <2> QED BY <2>3, <1>4
<1> QED BY <1>9, <1>10, <1>11, <1>12, <1>13, <1>14, <1>15, <1>16 DEF MemoryBoot

LEMMA RestFiles ==
  ASSUME Fitted, MapInv,
         \/ LogTurn \/ Midnight \/ Crash \/ UNCHANGED memoryVars
         \/ \E c \in Callers : ToolCall(c) \/ Return(c)
  PROVE  FilesInv' /\ FactsSame
<1>1. FilesInv /\ day \in 1..Len(Days)
  BY Zenon DEF MapInv, FilesInv
<1>2. Days \in Seq(Range(Days)) /\ Len(Days) \in Nat
  BY MemoryAssumption
<1>3. /\ day' \in 1..Len(Days)
      /\ boot' \in {"copy", "fill"} => boot' = boot
      /\ boot' = "unlink" => migrating' \notin {MEMORY_FILE, TMP}
  <2>1. CASE Crash
    BY <2>1, <1>1 DEF Crash
  <2>2. CASE ~Crash
    <3>1. boot' = boot /\ migrating' = migrating
      BY <2>2 DEF LogTurn, Midnight, ToolCall, Return, memoryVars, startVars
    <3>2. day' = day \/ (day < Len(Days) /\ day' = day + 1)
      BY <2>2 DEF LogTurn, Midnight, ToolCall, Return, memoryVars, histVars
    <3> QED BY <1>1, <1>2, <3>1, <3>2 DEF FilesInv
  <2> QED BY <2>1, <2>2
<1>4. CASE LogTurn
  <2>1. PICK text : dir' = Creating(HISTORY, text) /\ text \in Seq(FileLine) /\ Foreign(text)
    BY <1>1, <1>4, HistoryLines DEF LogTurn
  <2>2. HISTORY \in Marks /\ HISTORY \notin {MEMORY_FILE, TMP}
    BY <1>1, HistoryLines
  <2>3. FilesInv' /\ read_memory_file' = read_memory_file
    BY <1>1, <1>3, <2>1, <2>2, OtherFile
  <2> QED BY <2>3, SameText
<1>5. CASE ~LogTurn
  <2>1. dir' = dir
    BY <1>5 DEF Midnight, Crash, ToolCall, Return, memoryVars, fileVars
  <2>2. FilesInv' /\ read_memory_file' = read_memory_file
    BY <1>1, <1>3, <2>1, OtherFile DEF TMP, MEMORY_FILE
  <2> QED BY <2>2, SameText
<1> QED BY <1>4, <1>5

LEMMA NoCallShapes == CallerShape(NoCall) /\ MainShape(NoCall)
  BY NoCallShape DEF CallerShape, MainShape

\* What Serve makes of a call, whoever makes it.
Serves(r, s) ==
  /\ s.op = r.op /\ s.section = r.section /\ s.key = r.key /\ s.value = r.value
  /\ \/ r.op = "store" /\ r.pc = "lock" /\ s.pc = "write" /\ s.result = r.result
     \/ r.pc = "write" /\ s.pc = "rename" /\ s.result = r.result
     \/ r.pc \in {"write", "rename"} /\ s.pc = "unlock" /\ s.result \in {"stored", "failed"}
     \/ r.pc = "unlock" /\ s.pc = "return" /\ s.result = r.result
     \/ r.op = "recall" /\ r.pc = "lock" /\ s.pc = "return"
     \/ r.pc \in {"lock", "write"} /\ s.pc = "dead" /\ s.result = r.result

LEMMA ServesShape ==
  ASSUME NEW r, NEW s, Serves(r, s)
  PROVE  /\ CallerShape(r) => CallerShape(s)
         /\ MainShape(r) => MainShape(s)
<1>1. r.pc \notin {"idle", "return"} /\ r # NoCall
  BY NoCallShape DEF Serves
<1>2. StoreShape(r) => StoreShape(s)
  BY DEF StoreShape, Serves
<1>3. RecallShape(r) => RecallShape(s)
  BY DEF RecallShape, Serves
<1>4. ASSUME CallerShape(r) PROVE CallerShape(s)
  BY <1>1, <1>2, <1>3, <1>4, Zenon DEF CallerShape, Serves
<1>5. ASSUME MainShape(r) PROVE MainShape(s)
  BY <1>1, <1>2, <1>5, Zenon DEF MainShape, Serves
<1> QED BY <1>4, <1>5

LEMMA ServeServes ==
  ASSUME MapInv, NEW c \in Threads, Serve(c)
  PROVE  Serves(call[c], call'[c]) /\ \A d \in Threads \ {c} : call'[d] = call[d]
<1>1. MemoryInv
  BY DEF MapInv
<1>2. CASE StoreLock(c)
  <2>1. ServedTo(c, "write", call[c].result)
    BY <1>1, <1>2, ServedFields
  <2> QED BY <1>2, <2>1 DEF StoreLock, ServedTo, Serves
<1>3. CASE StoreWrite(c)
  <2>1. ServedTo(c, "rename", call[c].result)
    BY <1>1, <1>3, ServedFields
  <2> QED BY <1>3, <2>1 DEF StoreWrite, ServedTo, Serves
<1>4. CASE StoreRename(c)
  <2>1. ServedTo(c, "unlock", "stored")
    BY <1>1, <1>4, ServedFields
  <2> QED BY <1>4, <2>1 DEF StoreRename, ServedTo, Serves
<1>5. CASE StoreFails(c)
  <2>1. ServedTo(c, "unlock", "failed")
    BY <1>1, <1>5, ServedFields
  <2> QED BY <1>5, <2>1 DEF StoreFails, ServedTo, Serves
<1>6. CASE StoreUnlock(c)
  <2>1. ServedTo(c, "return", call[c].result)
    BY <1>1, <1>6, ServedFields
  <2> QED BY <1>6, <2>1 DEF StoreUnlock, ServedTo, Serves
<1>7. CASE RecallRead(c)
  <2>1. ServedTo(c, "return",
                 memory_recall(read_memory_file, call[c].section, call[c].key))
    BY <1>1, <1>7, ServedFields
  <2> QED BY <1>7, <2>1 DEF RecallRead, ServedTo, Serves
<1>8. CASE Cancel(c)
  <2>1. ServedTo(c, "dead", call[c].result)
    BY <1>1, <1>8, ServedFields
  <2> QED BY <1>8, <2>1 DEF Cancel, ServedTo, Serves
<1> QED BY <1>2, <1>3, <1>4, <1>5, <1>6, <1>7, <1>8 DEF Serve

\* What a tool is called with.
LEMMA EnterFields ==
  ASSUME NEW op, NEW section, NEW key, NEW value
  PROVE  LET r == Enter(op, section, key, value)
         IN /\ r.pc = "lock" /\ r.op = op /\ r.section = section /\ r.key = key
            /\ r.value = value /\ r.result = None /\ r # NoCall
  BY NoCallShape DEF Enter

LEMMA ToolEnters ==
  ASSUME MemoryInv, NEW c \in Callers, ToolCall(c)
  PROVE  /\ call[c] = NoCall /\ \A d \in Threads \ {c} : call'[d] = call[d]
         /\ \E section \in Marks, k \in Keys :
              \/ \E v \in Values : call'[c] = Enter("store", section, k, v)
              \/ call'[c] = Enter("recall", section, k, None)
<1>1. call = [d \in Threads |-> call[d]] /\ c \in Threads
  BY DEF MemoryInv, CallTypes, Threads
<1>2. PICK cat \in Categories, k \in Keys :
        \/ \E v \in Values :
             call' = [call EXCEPT ![c] = Enter("store", canonicalise_section(cat), k, v)]
        \/ call' = [call EXCEPT ![c] = Enter("recall", canonicalise_section(cat), k, None)]
  BY DEF ToolCall
<1>3. canonicalise_section(cat) \in Marks
  BY Zenon DEF Marks
<1>4. /\ \A d \in Threads \ {c} : call'[d] = call[d]
      /\ \/ \E v \in Values : call'[c] = Enter("store", canonicalise_section(cat), k, v)
         \/ call'[c] = Enter("recall", canonicalise_section(cat), k, None)
  BY <1>1, <1>2
<1>5. call[c] = NoCall
  BY DEF ToolCall
<1> QED BY <1>3, <1>4, <1>5, Zenon

LEMMA EnterShapes ==
  ASSUME NEW section \in Marks, NEW k \in Keys
  PROVE  /\ \A v \in Values : CallerShape(Enter("store", section, k, v))
         /\ CallerShape(Enter("recall", section, k, None))
<1>1. ASSUME NEW v \in Values PROVE CallerShape(Enter("store", section, k, v))
  <2> DEFINE r == Enter("store", section, k, v)
  <2>1. /\ r.pc = "lock" /\ r.op = "store" /\ r.section = section /\ r.key = k
        /\ r.value = v /\ r.result = None /\ r # NoCall
    BY EnterFields
  <2> HIDE DEF r
  <2>2. CallerShape(r)
    BY <2>1 DEF CallerShape, StoreShape
  <2> QED BY <2>2 DEF r
<1>2. CallerShape(Enter("recall", section, k, None))
  <2> DEFINE r == Enter("recall", section, k, None)
  <2>1. r.pc = "lock" /\ r.op = "recall" /\ r.key = k
    BY EnterFields
  <2> HIDE DEF r
  <2>2. CallerShape(r)
    BY <2>1 DEF CallerShape, RecallShape
  <2> QED BY <2>2 DEF r
<1> QED BY <1>1, <1>2

LEMMA ShapesStep ==
  ASSUME Fitted, MapInv, [MemoryNext]_memoryVars
  PROVE  Shapes'
<1>1. /\ MemoryInv /\ Main \in Threads /\ Main \notin Callers /\ Callers \subseteq Threads
      /\ \A d \in Callers : d # Main
      /\ call = [d \in Threads |-> call[d]]
  BY MemoryAssumption DEF MapInv, MemoryInv, CallTypes, Threads
<1>2. (\A d \in Callers : CallerShape(call[d])) /\ MainShape(call[Main])
  BY DEF MapInv, Shapes
<1>3. ASSUME \A d \in Callers : CallerShape(call'[d]), MainShape(call'[Main]) PROVE Shapes'
  BY <1>3 DEF Shapes, CallerShape, MainShape, StoreShape, RecallShape, Bulleted, Foreign, Headed
<1>4. ASSUME NEW c \in Threads, Serve(c) PROVE Shapes'
  <2>1. Serves(call[c], call'[c]) /\ \A d \in Threads \ {c} : call'[d] = call[d]
    BY <1>4, ServeServes
  <2>2. /\ CallerShape(call[c]) => CallerShape(call'[c])
        /\ MainShape(call[c]) => MainShape(call'[c])
    BY <2>1, ServesShape
  <2>3. \A d \in Callers : CallerShape(call'[d])
    BY <1>1, <1>2, <2>1, <2>2
  <2>4. MainShape(call'[Main])
    BY <1>1, <1>2, <2>1, <2>2
  <2> QED BY <2>3, <2>4, <1>3
<1>5. ASSUME NEW c \in Callers, ToolCall(c) PROVE Shapes'
  <2>1. /\ \A d \in Threads \ {c} : call'[d] = call[d]
        /\ \E section \in Marks, k \in Keys :
             \/ \E v \in Values : call'[c] = Enter("store", section, k, v)
             \/ call'[c] = Enter("recall", section, k, None)
    BY <1>1, <1>5, ToolEnters
  <2>2. CallerShape(call'[c])
    BY <2>1, EnterShapes
  <2>3. \A d \in Callers : CallerShape(call'[d])
    BY <1>1, <1>2, <2>1, <2>2
  <2>4. MainShape(call'[Main])
    BY <1>1, <1>2, <2>1
  <2> QED BY <2>3, <2>4, <1>3
<1>6. ASSUME NEW c \in Callers, Return(c) PROVE Shapes'
  <2>1. call'[c] = NoCall /\ \A d \in Threads \ {c} : call'[d] = call[d]
    BY <1>1, <1>6 DEF Return
  <2>2. \A d \in Callers : CallerShape(call'[d])
    BY <1>1, <1>2, <2>1, NoCallShapes
  <2>3. MainShape(call'[Main])
    BY <1>1, <1>2, <2>1
  <2> QED BY <2>2, <2>3, <1>3
<1>7. ASSUME NEW f \in LegacyFiles, MigrateRead(f) PROVE Shapes'
  <2> DEFINE r == call'[Main]
  <2>1. \A d \in Callers : call'[d] = call[d]
    BY <1>1, <1>7 DEF MigrateRead
  <2>2. r = IF dir[f] = <<>> THEN [NoCall EXCEPT !.pc = "return"]
            ELSE Enter("store", Notes, f, [first |-> "", rest |-> dir[f]])
    BY <1>1, <1>7 DEF MigrateRead
  <2>3. f \in Marks /\ dir[f] \in Seq(FileLine) /\ Foreign(dir[f])
    BY Zenon DEF LegacyFiles, MapInv, FilesInv
  <2> HIDE DEF r
  <2>4. CASE dir[f] = <<>>
    <3>1. r.pc = "return"
      <4>1. IsCall(NoCall)
        BY NoCallShape
      <4> QED BY <4>1, <2>2, <2>4, SetPc
    <3>2. MainShape(r)
      BY <3>1 DEF MainShape
    <3> QED BY <3>2, <2>1, <1>2, <1>3 DEF r
  <2>5. CASE dir[f] # <<>>
    <3> DEFINE v == [first |-> "", rest |-> dir[f]]
    <3>1. v.first = "" /\ v.rest = dir[f]
      OBVIOUS
    <3>2. Bulleted(Notes, v)
      BY <3>1, <2>3, NotesNotDurable DEF Bulleted
    <3>3. r = Enter("store", Notes, f, v)
      BY <2>2, <2>5
    <3> HIDE DEF v
    <3>4. /\ r.pc = "lock" /\ r.op = "store" /\ r.section = Notes /\ r.key = f
          /\ r.value = v /\ r.result = None
      BY <3>3, EnterFields
    <3>5. Notes \in Marks
      BY Zenon DEF Marks
    <3>6. MainShape(r)
      BY <3>1, <3>2, <3>4, <3>5, <2>3 DEF MainShape, StoreShape
    <3> QED BY <3>6, <2>1, <1>2, <1>3 DEF r
  <2> QED BY <2>4, <2>5
<1>8. ASSUME MigrateUnlink PROVE Shapes'
  <2>1. call'[Main] = NoCall /\ \A d \in Callers : call'[d] = call[d]
    BY <1>1, <1>8 DEF MigrateUnlink
  <2> QED BY <2>1, <1>2, <1>3, NoCallShapes
<1>9. ASSUME Crash PROVE Shapes'
  <2>1. \A d \in Threads : call'[d] = NoCall
    BY <1>1, <1>9 DEF Crash
  <2> QED BY <2>1, <1>1, <1>3, NoCallShapes
<1>10. ASSUME call' = call PROVE Shapes'
  BY <1>2, <1>3, <1>10
<1>11. ASSUME \/ MemorySeed \/ BootCopy \/ history_create \/ BootLog \/ BootCreate
              \/ create_initial_memory \/ BootDone \/ LogTurn \/ Midnight
              \/ UNCHANGED memoryVars
       PROVE  call' = call
  BY <1>11 DEF MemorySeed, BootCopy, history_create, BootLog, BootCreate,
     create_initial_memory, BootDone, LogTurn, Midnight, BootStep, memoryVars, fileVars
<1>12. ASSUME MemoryBoot PROVE Shapes'
  BY <1>7, <1>8, <1>10, <1>11, <1>12, Zenon DEF MemoryBoot
<1> QED BY <1>4, <1>5, <1>6, <1>9, <1>10, <1>11, <1>12, Zenon DEF MemoryNext, Threads

LEMMA MapStart == Fitted /\ MemoryInit => MapInv
<1> SUFFICES ASSUME Fitted, MemoryInit PROVE MapInv
  OBVIOUS
<1>1. MemoryInv
  BY MemoryStart
<1>2. \A c \in Threads : call[c] = NoCall
  BY DEF MemoryInit, Threads
<1>3. Shapes
  BY <1>2, NoCallShapes DEF Shapes, Threads
<1>4. \A f \in DOMAIN dir \ {MEMORY_FILE, TMP} :
        f \in Marks /\ dir[f] \in Seq(FileLine) /\ Foreign(dir[f])
  <2>1. \A f \in DOMAIN Legacy : f \in Marks
    BY DEF Marks
  <2> QED BY <2>1, Zenon DEF Fitted, MemoryInit
<1>5. MEMORY_FILE \notin DOMAIN dir /\ boot = "off" /\ day = 1
  BY MemoryAssumption DEF MemoryInit
<1>6. day \in 1..Len(Days)
  <2>1. Len(Days) \in Nat /\ Len(Days) # 0
    BY MemoryAssumption
  <2> QED BY <2>1, <1>5
<1> QED BY <1>1, <1>3, <1>4, <1>5, <1>6 DEF MapInv, FilesInv

\* The facts after a step: those that were there, or the one that is stored.
LEMMA FilesStep ==
  ASSUME Fitted, MapInv, BelowCap', [MemoryNext]_memoryVars
  PROVE  /\ FilesInv'
         /\ FactsSame \/ \E c \in Threads : StoreRename(c) /\ StoresFact(c)
<1>1. ASSUME NEW c \in Threads, Serve(c)
      PROVE  FilesInv' /\ (FactsSame \/ (StoreRename(c) /\ StoresFact(c)))
  BY <1>1, RenameFiles, ServeFiles
<1> QED BY <1>1, BootFiles, RestFiles, Zenon DEF MemoryNext, Threads

LEMMA MapStep ==
  ASSUME Fitted, MapInv, BelowCap', [MemoryNext]_memoryVars
  PROVE  MapInv'
<1>1. MemoryInv'
  BY MemoryStep DEF MapInv
<1> QED BY <1>1, FilesStep, ShapesStep DEF MapInv

----------------------------------------------------------------------------
(* The steps of FactMap *)

\* What the call r is to the map.
Seen(r) ==
  IF r.pc = "idle" \/ r.section \notin Durable THEN [op |-> "idle"]
  ELSE IF r.op = "store"
       THEN IF r.result # None THEN [op |-> r.result]
            ELSE [op |-> "store", fact |-> <<r.section, r.key>>, value |-> r.value.first]
  ELSE IF r.pc = "return" THEN [op |-> "recalled", value |-> r.result]
  ELSE [op |-> "recall", fact |-> <<r.section, r.key>>]

MapFacts == [f \in Durable \X Keys |-> Recalled(f[1], f[2])]
MapCall == [c \in Callers |-> AbstractCall(c)]

\* What a recall of the fact f answers.
MapAnswer(f) == IF MapFacts[f] = None THEN None ELSE Clip(MapFacts[f])

LEMMA CallSeen ==
  \A c \in Callers : AbstractCall(c) = Seen(call[c]) /\ AbstractCall(c)' = Seen(call'[c])
  BY DEF AbstractCall, Seen

LEMMA MapCalls ==
  ASSUME NEW c \in Callers, \A d \in Callers \ {c} : call'[d] = call[d]
  PROVE  MapCall' = [MapCall EXCEPT ![c] = Seen(call'[c])] /\ MapCall[c] = Seen(call[c])
<1>1. MapCall' = [d \in Callers |-> Seen(call'[d])]
  BY CallSeen DEF MapCall
<1>2. MapCall = [d \in Callers |-> Seen(call[d])]
  BY CallSeen DEF MapCall
<1> QED BY <1>1, <1>2

LEMMA MapSame ==
  ASSUME \A d \in Callers : Seen(call'[d]) = Seen(call[d])
  PROVE  MapCall' = MapCall
<1>1. MapCall' = [d \in Callers |-> Seen(call'[d])]
  BY CallSeen DEF MapCall
<1>2. MapCall = [d \in Callers |-> Seen(call[d])]
  BY CallSeen DEF MapCall
<1> QED BY <1>1, <1>2

LEMMA FactsKept ==
  ASSUME FactsSame PROVE MapFacts' = MapFacts
<1>1. \A f \in Durable \X Keys : Recalled(f[1], f[2])' = Recalled(f[1], f[2])
  BY DEF FactsSame
<1> QED BY <1>1 DEF MapFacts

LEMMA FactStored ==
  ASSUME NEW c \in Threads, StoresFact(c)
  PROVE  /\ call[c].section \in Durable =>
              MapFacts' = [MapFacts EXCEPT ![<<call[c].section, call[c].key>>] = call[c].value.first]
         /\ call[c].section \notin Durable => MapFacts' = MapFacts
<1> DEFINE s == call[c].section
           k == call[c].key
           v == call[c].value.first
<1>1. \A f \in Durable \X Keys :
        Recalled(f[1], f[2])' = IF f = <<s, k>> THEN v ELSE Recalled(f[1], f[2])
  <2> SUFFICES ASSUME NEW f \in Durable \X Keys
               PROVE  Recalled(f[1], f[2])' = IF f = <<s, k>> THEN v ELSE Recalled(f[1], f[2])
    OBVIOUS
  <2>1. f[1] \in Durable /\ f[2] \in Keys /\ f = <<f[1], f[2]>>
    OBVIOUS
  <2>2. f = <<s, k>> <=> f[1] = s /\ f[2] = k
    BY <2>1
  <2> QED BY <2>1, <2>2 DEF StoresFact
<1>2. MapFacts = [f \in Durable \X Keys |-> Recalled(f[1], f[2])]
  BY DEF MapFacts
<1>3. MapFacts' = [f \in Durable \X Keys |-> Recalled(f[1], f[2])']
  BY DEF MapFacts
<1> HIDE DEF s, k, v
<1>4. MapFacts' = [MapFacts EXCEPT ![<<s, k>>] = v]
  BY <1>1, <1>2, <1>3
<1>5. s \notin Durable => MapFacts' = MapFacts
  BY <1>1, <1>2, <1>3
<1> QED BY <1>4, <1>5 DEF s, k, v

\* A step of FactMap, said of the facts and the calls.
LEMMA MapMoves ==
  ASSUME \/ MapFacts' = MapFacts /\ MapCall' = MapCall
         \/ MapFacts' = MapFacts /\ MapCall' = [c \in Callers |-> [op |-> "idle"]]
         \/ \E c \in Callers :
              \/ /\ MapCall[c] = [op |-> "idle"] /\ MapFacts' = MapFacts
                 /\ \E f \in Durable \X Keys :
                      \/ \E v \in {w.first : w \in Values} : MapCall' =
                           [MapCall EXCEPT ![c] = [op |-> "store", fact |-> f, value |-> v]]
                      \/ MapCall' = [MapCall EXCEPT ![c] = [op |-> "recall", fact |-> f]]
              \/ /\ MapCall[c].op = "store"
                 /\ MapFacts' = [MapFacts EXCEPT ![MapCall[c].fact] = MapCall[c].value]
                 /\ MapCall' = [MapCall EXCEPT ![c] = [op |-> "stored"]]
              \/ /\ MapCall[c].op = "store" /\ MapFacts' = MapFacts
                 /\ MapCall' = [MapCall EXCEPT ![c] = [op |-> "failed"]]
              \/ /\ MapCall[c].op = "recall" /\ MapFacts' = MapFacts
                 /\ MapCall' = [MapCall EXCEPT ![c] =
                                  [op |-> "recalled", value |-> MapAnswer(MapCall[c].fact)]]
              \/ /\ MapCall[c].op \in {"stored", "failed", "recalled"} /\ MapFacts' = MapFacts
                 /\ MapCall' = [MapCall EXCEPT ![c] = [op |-> "idle"]]
  PROVE  [Map!Next]_(Map!vars)
<1>1. CASE MapFacts' = MapFacts /\ MapCall' = MapCall
  BY <1>1, Zenon DEF Map!vars, MapFacts, MapCall
<1>2. CASE MapFacts' = MapFacts /\ MapCall' = [c \in Callers |-> [op |-> "idle"]]
  <2>1. Map!Crash
    BY <1>2, Zenon DEF Map!Crash, Map!Idle, MapFacts, MapCall
  <2> QED BY <2>1, Zenon DEF Map!Next
<1>3. ASSUME NEW c \in Callers, MapCall[c] = [op |-> "idle"], MapFacts' = MapFacts,
             \E f \in Durable \X Keys :
               \/ \E v \in {w.first : w \in Values} : MapCall' =
                    [MapCall EXCEPT ![c] = [op |-> "store", fact |-> f, value |-> v]]
               \/ MapCall' = [MapCall EXCEPT ![c] = [op |-> "recall", fact |-> f]]
      PROVE  Map!Next
  <2>1. Map!Call(c)
    BY <1>3, Zenon DEF Map!Call, Map!Idle, MapFacts, MapCall
  <2> QED BY <2>1, Zenon DEF Map!Next
<1>4. ASSUME NEW c \in Callers, MapCall[c].op = "store",
             MapFacts' = [MapFacts EXCEPT ![MapCall[c].fact] = MapCall[c].value],
             MapCall' = [MapCall EXCEPT ![c] = [op |-> "stored"]]
      PROVE  Map!Next
  <2>1. Map!Store(c)
    BY <1>4, Zenon DEF Map!Store, MapFacts, MapCall
  <2> QED BY <2>1, Zenon DEF Map!Next
<1>5. ASSUME NEW c \in Callers, MapCall[c].op = "store", MapFacts' = MapFacts,
             MapCall' = [MapCall EXCEPT ![c] = [op |-> "failed"]]
      PROVE  Map!Next
  <2>1. Map!StoreFails(c)
    BY <1>5, Zenon DEF Map!StoreFails, MapFacts, MapCall
  <2> QED BY <2>1, Zenon DEF Map!Next
<1>6. ASSUME NEW c \in Callers, MapCall[c].op = "recall", MapFacts' = MapFacts,
             MapCall' = [MapCall EXCEPT ![c] =
                           [op |-> "recalled", value |-> MapAnswer(MapCall[c].fact)]]
      PROVE  Map!Next
  <2>1. Map!Recall(c)
    BY <1>6, Zenon DEF Map!Recall, Map!Answer, MapAnswer, MapFacts, MapCall
  <2> QED BY <2>1, Zenon DEF Map!Next
<1>7. ASSUME NEW c \in Callers, MapCall[c].op \in {"stored", "failed", "recalled"},
             MapFacts' = MapFacts, MapCall' = [MapCall EXCEPT ![c] = [op |-> "idle"]]
      PROVE  Map!Next
  <2>1. Map!Return(c)
    BY <1>7, Zenon DEF Map!Return, Map!Idle, MapFacts, MapCall
  <2> QED BY <2>1, Zenon DEF Map!Next
<1> QED BY <1>1, <1>2, <1>3, <1>4, <1>5, <1>6, <1>7, Zenon

\* What is seen of a call in a durable section, and of one in another.
LEMMA SeenFields ==
  ASSUME NEW r
  PROVE  /\ r.pc = "idle" \/ r.section \notin Durable => Seen(r) = [op |-> "idle"]
         /\ r.pc # "idle" /\ r.section \in Durable /\ StoreShape(r) =>
              /\ r.pc \in {"lock", "write", "rename", "dead"} =>
                   /\ Seen(r) = [op |-> "store", fact |-> <<r.section, r.key>>,
                                 value |-> r.value.first]
                   /\ Seen(r).op = "store" /\ Seen(r).fact = <<r.section, r.key>>
                   /\ Seen(r).value = r.value.first
              /\ r.pc \in {"unlock", "return"} =>
                   Seen(r) = [op |-> r.result] /\ Seen(r).op = r.result
         /\ r.pc # "idle" /\ r.section \in Durable /\ RecallShape(r) =>
              /\ r.pc \in {"lock", "dead"} =>
                   /\ Seen(r) = [op |-> "recall", fact |-> <<r.section, r.key>>]
                   /\ Seen(r).op = "recall" /\ Seen(r).fact = <<r.section, r.key>>
              /\ r.pc = "return" =>
                   /\ Seen(r) = [op |-> "recalled", value |-> r.result]
                   /\ Seen(r).op = "recalled"
<1>1. None \notin {"stored", "failed"}
  BY MemoryAssumption
<1> QED BY <1>1 DEF Seen, StoreShape, RecallShape

LEMMA CallerServes ==
  ASSUME Fitted, MapInv, BelowCap', NEW c \in Callers, Serve(c)
  PROVE  [Map!Next]_(Map!vars)
<1> DEFINE r == call[c]
           s == call'[c]
           fact == <<r.section, r.key>>
<1>1. c \in Threads /\ MemoryInv
  BY DEF Threads, MapInv
<1>2. Serves(r, s) /\ \A d \in Threads \ {c} : call'[d] = call[d]
  BY <1>1, ServeServes
<1>3. /\ r.pc # "idle" /\ s.pc # "idle" /\ s.section = r.section /\ s.key = r.key
      /\ s.value = r.value /\ s.op = r.op
  BY <1>2 DEF Serves
<1>4. (StoreShape(r) /\ r.value \in Values) \/ RecallShape(r)
  BY <1>3, NoCallShape, Zenon DEF MapInv, Shapes, CallerShape
<1>5. CallerShape(r) /\ CallerShape(s)
  <2>1. CallerShape(r)
    BY DEF MapInv, Shapes
  <2> QED BY <2>1, <1>2, ServesShape
<1>6. (StoreShape(s) \/ RecallShape(s)) /\ r.key \in Keys
  BY <1>3, <1>5, NoCallShape, Zenon DEF CallerShape
<1>7. MapCall' = [MapCall EXCEPT ![c] = Seen(s)] /\ MapCall[c] = Seen(r)
  <2>1. \A d \in Callers \ {c} : call'[d] = call[d]
    BY <1>2 DEF Threads
  <2> QED BY <2>1, MapCalls
<1>8. FactsSame => MapFacts' = MapFacts
  BY FactsKept
<1>9. ~StoreRename(c) => FactsSame
  BY <1>1, ServeFiles
<1>10. MapCall = [MapCall EXCEPT ![c] = MapCall[c]]
  BY DEF MapCall
<1> HIDE DEF r, s
<1>11. CASE r.section \notin Durable
  <2>1. MapFacts' = MapFacts
    <3>1. CASE StoreRename(c)
      <4>1. StoresFact(c)
        BY <1>1, <3>1, RenameFiles
      <4> QED BY <4>1, <1>1, <1>11, FactStored DEF r
    <3> QED BY <3>1, <1>8, <1>9
  <2>2. Seen(r) = Seen(s)
    BY <1>3, <1>11, SeenFields
  <2>3. MapCall' = MapCall
    BY <2>2, <1>7, <1>10
  <2> QED BY <2>1, <2>3, MapMoves
<1>12. CASE r.section \in Durable /\ StoreLock(c)
  <2>1. r.pc = "lock" /\ r.op = "store" /\ s.pc = "write" /\ MapFacts' = MapFacts
    <3>1. ~StoreRename(c)
      BY <1>12 DEF StoreLock, StoreRename
    <3>2. s.pc = "write"
      BY <1>1, <1>12, ServedFields DEF ServedTo, s
    <3> QED BY <3>1, <3>2, <1>8, <1>9, <1>12 DEF StoreLock, r
  <2>2. StoreShape(r) /\ StoreShape(s)
    BY <2>1, <1>3, <1>4, <1>6 DEF RecallShape
  <2>3. Seen(r) = Seen(s)
    BY <2>1, <2>2, <1>3, <1>12, SeenFields
  <2>4. MapCall' = MapCall
    BY <2>3, <1>7, <1>10
  <2> QED BY <2>1, <2>4, MapMoves
<1>13. CASE r.section \in Durable /\ StoreWrite(c)
  <2>1. r.pc = "write" /\ s.pc = "rename" /\ MapFacts' = MapFacts
    <3>1. ~StoreRename(c)
      BY <1>13 DEF StoreWrite, StoreRename
    <3>2. s.pc = "rename"
      BY <1>1, <1>13, ServedFields DEF ServedTo, s
    <3> QED BY <3>1, <3>2, <1>8, <1>9, <1>13 DEF StoreWrite, r
  <2>2. StoreShape(r) /\ StoreShape(s)
    BY <2>1, <1>4, <1>6 DEF RecallShape
  <2>3. Seen(r) = Seen(s)
    BY <2>1, <2>2, <1>3, <1>13, SeenFields
  <2>4. MapCall' = MapCall
    BY <2>3, <1>7, <1>10
  <2> QED BY <2>1, <2>4, MapMoves
<1>14. CASE r.section \in Durable /\ StoreRename(c)
  <2>1. r.pc = "rename" /\ s.pc = "unlock" /\ s.result = "stored"
    <3>1. ServedTo(c, "unlock", "stored")
      BY <1>1, <1>14, ServedFields
    <3> QED BY <3>1, <1>14 DEF ServedTo, StoreRename, r, s
  <2>2. StoreShape(r) /\ StoreShape(s)
    BY <2>1, <1>4, <1>6 DEF RecallShape
  <2>3. Seen(s) = [op |-> "stored"]
    BY <2>1, <2>2, <1>3, <1>14, SeenFields
  <2>4. Seen(r).op = "store" /\ Seen(r).fact = fact /\ Seen(r).value = r.value.first
    BY <2>1, <2>2, <1>3, <1>14, SeenFields
  <2>5. MapFacts' = [MapFacts EXCEPT ![fact] = r.value.first]
    <3>1. StoresFact(c)
      BY <1>1, <1>14, RenameFiles
    <3> QED BY <3>1, <1>1, <1>14, FactStored DEF r
  <2>6. MapFacts' = [MapFacts EXCEPT ![MapCall[c].fact] = MapCall[c].value]
    BY <2>4, <2>5, <1>7
  <2>7. MapCall[c].op = "store" /\ MapCall' = [MapCall EXCEPT ![c] = [op |-> "stored"]]
    BY <2>3, <2>4, <1>7
  <2> QED BY <2>6, <2>7, MapMoves
<1>15. CASE r.section \in Durable /\ StoreFails(c)
  <2>1. /\ r.pc \in {"write", "rename"} /\ s.pc = "unlock" /\ s.result = "failed"
        /\ ~StoreRename(c)
    <3>1. ServedTo(c, "unlock", "failed")
      BY <1>1, <1>15, ServedFields
    <3>2. ~StoreRename(c)
      <4>1. StoreRename(c) => ServedTo(c, "unlock", "stored")
        BY <1>1, ServedFields
      <4> QED BY <3>1, <4>1 DEF ServedTo
    <3> QED BY <3>1, <3>2, <1>15 DEF ServedTo, StoreFails, r, s
  <2>2. StoreShape(r) /\ StoreShape(s) /\ MapFacts' = MapFacts
    BY <2>1, <1>4, <1>6, <1>8, <1>9 DEF RecallShape
  <2>3. Seen(s) = [op |-> "failed"]
    BY <2>1, <2>2, <1>3, <1>15, SeenFields
  <2>4. Seen(r).op = "store"
    BY <2>1, <2>2, <1>3, <1>15, SeenFields
  <2>5. MapCall[c].op = "store" /\ MapCall' = [MapCall EXCEPT ![c] = [op |-> "failed"]]
    BY <2>3, <2>4, <1>7
  <2> QED BY <2>2, <2>5, MapMoves
<1>16. CASE r.section \in Durable /\ StoreUnlock(c)
  <2>1. r.pc = "unlock" /\ s.pc = "return" /\ s.result = r.result /\ ~StoreRename(c)
    <3>1. ServedTo(c, "return", r.result)
      BY <1>1, <1>16, ServedFields DEF r
    <3> QED BY <3>1, <1>16 DEF ServedTo, StoreUnlock, StoreRename, r, s
  <2>2. StoreShape(r) /\ StoreShape(s) /\ MapFacts' = MapFacts
    BY <2>1, <1>3, <1>4, <1>6, <1>8, <1>9 DEF RecallShape, StoreShape
  <2>3. Seen(s) = [op |-> s.result] /\ Seen(r) = [op |-> r.result]
    BY <2>1, <2>2, <1>3, <1>16, SeenFields
  <2>4. MapCall' = MapCall
    BY <2>1, <2>3, <1>7, <1>10
  <2> QED BY <2>2, <2>4, MapMoves
<1>17. CASE r.section \in Durable /\ RecallRead(c)
  <2>1. /\ r.pc = "lock" /\ r.op = "recall" /\ s.pc = "return"
        /\ s.result = memory_recall(read_memory_file, r.section, r.key)
        /\ ~StoreRename(c)
    <3>1. ServedTo(c, "return", memory_recall(read_memory_file, r.section, r.key))
      BY <1>1, <1>17, ServedFields DEF r
    <3> QED BY <3>1, <1>17 DEF ServedTo, RecallRead, StoreRename, r, s
  <2>2. RecallShape(r) /\ RecallShape(s) /\ MapFacts' = MapFacts
    BY <2>1, <1>3, <1>4, <1>6, <1>8, <1>9 DEF RecallShape, StoreShape
  <2>3. Seen(s) = [op |-> "recalled", value |-> s.result]
    BY <2>1, <2>2, <1>3, <1>17, SeenFields
  <2>4. Seen(r).op = "recall" /\ Seen(r).fact = fact
    BY <2>1, <2>2, <1>3, <1>17, SeenFields
  <2>5. MapFacts[fact] = Recalled(r.section, r.key)
    BY <1>6, <1>17 DEF MapFacts
  <2>6. MapAnswer(fact) = s.result
    BY <2>1, <2>5, Zenon DEF MapAnswer, memory_recall, Recalled
  <2> HIDE DEF fact
  <2>7. MapCall[c].op = "recall" /\ MapCall' = [MapCall EXCEPT ![c] =
                                     [op |-> "recalled", value |-> MapAnswer(MapCall[c].fact)]]
    BY <2>3, <2>4, <2>6, <1>7
  <2> QED BY <2>2, <2>7, MapMoves
<1>18. CASE r.section \in Durable /\ Cancel(c)
  <2>1. r.pc \in {"lock", "write"} /\ s.pc = "dead" /\ ~StoreRename(c)
    <3>1. ServedTo(c, "dead", r.result)
      BY <1>1, <1>18, ServedFields DEF r
    <3> QED BY <3>1, <1>18 DEF ServedTo, Cancel, StoreRename, r, s
  <2>2. MapFacts' = MapFacts
    BY <2>1, <1>8, <1>9
  <2>3. (StoreShape(r) /\ StoreShape(s)) \/ (RecallShape(r) /\ RecallShape(s))
    BY <2>1, <1>3, <1>4, <1>6 DEF RecallShape, StoreShape
  <2>4. Seen(r) = Seen(s)
    BY <2>1, <2>3, <1>3, <1>18, SeenFields DEF RecallShape
  <2>5. MapCall' = MapCall
    BY <2>4, <1>7, <1>10
  <2> QED BY <2>2, <2>5, MapMoves
<1> QED BY <1>11, <1>12, <1>13, <1>14, <1>15, <1>16, <1>17, <1>18, Zenon DEF Serve

LEMMA CallerEnters ==
  ASSUME Fitted, MapInv, NEW c \in Callers, ToolCall(c)
  PROVE  [Map!Next]_(Map!vars)
<1> DEFINE s == call'[c]
<1>1. MapFacts' = MapFacts
  BY RestFiles, FactsKept
<1>2. PICK section \in Marks, k \in Keys :
        \/ \E v \in Values : s = Enter("store", section, k, v)
        \/ s = Enter("recall", section, k, None)
  BY ToolEnters DEF MapInv
<1>3. call[c] = NoCall /\ \A d \in Callers \ {c} : call'[d] = call[d]
  BY ToolEnters DEF MapInv, Threads
<1>4. MapCall' = [MapCall EXCEPT ![c] = Seen(s)] /\ MapCall[c] = [op |-> "idle"]
  <2>1. Seen(NoCall) = [op |-> "idle"]
    BY NoCallShape, SeenFields
  <2> QED BY <2>1, <1>3, MapCalls
<1>5. MapCall = [MapCall EXCEPT ![c] = MapCall[c]]
  BY DEF MapCall
<1> HIDE DEF s
<1>6. CASE section \notin Durable
  <2>1. s.section = section
    BY <1>2, EnterFields
  <2>2. Seen(s) = [op |-> "idle"]
    BY <2>1, <1>6, SeenFields
  <2>3. MapCall' = MapCall
    BY <2>2, <1>4, <1>5
  <2> QED BY <2>3, <1>1, MapMoves
<1>7. ASSUME section \in Durable, NEW v \in Values, s = Enter("store", section, k, v)
      PROVE  [Map!Next]_(Map!vars)
  <2>1. /\ s.pc = "lock" /\ s.op = "store" /\ s.section = section /\ s.key = k
        /\ s.value = v /\ s.result = None
    BY <1>7, EnterFields
  <2>2. StoreShape(s)
    BY <2>1 DEF StoreShape
  <2>3. Seen(s) = [op |-> "store", fact |-> <<section, k>>, value |-> v.first]
    <3>1. Seen(s) = [op |-> "store", fact |-> <<s.section, s.key>>, value |-> s.value.first]
      BY <2>1, <2>2, <1>7, SeenFields
    <3> QED BY <3>1, <2>1
  <2>4. <<section, k>> \in Durable \X Keys /\ v.first \in {w.first : w \in Values}
    BY <1>7
  <2>5. MapCall' = [MapCall EXCEPT ![c] =
                      [op |-> "store", fact |-> <<section, k>>, value |-> v.first]]
    BY <2>3, <1>4
  <2>6. \E f \in Durable \X Keys : \E x \in {w.first : w \in Values} :
          MapCall' = [MapCall EXCEPT ![c] = [op |-> "store", fact |-> f, value |-> x]]
    BY <2>4, <2>5, Zenon
  <2> QED BY <2>6, <1>1, <1>4, MapMoves, Zenon
<1>8. ASSUME section \in Durable, s = Enter("recall", section, k, None)
      PROVE  [Map!Next]_(Map!vars)
  <2>1. /\ s.pc = "lock" /\ s.op = "recall" /\ s.section = section /\ s.key = k
    BY <1>8, EnterFields
  <2>2. RecallShape(s)
    BY <2>1 DEF RecallShape
  <2>3. Seen(s) = [op |-> "recall", fact |-> <<section, k>>]
    <3>1. Seen(s) = [op |-> "recall", fact |-> <<s.section, s.key>>]
      BY <2>1, <2>2, <1>8, SeenFields
    <3> QED BY <3>1, <2>1
  <2>4. <<section, k>> \in Durable \X Keys
    BY <1>8
  <2>5. MapCall' = [MapCall EXCEPT ![c] = [op |-> "recall", fact |-> <<section, k>>]]
    BY <2>3, <1>4
  <2>6. \E f \in Durable \X Keys :
          MapCall' = [MapCall EXCEPT ![c] = [op |-> "recall", fact |-> f]]
    BY <2>4, <2>5, Zenon
  <2> QED BY <2>6, <1>1, <1>4, MapMoves, Zenon
<1> QED BY <1>2, <1>6, <1>7, <1>8, Zenon

LEMMA CallerReturns ==
  ASSUME Fitted, MapInv, NEW c \in Callers, Return(c)
  PROVE  [Map!Next]_(Map!vars)
<1> DEFINE r == call[c]
<1>1. MapFacts' = MapFacts
  BY RestFiles, FactsKept
<1>2. r.pc = "return" /\ call'[c] = NoCall /\ \A d \in Callers \ {c} : call'[d] = call[d]
  BY DEF Return, MapInv, MemoryInv, CallTypes, Threads
<1>3. Seen(NoCall) = [op |-> "idle"]
  BY NoCallShape, SeenFields
<1>4. MapCall' = [MapCall EXCEPT ![c] = [op |-> "idle"]] /\ MapCall[c] = Seen(r)
  BY <1>2, <1>3, MapCalls
<1>5. MapCall = [MapCall EXCEPT ![c] = MapCall[c]]
  BY DEF MapCall
<1>6. StoreShape(r) \/ RecallShape(r)
  BY <1>2, NoCallShape, Zenon DEF MapInv, Shapes, CallerShape
<1> HIDE DEF r
<1>7. CASE r.section \notin Durable
  <2>1. Seen(r) = [op |-> "idle"]
    BY <1>7, SeenFields
  <2>2. MapCall' = MapCall
    BY <2>1, <1>4, <1>5
  <2> QED BY <2>2, <1>1, MapMoves
<1>8. CASE r.section \in Durable
  <2>1. Seen(r).op \in {"stored", "failed", "recalled"}
    <3>1. CASE StoreShape(r)
      <4>1. Seen(r).op = r.result
        BY <1>2, <1>8, <3>1, SeenFields
      <4>2. r.result \in {"stored", "failed"}
        BY <1>2, <3>1 DEF StoreShape
      <4> QED BY <4>1, <4>2
    <3>2. CASE RecallShape(r)
      BY <1>2, <1>8, <3>2, SeenFields
    <3> QED BY <3>1, <3>2, <1>6
  <2>2. MapCall[c].op \in {"stored", "failed", "recalled"}
    BY <2>1, <1>4
  <2> QED BY <2>2, <1>1, <1>4, MapMoves
<1> QED BY <1>7, <1>8

\* The steps of the main thread and of the calendar are none of the map's.
LEMMA MainSteps ==
  ASSUME Fitted, MapInv, BelowCap',
         \/ Serve(Main) \/ MemoryBoot \/ LogTurn \/ Midnight \/ UNCHANGED memoryVars
  PROVE  [Map!Next]_(Map!vars)
<1>1. /\ MemoryInv /\ Main \in Threads /\ Callers \subseteq Threads \ {Main}
      /\ call = [d \in Threads |-> call[d]]
  BY MemoryAssumption DEF MapInv, MemoryInv, CallTypes, Threads
<1>2. \A d \in Callers : call'[d] = call[d]
  <2>1. CASE Serve(Main)
    <3>1. \A d \in Threads \ {Main} : call'[d] = call[d]
      BY <1>1, <2>1, ServeServes
    <3> QED BY <3>1, <1>1
  <2>2. CASE MemoryBoot
    <3>1. CASE \E f \in LegacyFiles : MigrateRead(f)
      BY <1>1, <3>1 DEF MigrateRead
    <3>2. CASE MigrateUnlink
      BY <1>1, <3>2 DEF MigrateUnlink
    <3>3. CASE \/ MemorySeed \/ BootCopy \/ history_create \/ BootLog \/ BootCreate
               \/ create_initial_memory \/ BootDone
      BY <3>3 DEF MemorySeed, BootCopy, history_create, BootLog, BootCreate,
         create_initial_memory, BootDone, BootStep
    <3> QED BY <2>2, <3>1, <3>2, <3>3, Zenon DEF MemoryBoot
  <2>3. CASE LogTurn \/ Midnight \/ UNCHANGED memoryVars
    BY <2>3 DEF LogTurn, Midnight, memoryVars, fileVars
  <2> QED BY <2>1, <2>2, <2>3
<1>3. MapCall' = MapCall
  BY <1>2, MapSame
<1>4. MapFacts' = MapFacts
  <2>1. CASE Serve(Main) /\ StoreRename(Main)
    <3>1. StoresFact(Main)
      BY <1>1, <2>1, RenameFiles
    <3>2. call[Main].section = Notes
      BY <2>1 DEF MapInv, Shapes, MainShape, StoreRename
    <3> QED BY <3>1, <3>2, <1>1, FactStored, NotesNotDurable
  <2>2. CASE Serve(Main) /\ ~StoreRename(Main)
    BY <1>1, <2>2, ServeFiles, FactsKept
  <2>3. CASE MemoryBoot
    BY <2>3, BootFiles, FactsKept
  <2>4. CASE LogTurn \/ Midnight \/ UNCHANGED memoryVars
    BY <2>4, RestFiles, FactsKept
  <2> QED BY <2>1, <2>2, <2>3, <2>4
<1> QED BY <1>3, <1>4, MapMoves

\* A crash forgets the calls and keeps the facts.
LEMMA CrashForgets ==
  ASSUME Fitted, MapInv, Crash
  PROVE  [Map!Next]_(Map!vars)
<1>1. MapFacts' = MapFacts
  BY RestFiles, FactsKept
<1>2. ASSUME NEW d \in Callers PROVE Seen(call'[d]) = [op |-> "idle"]
  <2>1. call'[d] = NoCall
    BY DEF Crash, MapInv, MemoryInv, CallTypes, Threads
  <2> QED BY <2>1, NoCallShape, SeenFields
<1>3. MapCall' = [d \in Callers |-> Seen(call'[d])]
  BY CallSeen DEF MapCall
<1>4. MapCall' = [d \in Callers |-> [op |-> "idle"]]
  BY <1>2, <1>3
<1> QED BY <1>1, <1>4, MapMoves

LEMMA MapNextStep ==
  ASSUME Fitted, MapInv, BelowCap', [MemoryNext]_memoryVars
  PROVE  [Map!Next]_(Map!vars)
<1>1. ASSUME NEW c \in Callers, ToolCall(c) \/ Return(c) PROVE [Map!Next]_(Map!vars)
  BY <1>1, CallerEnters, CallerReturns
<1>2. ASSUME NEW c \in Callers \cup {Main}, Serve(c) PROVE [Map!Next]_(Map!vars)
  <2>1. CASE c \in Callers
    BY <1>2, <2>1, CallerServes
  <2>2. CASE c = Main
    BY <1>2, <2>2, MainSteps
  <2> QED BY <2>1, <2>2
<1>3. CASE MemoryBoot \/ LogTurn \/ Midnight \/ UNCHANGED memoryVars
  BY <1>3, MainSteps
<1>4. CASE Crash
  BY <1>4, CrashForgets
<1> QED BY <1>1, <1>2, <1>3, <1>4, Zenon DEF MemoryNext

LEMMA MapBegins == Fitted /\ MemoryInit => Map!Init
<1> SUFFICES ASSUME Fitted, MemoryInit PROVE Map!Init
  OBVIOUS
<1>1. read_memory_file = <<>>
  BY MemoryAssumption, Zenon DEF MemoryInit, read_memory_file
<1>2. ASSUME NEW s, NEW k PROVE Recalled(s, k) = None
  <2>1. \A i \in Under(<<>>, s) : <<>>[i].kind # "bullet"
    BY DEF Under
  <2>2. bullet_value(<<>>, s, k) = None
    BY <2>1, EmptySound, NoFacts
  <2> QED BY <2>2, <1>1 DEF Recalled
<1>3. ASSUME NEW c \in Callers PROVE AbstractCall(c) = [op |-> "idle"]
  <2>1. call[c] = NoCall
    BY DEF MemoryInit
  <2>2. Seen(NoCall) = [op |-> "idle"]
    BY NoCallShape, SeenFields
  <2> QED BY <2>1, <2>2, CallSeen
<1>4. MapFacts = [f \in Durable \X Keys |-> None]
  BY <1>2 DEF MapFacts
<1>5. MapCall = [c \in Callers |-> [op |-> "idle"]]
  BY <1>3 DEF MapCall
<1> QED BY <1>4, <1>5, Zenon DEF Map!Init, Map!Idle, MapFacts, MapCall

\* md_memory.c, memory_store and memory_recall: the rewriting of MEMORY.md line
\* by line, under the mutex and through a temporary file, is an atomic map from
\* section and key to value for all the threads that call the tools, whatever
\* the start of the process, the history and the migration do to the same files
\* in between and wherever the process crashes.  Under FactsFit, and for as long
\* as the file stays below the cap from which on it reads as an empty one.
THEOREM MemoryIsFactMap == FactsFit => (MemorySpec /\ []BelowCap => ImplementsMap)
<1> SUFFICES ASSUME FactsFit PROVE MemorySpec /\ []BelowCap => ImplementsMap
  OBVIOUS
<1>1. Fitted
  BY FitsFitted
<1>2. MemoryInit => MapInv /\ Map!Init
  BY <1>1, MapStart, MapBegins
<1>3. MapInv /\ BelowCap' /\ [MemoryNext]_memoryVars => MapInv' /\ [Map!Next]_(Map!vars)
  BY <1>1, MapStep, MapNextStep
<1> QED BY <1>2, <1>3, PTL DEF MemorySpec, ImplementsMap, Map!Spec


----------------------------------------------------------------------------
(* The terminal *)

\* Nothing spins, and nobody has asked for it.
Still == ~g_active /\ spinner = "none"

\* A turn of the CLI is worked on.
OnCliTurn == worker \notin {"none", "idle"} /\ turn = "cli"

MainTypes ==
  /\ queue \in Seq({"cli", "other"})
  /\ worker \in {"none", "idle", "clone", "iterate", "spin", "call", "deliver",
                 "fail"}
  /\ turn \in {"cli", "other"}
  /\ done \in BOOLEAN /\ g_active \in BOOLEAN /\ g_rl_active \in BOOLEAN

\* The spinner lives between the first status of a turn and the join.
SpinsInTurn ==
  main \notin {"publish", "wait", "stop", "join", "killed"} => Still

\* The prompt is shown by the main thread alone, and never beside the spinner.
PromptAlone ==
  g_rl_active => main \in {"readline", "killed"} /\ Still

\* The one request of the CLI is in the queue or with the worker while the main
\* thread waits for its answer, and nowhere else.
OneRequest ==
  main # "killed" =>
  /\ OnCliTurn => main = "wait" /\ ~done
  /\ \A i \in DOMAIN queue : queue[i] = "cli" =>
       /\ main = "wait" /\ ~done /\ ~OnCliTurn
       /\ \A j \in DOMAIN queue : queue[j] = "cli" => j = i

\* Only a turn of the CLI is shown; a dead process has no worker.
SpinsForCli ==
  /\ worker = "spin" => turn = "cli"
  /\ main = "killed" => worker = "none"

MainInv ==
  MainTypes /\ SpinsInTurn /\ PromptAlone /\ OneRequest /\ SpinsForCli

LEMMA MainStart == Init => MainInv
<1> SUFFICES ASSUME Init PROVE MainInv
  OBVIOUS
<1>1. /\ main = "config" /\ queue = <<>> /\ worker = "none" /\ turn = "cli"
      /\ done = FALSE
      /\ g_active = FALSE /\ g_rl_active = FALSE /\ spinner = "none"
  BY DEF Init, StatusInit
<1>2. queue \in Seq({"cli", "other"}) /\ DOMAIN queue = {}
  BY <1>1
<1>3. MainTypes
  BY <1>1, <1>2 DEF MainTypes
<1>4. SpinsInTurn /\ PromptAlone /\ OneRequest /\ SpinsForCli
  BY <1>1, <1>2 DEF SpinsInTurn, PromptAlone, OneRequest, SpinsForCli, OnCliTurn, Still
<1> QED BY <1>3, <1>4 DEF MainInv

\* What boot() does leaves the terminal and the requests alone.
LEMMA MainBootKeeps == MainInv /\ Boot => MainInv'
<1> SUFFICES ASSUME MainInv, Boot PROVE MainInv'
  OBVIOUS
<1> USE DEF MainInv, MainTypes, SpinsInTurn, PromptAlone, OneRequest, SpinsForCli,
     OnCliTurn, Still
<1>1. CASE BootSessions
  BY <1>1 DEF BootSessions, Goto, statusVars
<1>2. CASE BootIdentity
  BY <1>2 DEF BootIdentity, Goto, status_init, workerVars
<1>3. CASE BootGateway
  BY <1>3 DEF BootGateway, workerVars, statusVars
<1>4. CASE BootProvider
  BY <1>4 DEF BootProvider, workerVars, statusVars
<1>5. CASE BootConfig \/ BootSeed \/ BootAgent \/ BootNoEmail
  BY <1>5 DEF BootConfig, BootSeed, BootAgent, BootNoEmail, Goto, workerVars,
     statusVars
<1>6. CASE BootScheduler \/ BootSubagents \/ BootHeartbeat \/ BootEmail \/ BootWhatsApp
  BY <1>6 DEF BootScheduler, BootSubagents, BootHeartbeat, BootEmail, BootWhatsApp,
     BootPart, Goto, workerVars, statusVars
<1> QED BY <1>1, <1>2, <1>3, <1>4, <1>5, <1>6 DEF Boot

LEMMA ReplKeeps == MainInv /\ Repl => MainInv'
<1> SUFFICES ASSUME MainInv, Repl PROVE MainInv'
  OBVIOUS
<1> USE DEF MainInv, MainTypes, SpinsInTurn, PromptAlone, OneRequest, SpinsForCli,
     OnCliTurn, Still
<1>1. CASE ReadlineEnter
  BY <1>1 DEF ReadlineEnter, Goto, status_readline, workerVars
<1>2. ASSUME NEW line \in Lines, ReadlineReturns(line) PROVE MainInv'
  BY <1>2 DEF ReadlineReturns, AfterLine, status_readline, workerVars
<1>3. CASE Thinking
  BY <1>3 DEF Thinking, Goto, StatusText, workerVars
<1>4. CASE Spin
  BY <1>4 DEF Spin, Goto, StatusThread, Spinning, workerVars
<1>5. CASE Publish
  <2>1. \A i \in DOMAIN queue : queue[i] = "other"
    BY <1>5 DEF Publish, Goto
  <2>2. /\ queue' \in Seq({"cli", "other"})
        /\ DOMAIN queue' = 1..(Len(queue) + 1) /\ DOMAIN queue = 1..Len(queue)
        /\ \A i \in DOMAIN queue : queue'[i] = queue[i]
        /\ Len(queue) \in Nat
    BY <1>5 DEF Publish
  <2>3. \A i \in DOMAIN queue' : queue'[i] = "cli" => i = Len(queue) + 1
    BY <2>1, <2>2
  <2> QED BY <1>5, <2>2, <2>3 DEF Publish, Goto, statusVars
<1>6. CASE Ready
  BY <1>6 DEF Ready, Goto, StatusText, workerVars
<1>7. CASE Stop
  BY <1>7 DEF Stop, Goto, StatusThread, Spinning, workerVars
<1>8. CASE Join
  BY <1>8 DEF Join, Goto, StatusJoin, workerVars
<1>9. CASE RefreshFree \/ RefreshSet \/ RunEnds
  BY <1>9 DEF RefreshFree, RefreshSet, RunEnds, Goto, workerVars, statusVars
<1>10. CASE Cleanup
  BY <1>10 DEF Cleanup, Goto, statusVars
<1> QED BY <1>1, <1>2, <1>3, <1>4, <1>5, <1>6, <1>7, <1>8, <1>9, <1>10 DEF Repl

LEMMA WorkerKeeps == MainInv /\ Worker => MainInv'
<1> SUFFICES ASSUME MainInv, Worker PROVE MainInv'
  OBVIOUS
<1> USE DEF MainInv, MainTypes, SpinsInTurn, PromptAlone, OneRequest, SpinsForCli,
     OnCliTurn, Still
<1>1. CASE WorkerTakes
  <2>1. /\ queue' \in Seq({"cli", "other"}) /\ turn' \in {"cli", "other"}
        /\ turn' = queue[1]
        /\ DOMAIN queue' = 1..(Len(queue) - 1) /\ DOMAIN queue = 1..Len(queue)
        /\ \A i \in DOMAIN queue' : i + 1 \in DOMAIN queue /\ queue'[i] = queue[i + 1]
        /\ Len(queue) \in Nat /\ 1 \in DOMAIN queue
    BY <1>1 DEF WorkerTakes
  <2> QED BY <1>1, <2>1 DEF WorkerTakes, statusVars
<1>2. CASE WorkerClones
  BY <1>2 DEF WorkerClones, statusVars
<1>3. CASE WorkerThinks
  BY <1>3 DEF WorkerThinks, statusVars, StatusText
<1>4. CASE WorkerSpins
  <2>1. worker = "spin" /\ worker' = "call" /\ g_active' = TRUE
        /\ UNCHANGED <<main, queue, turn, done, g_rl_active>>
    BY <1>4 DEF WorkerSpins, StatusThread, Spinning
  <2>2. main = "wait"
    BY <2>1
  <2>3. ~g_rl_active
    BY <2>1, <2>2
  <2> QED BY <2>1, <2>2, <2>3
<1>5. ASSUME NEW resp, WorkerCalls(resp) PROVE MainInv'
  BY <1>5 DEF WorkerCalls, statusVars
<1>6. ASSUME NEW resp, WorkerDies(resp) PROVE MainInv'
  BY <1>6 DEF WorkerDies, statusVars
<1>7. CASE WorkerDelivers
  <2>1. /\ UNCHANGED <<main, queue, turn, g_active, g_rl_active, spinner>>
        /\ worker' = "idle" /\ worker \notin {"none", "idle"}
        /\ done' = (done \/ turn = "cli")
    BY <1>7 DEF WorkerDelivers, statusVars
  <2>2. done' \in BOOLEAN
    BY <2>1
  <2> QED BY <2>1, <2>2
<1> QED BY <1>1, <1>2, <1>3, <1>4, <1>5, <1>6, <1>7 DEF Worker

LEMMA MainRestKeeps ==
  MainInv /\ (Spinner \/ sig_handler \/ sig_term \/ OtherMessage \/ UNCHANGED vars)
    => MainInv'
<1> SUFFICES ASSUME MainInv, Spinner \/ sig_handler \/ sig_term \/ OtherMessage
                                     \/ UNCHANGED vars
             PROVE  MainInv'
  OBVIOUS
<1> USE DEF MainInv, MainTypes, SpinsInTurn, PromptAlone, OneRequest, SpinsForCli,
     OnCliTurn, Still
<1>1. CASE Spinner
  <2>1. spinner # "none" /\ UNCHANGED <<g_active, g_rl_active>>
    BY <1>1 DEF Spinner, spinner_fn, SpinnerTest, SpinnerText, SpinnerWrite,
       SpinnerSleep, SpinnerLast, SpinnerClear
  <2> QED BY <1>1, <2>1 DEF Spinner, workerVars
<1>2. CASE sig_handler \/ sig_term
  BY <1>2 DEF sig_handler, sig_term, workerVars, statusVars
<1>3. CASE OtherMessage
  <2>1. /\ queue' \in Seq({"cli", "other"})
        /\ DOMAIN queue' = 1..(Len(queue) + 1) /\ DOMAIN queue = 1..Len(queue)
        /\ \A i \in DOMAIN queue : queue'[i] = queue[i]
        /\ queue'[Len(queue) + 1] = "other" /\ Len(queue) \in Nat
    BY <1>3 DEF OtherMessage
  <2>2. \A i \in DOMAIN queue' :
          queue'[i] = "cli" => i \in DOMAIN queue /\ queue[i] = "cli"
    BY <2>1
  <2> QED BY <1>3, <2>1, <2>2 DEF OtherMessage, statusVars
<1>4. CASE UNCHANGED vars
  BY <1>4 DEF vars, workerVars, statusVars
<1> QED BY <1>1, <1>2, <1>3, <1>4

\* The spinner never draws over the prompt: it is joined before readline is
\* entered, and no turn of another channel starts it.
THEOREM PromptNeverDrawnOver == Spec => []TerminalOwned
<1>1. MainInv /\ [Next]_vars => MainInv'
  BY MainBootKeeps, ReplKeeps, WorkerKeeps, MainRestKeeps DEF Next, Exited
<1>2. MainInv => TerminalOwned
  BY DEF MainInv, PromptAlone, Still, TerminalOwned
<1> QED BY MainStart, <1>1, <1>2, PTL DEF Spec

----------------------------------------------------------------------------
(* The settings *)

LEMMA GreatestLine ==
  ASSUME NEW n \in Nat, NEW S \in SUBSET (1..n), S # {}
  PROVE  Max(S) \in S /\ \A j \in S : Max(S) >= j
<1> DEFINE D == {n - i : i \in S}
<1>1. D \in SUBSET Nat
  OBVIOUS
<1>0. D # {}
  <2>1. PICK i : i \in S
    OBVIOUS
  <2>2. n - i \in D
    BY <2>1, Zenon
  <2> QED BY <2>2
<1>2. PICK d \in D : \A e \in D : d <= e
  BY <1>0, <1>1, Least, Zenon
<1>3. PICK m \in S : d = n - m
  BY <1>2
<1>4. ASSUME NEW j \in S PROVE m >= j
  <2>1. n - j \in D
    BY Zenon
  <2>2. d <= n - j
    BY <1>2, <2>1, Zenon
  <2> QED BY <1>3, <2>2
<1> QED BY <1>3, <1>4, Zenon DEF Max

\* env_load: what the environment is after the first k lines.
EnvAfter(f, env, text, n) ==
  f = [i \in 0..n |-> IF i = 0 THEN env ELSE EnvLine(f[i - 1], text[i])]

LEMMA EnvAfterExists ==
  ASSUME NEW env, NEW text, NEW n \in Nat
  PROVE  \E f : EnvAfter(f, env, text, n)
<1> DEFINE P == {k \in Nat : \E f : EnvAfter(f, env, text, k)}
<1>1. 0 \in P
  <2>1. EnvAfter([i \in 0..0 |-> env], env, text, 0)
    BY DEF EnvAfter
  <2> QED BY <2>1
<1>2. ASSUME NEW k \in 0..(n - 1), k \in P PROVE k + 1 \in P
  <2>1. PICK f : EnvAfter(f, env, text, k)
    BY <1>2
  <2>2. \A i \in 0..k : f[i] = IF i = 0 THEN env ELSE EnvLine(f[i - 1], text[i])
    BY <2>1 DEF EnvAfter
  <2> DEFINE g == [i \in 0..(k + 1) |-> IF i <= k THEN f[i] ELSE EnvLine(f[k], text[k + 1])]
  <2>3. g[k + 1] = EnvLine(f[k], text[k + 1]) /\ \A i \in 0..k : g[i] = f[i]
    OBVIOUS
  <2>4. g = [i \in 0..(k + 1) |-> g[i]]
    OBVIOUS
  <2> HIDE DEF g
  <2>5. ASSUME NEW i \in 0..(k + 1)
        PROVE  g[i] = IF i = 0 THEN env ELSE EnvLine(g[i - 1], text[i])
    <3>1. CASE i = 0
      BY <3>1, <2>2, <2>3
    <3>2. CASE i \in 1..k
      <4>1. g[i] = f[i] /\ g[i - 1] = f[i - 1] /\ i # 0 /\ i \in 0..k
        BY <2>3, <3>2
      <4> QED BY <4>1, <2>2, Zenon
    <3>3. CASE i = k + 1
      <4>1. g[i - 1] = f[k] /\ i # 0
        BY <2>3, <3>3
      <4> QED BY <4>1, <2>3, <3>3, Zenon
    <3> QED BY <3>1, <3>2, <3>3
  <2>6. EnvAfter(g, env, text, k + 1)
    BY <2>4, <2>5, Zenon DEF EnvAfter
  <2> QED BY <2>6
<1> HIDE DEF P
<1>3. \A i \in 0..n : i \in P
  BY <1>1, <1>2, Climbs, Zenon
<1>4. n \in P
  BY <1>3
<1> QED BY <1>4 DEF P

\* The lines of .env that set a name.
Sets(text, name) == {i \in DOMAIN text : text[i].kind = "entry" /\ text[i].key = name}

\* What a line of .env does to one name, new being the environment after it.
OneName(env, new, line, name) ==
  /\ name \in DOMAIN env => name \in DOMAIN new /\ new[name] = env[name]
  /\ ~(line.kind = "entry" /\ line.key = name) /\ name \notin DOMAIN env =>
       name \notin DOMAIN new
  /\ line.kind = "entry" /\ line.key = name /\ name \notin DOMAIN env =>
       name \in DOMAIN new /\ new[name] = Plain(line.val.text)

LEMMA EnvLineSets ==
  ASSUME NEW env, NEW line, NEW name
  PROVE  OneName(env, EnvLine(env, line), line, name)
<1>1. CASE line.kind = "entry"
  <2> DEFINE w == Plain(line.val.text)
             new == [k \in DOMAIN env \cup {line.key} |->
                       IF k \in DOMAIN env THEN env[k] ELSE w]
  <2>1. EnvLine(env, line) = new
    BY <1>1, Zenon DEF EnvLine, setenv
  <2> HIDE DEF w
  <2>2. name \in DOMAIN new <=> name \in DOMAIN env \/ name = line.key
    BY Zenon
  <2>3. name \in DOMAIN new => new[name] = IF name \in DOMAIN env THEN env[name] ELSE w
    BY Zenon
  <2> HIDE DEF new
  <2>4. OneName(env, new, line, name)
    BY <1>1, <2>2, <2>3, Zenon DEF OneName, w
  <2> QED BY <2>1, <2>4, Zenon
<1>2. CASE line.kind # "entry"
  BY <1>2, Zenon DEF EnvLine, OneName
<1> QED BY <1>1, <1>2

\* env_load: the shell wins, then the first line of .env.
EnvSays(env, text, name) ==
  IF name \in DOMAIN env THEN env[name]
  ELSE IF Sets(text, name) # {} THEN Plain(text[Min(Sets(text, name))].val.text)
  ELSE Absent

LEMMA EnvLoaded ==
  ASSUME NEW env, NEW text \in Seq(ConfLines), NEW name
  PROVE  getenv(env_load(env, text), name) = EnvSays(env, text, name)
<1> DEFINE n == Len(text)
           h == CHOOSE f : EnvAfter(f, env, text, n)
<1>1. n \in Nat /\ DOMAIN text = 1..n
  OBVIOUS
<1>2. EnvAfter(h, env, text, n)
  BY <1>1, EnvAfterExists, Zenon
<1>3. env_load(env, text) = h[n]
  BY Zenon DEF env_load, EnvAfter
<1> HIDE DEF h, n
<1>4. h[0] = env /\ \A i \in 1..n : h[i] = EnvLine(h[i - 1], text[i])
  BY <1>1, <1>2 DEF EnvAfter
<1> DEFINE S == Sets(text, name)
<1>5. S \in SUBSET (1..n)
  BY <1>1 DEF Sets
<1>6. CASE name \in DOMAIN env
  <2> DEFINE P == {k \in 0..n : name \in DOMAIN h[k] /\ h[k][name] = env[name]}
  <2>1. 0 \in P
    BY <1>1, <1>4, <1>6
  <2>2. ASSUME NEW k \in 0..(n - 1), k \in P PROVE k + 1 \in P
    <3>1. k + 1 \in 1..n /\ (k + 1) - 1 = k /\ k + 1 \in 0..n
      BY <1>1
    <3>2. h[k + 1] = EnvLine(h[k], text[k + 1])
      BY <1>4, <3>1
    <3>3. OneName(h[k], h[k + 1], text[k + 1], name)
      BY <3>2, EnvLineSets, Zenon
    <3>4. name \in DOMAIN h[k] /\ h[k][name] = env[name]
      BY <2>2
    <3> QED BY <3>1, <3>3, <3>4, Zenon DEF OneName
  <2> HIDE DEF P
  <2>3. n \in P
    <3>1. \A i \in 0..n : i \in P
      BY <1>1, <2>1, <2>2, Climbs, Zenon
    <3> QED BY <1>1, <3>1
  <2> QED BY <1>3, <1>6, <2>3, Zenon DEF P, getenv, EnvSays
<1>7. CASE name \notin DOMAIN env /\ S = {}
  <2> DEFINE P == {k \in 0..n : name \notin DOMAIN h[k]}
  <2>1. 0 \in P
    BY <1>1, <1>4, <1>7
  <2>2. ASSUME NEW k \in 0..(n - 1), k \in P PROVE k + 1 \in P
    <3>1. k + 1 \in 1..n /\ (k + 1) - 1 = k /\ k + 1 \in 0..n
      BY <1>1
    <3>2. h[k + 1] = EnvLine(h[k], text[k + 1])
      BY <1>4, <3>1
    <3>3. ~(text[k + 1].kind = "entry" /\ text[k + 1].key = name)
      BY <1>7, <3>1, <1>1, Zenon DEF Sets
    <3> QED BY <2>2, <3>1, <3>2, <3>3, EnvLineSets, ZenonT(60) DEF OneName
  <2> HIDE DEF P
  <2>3. n \in P
    <3>1. \A i \in 0..n : i \in P
      BY <1>1, <2>1, <2>2, Climbs, Zenon
    <3> QED BY <1>1, <3>1
  <2> QED BY <1>3, <1>7, <2>3, Zenon DEF P, getenv, EnvSays
<1>8. CASE name \notin DOMAIN env /\ S # {}
  <2> DEFINE m == Min(S)
             w == Plain(text[m].val.text)
             P == {k \in 0..n : IF k < m THEN name \notin DOMAIN h[k]
                                ELSE name \in DOMAIN h[k] /\ h[k][name] = w}
  <2>1. m \in S /\ \A j \in S : m <= j
    <3>1. S \in SUBSET Nat
      BY <1>5
    <3>2. \E k \in S : \A j \in S : k <= j
      BY <1>8, <3>1, Least, Zenon
    <3> QED BY <3>2, Zenon DEF Min
  <2>2. m \in 1..n /\ text[m].kind = "entry" /\ text[m].key = name
    BY <2>1, <1>5 DEF Sets
  <2> HIDE DEF m, w
  <2>3. 0 \in P
    <3>1. 0 \in 0..n /\ 0 < m
      BY <1>1, <2>2
    <3> QED BY <3>1, <1>4, <1>8
  <2>4. ASSUME NEW k \in 0..(n - 1), k \in P PROVE k + 1 \in P
    <3>1. k + 1 \in 1..n /\ (k + 1) - 1 = k /\ k + 1 \in 0..n
      BY <1>1
    <3>2. h[k + 1] = EnvLine(h[k], text[k + 1])
      BY <1>4, <3>1
    <3>0. OneName(h[k], h[k + 1], text[k + 1], name)
      BY <3>2, EnvLineSets, Zenon
    <3>3. CASE k + 1 < m
      <4>1. k < m /\ k + 1 \notin S
        BY <3>3, <2>1, <2>2, <1>5
      <4>2. ~(text[k + 1].kind = "entry" /\ text[k + 1].key = name)
        BY <4>1, <3>1, <1>1, Zenon DEF Sets
      <4>3. name \notin DOMAIN h[k]
        BY <2>4, <4>1
      <4>4. name \notin DOMAIN h[k + 1]
        BY <3>2, <4>2, <4>3, EnvLineSets, Zenon DEF OneName
      <4> QED BY <4>4, <3>1, <3>3
    <3>4. CASE k + 1 = m
      <4>1. k < m /\ ~(k + 1 < m)
        BY <3>4, <2>2
      <4>2. name \notin DOMAIN h[k]
        BY <2>4, <4>1
      <4>3. name \in DOMAIN h[k + 1] /\ h[k + 1][name] = w
        BY <3>0, <3>4, <2>2, <4>2, Zenon DEF OneName, w
      <4> QED BY <4>1, <4>3, <3>1
    <3>5. CASE k + 1 > m
      <4>1. ~(k < m) /\ ~(k + 1 < m)
        BY <3>5, <2>2
      <4>2. name \in DOMAIN h[k] /\ h[k][name] = w
        BY <2>4, <4>1
      <4>3. name \in DOMAIN h[k + 1] /\ h[k + 1][name] = w
        <5>1. name \in DOMAIN h[k + 1] /\ h[k + 1][name] = h[k][name]
          BY <3>0, <4>2, Zenon DEF OneName
        <5> QED BY <4>2, <5>1, Zenon
      <4> QED BY <4>1, <4>3, <3>1
    <3>6. k + 1 \in Nat /\ m \in Nat
      BY <2>2
    <3> QED BY <3>3, <3>4, <3>5, <3>6
  <2> HIDE DEF P
  <2>5. n \in P /\ ~(n < m)
    <3>1. \A i \in 0..n : i \in P
      BY <1>1, <2>3, <2>4, Climbs, Zenon
    <3> QED BY <1>1, <3>1, <2>2
  <2>6. name \in DOMAIN h[n] /\ h[n][name] = w
    BY <2>5 DEF P
  <2> QED BY <1>3, <1>8, <2>6, Zenon DEF getenv, EnvSays, w, m
<1> QED BY <1>6, <1>7, <1>8, Zenon

Texts == [text : STRING, quoted : BOOLEAN]
Labels == STRING \cup {"general"}
Rows == [section : Labels, key : Labels, val : Texts]

\* A table names a key of a section once.
OneRowEach(cfg) ==
  \A i, j \in DOMAIN cfg :
    cfg[i].section = cfg[j].section /\ cfg[i].key = cfg[j].key => i = j

Row(cfg, i, section, key) == cfg[i].section = section /\ cfg[i].key = key

HasRow(cfg, section, key) == \E i \in DOMAIN cfg : Row(cfg, i, section, key)

Holds(cfg, section, key, val) ==
  \E i \in DOMAIN cfg : Row(cfg, i, section, key) /\ cfg[i].val = val

\* The one row of a key is the first one.
LEMMA FirstRow ==
  ASSUME NEW cfg \in Seq(Rows), OneRowEach(cfg), NEW i \in DOMAIN cfg, NEW section, NEW key,
         Row(cfg, i, section, key)
  PROVE  /\ {j \in DOMAIN cfg : cfg[j].section = section /\ cfg[j].key = key} = {i}
         /\ Min({i}) = i
<1>1. {j \in DOMAIN cfg : cfg[j].section = section /\ cfg[j].key = key} = {i}
  BY Zenon DEF OneRowEach, Row
<1>2. i \in Nat
  OBVIOUS
<1>3. Min({i}) \in {i}
  <2>1. \E x \in {i} : \A y \in {i} : x <= y
    BY <1>2
  <2> QED BY <2>1, Zenon DEF Min
<1> QED BY <1>1, <1>3, Zenon

LEMMA GetHolds ==
  ASSUME NEW cfg \in Seq(Rows), OneRowEach(cfg), NEW section, NEW key, NEW default, NEW val,
         Holds(cfg, section, key, val)
  PROVE  config_get(cfg, section, key, default) = val
<1>1. PICK i \in DOMAIN cfg : Row(cfg, i, section, key) /\ cfg[i].val = val
  BY Zenon DEF Holds
<1>2. /\ {j \in DOMAIN cfg : cfg[j].section = section /\ cfg[j].key = key} = {i}
      /\ Min({i}) = i
  BY <1>1, FirstRow, Zenon
<1>3. {i} # {}
  OBVIOUS
<1> QED BY <1>1, <1>2, <1>3, Zenon DEF config_get

LEMMA GetDefault ==
  ASSUME NEW cfg, NEW section, NEW key, NEW default, ~HasRow(cfg, section, key)
  PROVE  config_get(cfg, section, key, default) = default
<1>1. {j \in DOMAIN cfg : cfg[j].section = section /\ cfg[j].key = key} = {}
  BY Zenon DEF HasRow, Row
<1> QED BY <1>1, Zenon DEF config_get

\* What config_set makes of a table with room: new has this row, and of the
\* other keys what cfg has.
RowWritten(cfg, new, section, key, val) ==
  /\ new \in Seq(Rows) /\ OneRowEach(new) /\ Len(new) <= Len(cfg) + 1
  /\ Holds(new, section, key, val)
  /\ \A s, q : s # section \/ q # key =>
       /\ HasRow(new, s, q) => HasRow(cfg, s, q)
       /\ \A v : Holds(cfg, s, q, v) => Holds(new, s, q, v)

LEMMA SetWrites ==
  ASSUME NEW cfg \in Seq(Rows), OneRowEach(cfg), NEW section \in Labels, NEW key \in Labels,
         NEW val \in Texts, Len(cfg) < MAX_ENTRIES
  PROVE  RowWritten(cfg, config_set(cfg, section, key, val), section, key, val)
<1> DEFINE same == {i \in DOMAIN cfg : cfg[i].section = section /\ cfg[i].key = key}
           r == [section |-> section, key |-> key, val |-> val]
<1>1. ~(Len(cfg) >= MAX_ENTRIES)
  BY ConfigAssumption
<1>2. r \in Rows /\ r.section = section /\ r.key = key /\ r.val = val
  BY DEF Rows
<1>3. CASE same # {}
  <2>1. PICK i \in DOMAIN cfg : Row(cfg, i, section, key)
    BY <1>3, Zenon DEF Row
  <2>2. same = {i} /\ Min({i}) = i
    BY <2>1, FirstRow, Zenon
  <2> DEFINE new == [cfg EXCEPT ![i].val = val]
  <2>3. config_set(cfg, section, key, val) = new
    BY <1>1, <1>3, <2>2, Zenon DEF config_set
  <2>4. /\ new \in Seq(Rows) /\ DOMAIN new = DOMAIN cfg /\ Len(new) = Len(cfg)
        /\ new[i].val = val
        /\ \A j \in DOMAIN cfg : /\ new[j].section = cfg[j].section
                                 /\ new[j].key = cfg[j].key
                                 /\ j # i => new[j].val = cfg[j].val
    <3>1. cfg[i] \in Rows
      OBVIOUS
    <3> DEFINE u == [cfg[i] EXCEPT !.val = val]
    <3>2. u \in Rows /\ u.val = val /\ u.section = cfg[i].section /\ u.key = cfg[i].key
      BY <3>1 DEF Rows
    <3>3. new = [cfg EXCEPT ![i] = u]
      OBVIOUS
    <3> HIDE DEF u, new
    <3>4. /\ new \in Seq(Rows) /\ DOMAIN new = DOMAIN cfg /\ Len(new) = Len(cfg)
          /\ new[i] = u
      BY <3>2, <3>3
    <3>5. \A j \in DOMAIN cfg : j # i => new[j] = cfg[j]
      BY <3>3
    <3>6. ASSUME NEW j \in DOMAIN cfg
          PROVE  /\ new[j].section = cfg[j].section /\ new[j].key = cfg[j].key
                 /\ j # i => new[j].val = cfg[j].val
      BY <3>2, <3>4, <3>5, Zenon
    <3> QED BY <3>2, <3>4, <3>6, Zenon
  <2> HIDE DEF new
  <2>5. OneRowEach(new)
    BY <2>4, Zenon DEF OneRowEach
  <2>6. Holds(new, section, key, val)
    BY <2>1, <2>4, Zenon DEF Holds, Row
  <2>7. ASSUME NEW s, NEW q, s # section \/ q # key
        PROVE  /\ HasRow(new, s, q) => HasRow(cfg, s, q)
               /\ \A v : Holds(cfg, s, q, v) => Holds(new, s, q, v)
    <3>1. ASSUME NEW j \in DOMAIN cfg, Row(cfg, j, s, q) PROVE j # i
      BY <3>1, <2>1, <2>7, Zenon DEF Row
    <3>2. ASSUME NEW v, Holds(cfg, s, q, v) PROVE Holds(new, s, q, v)
      BY <3>1, <3>2, <2>4, Zenon DEF Holds, Row
    <3>3. HasRow(new, s, q) => HasRow(cfg, s, q)
      BY <2>4, Zenon DEF HasRow, Row
    <3> QED BY <3>2, <3>3, Zenon
  <2>8. Len(new) <= Len(cfg) + 1
    BY <2>4
  <2>9. RowWritten(cfg, new, section, key, val)
    BY <2>4, <2>5, <2>6, <2>7, <2>8, Zenon DEF RowWritten
  <2> QED BY <2>3, <2>9, Zenon
<1>4. CASE same = {}
  <2> DEFINE new == Append(cfg, r)
             n == Len(cfg) + 1
  <2>1. config_set(cfg, section, key, val) = new
    BY <1>1, <1>4, Zenon DEF config_set
  <2> HIDE DEF r
  <2>2. /\ new \in Seq(Rows) /\ DOMAIN new = DOMAIN cfg \cup {n} /\ Len(new) = n
        /\ new[n] = r
        /\ \A j \in DOMAIN cfg : new[j] = cfg[j]
    BY <1>2
  <2>3. n <= Len(cfg) + 1
    OBVIOUS
  <2> HIDE DEF new, n
  <2>4. \A j \in DOMAIN cfg : ~(cfg[j].section = section /\ cfg[j].key = key)
    BY <1>4, Zenon
  <2>5. OneRowEach(new)
    <3> SUFFICES ASSUME NEW i \in DOMAIN new, NEW j \in DOMAIN new,
                        new[i].section = new[j].section, new[i].key = new[j].key
                 PROVE  i = j
      BY Zenon DEF OneRowEach
    <3>1. CASE i \in DOMAIN cfg /\ j \in DOMAIN cfg
      BY <3>1, <2>2, Zenon DEF OneRowEach
    <3>2. CASE i = n /\ j \in DOMAIN cfg
      BY <3>2, <2>2, <2>4, <1>2, Zenon
    <3>3. CASE j = n /\ i \in DOMAIN cfg
      BY <3>3, <2>2, <2>4, <1>2, Zenon
    <3> QED BY <3>1, <3>2, <3>3, <2>2, Zenon
  <2>6. Holds(new, section, key, val)
    BY <2>2, <1>2, Zenon DEF Holds, Row
  <2>7. ASSUME NEW s, NEW q, s # section \/ q # key
        PROVE  /\ HasRow(new, s, q) => HasRow(cfg, s, q)
               /\ \A v : Holds(cfg, s, q, v) => Holds(new, s, q, v)
    <3>1. ~Row(new, n, s, q)
      BY <2>2, <2>7, <1>2, Zenon DEF Row
    <3>2. ASSUME NEW v, Holds(cfg, s, q, v) PROVE Holds(new, s, q, v)
      BY <3>2, <2>2, Zenon DEF Holds, Row
    <3>3. HasRow(new, s, q) => HasRow(cfg, s, q)
      BY <3>1, <2>2, Zenon DEF HasRow, Row
    <3> QED BY <3>2, <3>3, Zenon
  <2>8. RowWritten(cfg, new, section, key, val)
    BY <2>2, <2>3, <2>5, <2>6, <2>7, Zenon DEF RowWritten
  <2> QED BY <2>1, <2>8, Zenon
<1> QED BY <1>3, <1>4, Zenon

\* config_load: the section and the table after the first k lines.
ConfAfter(f, text, n) ==
  f = [i \in 0..n |-> IF i = 0 THEN [section |-> "general", cfg |-> <<>>]
                      ELSE ConfLine(f[i - 1], text[i])]

LEMMA ConfAfterExists ==
  ASSUME NEW text, NEW n \in Nat
  PROVE  \E f : ConfAfter(f, text, n)
<1> DEFINE start == [section |-> "general", cfg |-> <<>>]
           P == {k \in Nat : \E f : ConfAfter(f, text, k)}
<1>1. 0 \in P
  <2>1. ConfAfter([i \in 0..0 |-> start], text, 0)
    BY DEF ConfAfter
  <2> QED BY <2>1
<1>2. ASSUME NEW k \in 0..(n - 1), k \in P PROVE k + 1 \in P
  <2>1. PICK f : ConfAfter(f, text, k)
    BY <1>2
  <2>2. \A i \in 0..k : f[i] = IF i = 0 THEN start ELSE ConfLine(f[i - 1], text[i])
    BY <2>1 DEF ConfAfter
  <2> DEFINE g == [i \in 0..(k + 1) |-> IF i <= k THEN f[i] ELSE ConfLine(f[k], text[k + 1])]
  <2> HIDE DEF start
  <2>3. g[k + 1] = ConfLine(f[k], text[k + 1]) /\ \A i \in 0..k : g[i] = f[i]
    OBVIOUS
  <2>4. g = [i \in 0..(k + 1) |-> g[i]]
    OBVIOUS
  <2> HIDE DEF g
  <2>5. ASSUME NEW i \in 0..(k + 1)
        PROVE  g[i] = IF i = 0 THEN start ELSE ConfLine(g[i - 1], text[i])
    <3>1. CASE i = 0
      BY <3>1, <2>2, <2>3
    <3>2. CASE i \in 1..k
      <4>1. g[i] = f[i] /\ g[i - 1] = f[i - 1] /\ i # 0 /\ i \in 0..k
        BY <2>3, <3>2
      <4> QED BY <4>1, <2>2, Zenon
    <3>3. CASE i = k + 1
      <4>1. g[i - 1] = f[k] /\ i # 0
        BY <2>3, <3>3
      <4> QED BY <4>1, <2>3, <3>3, Zenon
    <3> QED BY <3>1, <3>2, <3>3
  <2>6. ConfAfter(g, text, k + 1)
    BY <2>4, <2>5, Zenon DEF ConfAfter, start
  <2> QED BY <2>6
<1> HIDE DEF P
<1>3. \A i \in 0..n : i \in P
  BY <1>1, <1>2, Climbs, Zenon
<1>4. n \in P
  BY <1>3
<1> QED BY <1>4 DEF P

\* The section of the next line.
LEMMA SectionSteps ==
  ASSUME NEW text \in Seq(ConfLines), NEW k \in 1..Len(text)
  PROVE  SectionAt(text, k + 1) =
           IF text[k].kind = "section" THEN text[k].key ELSE SectionAt(text, k)
<1> DEFINE A == {j \in 1..(k - 1) : text[j].kind = "section"}
           B == {j \in 1..((k + 1) - 1) : text[j].kind = "section"}
<1>1. k \in Nat /\ (k + 1) - 1 = k /\ B \in SUBSET (1..k)
  OBVIOUS
<1>2. CASE text[k].kind = "section"
  <2>1. k \in B
    BY <1>2
  <2>2. Max(B) \in B /\ Max(B) >= k
    BY <1>1, <2>1, GreatestLine, Zenon
  <2>3. Max(B) = k
    <3> DEFINE m == Max(B)
    <3>1. m \in B /\ m >= k
      BY <2>2
    <3> HIDE DEF m
    <3>2. m = k
      BY <3>1, <1>1
    <3> QED BY <3>2 DEF m
  <2> QED BY <1>2, <2>1, <2>3, Zenon DEF SectionAt
<1>3. CASE text[k].kind # "section"
  <2>1. A = B
    BY <1>3
  <2> QED BY <1>3, <2>1, Zenon DEF SectionAt
<1> QED BY <1>2, <1>3

LEMMA FirstSection ==
  ASSUME NEW text
  PROVE  SectionAt(text, 1) = "general"
<1>1. {j \in 1..(1 - 1) : text[j].kind = "section"} = {}
  OBVIOUS
<1> QED BY <1>1, Zenon DEF SectionAt

LEMMA EntriesCount ==
  ASSUME NEW text, NEW k \in Nat
  PROVE  /\ IsFiniteSet(Entries(text, k)) /\ Cardinality(Entries(text, k)) \in Nat
         /\ Cardinality(Entries(text, 0)) = 0
         /\ Cardinality(Entries(text, k)) <= Cardinality(Entries(text, k + 1))
         /\ text[k + 1].kind = "entry" =>
              Cardinality(Entries(text, k + 1)) = Cardinality(Entries(text, k)) + 1
         /\ \A n \in Nat : k <= n =>
              Cardinality(Entries(text, k)) <= Cardinality(Entries(text, n))
<1>1. ASSUME NEW n \in Nat
      PROVE  IsFiniteSet(Entries(text, n)) /\ Cardinality(Entries(text, n)) \in Nat
  <2>1. IsFiniteSet(1..n) /\ Entries(text, n) \in SUBSET (1..n)
    BY FS_Interval DEF Entries
  <2>2. IsFiniteSet(Entries(text, n))
    BY <2>1, FS_Subset
  <2> QED BY <2>2, FS_CardinalityType
<1>2. Entries(text, 0) = {}
  BY DEF Entries
<1>3. ASSUME NEW n \in Nat, k <= n
      PROVE  Cardinality(Entries(text, k)) <= Cardinality(Entries(text, n))
  <2>1. Entries(text, k) \in SUBSET Entries(text, n)
    BY <1>3 DEF Entries
  <2> QED BY <2>1, <1>1, FS_Subset
<1>4. ASSUME text[k + 1].kind = "entry"
      PROVE  Cardinality(Entries(text, k + 1)) = Cardinality(Entries(text, k)) + 1
  <2>1. Entries(text, k + 1) = Entries(text, k) \cup {k + 1} /\ k + 1 \notin Entries(text, k)
    BY <1>4 DEF Entries
  <2> QED BY <2>1, <1>1, FS_AddElement
<1>5. Cardinality(Entries(text, 0)) = 0
  BY <1>2, FS_EmptySet
<1>6. k + 1 \in Nat /\ k <= k + 1
  OBVIOUS
<1> QED BY <1>1, <1>3, <1>4, <1>5, <1>6

\* A table says of a key what the last of the first k lines that assign it says.
Until(text, section, key, k) == {i \in Assigns(text, section, key) : i <= k}

Tells(cfg, text, k, section, key) ==
  /\ Until(text, section, key, k) = {} => ~HasRow(cfg, section, key)
  /\ \A m \in Until(text, section, key, k) :
       (\A j \in Until(text, section, key, k) : j <= m) =>
          Holds(cfg, section, key, text[m].val)

Loading == [section : Labels, cfg : Seq(Rows)]

\* What holds of the table between two lines.
LoadedTo(st, text, k, section, key) ==
  /\ st \in Loading /\ st.section = SectionAt(text, k + 1)
  /\ OneRowEach(st.cfg) /\ Len(st.cfg) <= Cardinality(Entries(text, k))
  /\ Tells(st.cfg, text, k, section, key)

LEMMA SkipsLine ==
  ASSUME NEW text, NEW section, NEW key, NEW k \in Nat, NEW cfg, NEW new,
         Tells(cfg, text, k, section, key), k + 1 \notin Assigns(text, section, key),
         Assigns(text, section, key) \in SUBSET Nat,
         HasRow(new, section, key) => HasRow(cfg, section, key),
         \A v : Holds(cfg, section, key, v) => Holds(new, section, key, v)
  PROVE  Tells(new, text, k + 1, section, key)
<1>1. Until(text, section, key, k + 1) = Until(text, section, key, k)
  BY DEF Until
<1> QED BY <1>1, Zenon DEF Tells

LEMMA LineLoads ==
  ASSUME NEW text \in Seq(ConfLines), NEW k \in 0..(Len(text) - 1), NEW section,
         NEW key, NEW st, LoadedTo(st, text, k, section, key),
         Cardinality(Entries(text, Len(text))) <= MAX_ENTRIES
  PROVE  LoadedTo(ConfLine(st, text[k + 1]), text, k + 1, section, key)
<1> DEFINE line == text[k + 1]
           new == ConfLine(st, line)
<1>1. /\ k \in Nat /\ k + 1 \in 1..Len(text) /\ k + 1 \in DOMAIN text
      /\ k + 1 \in Nat /\ Len(text) \in Nat /\ k <= k + 1 /\ k + 1 <= Len(text)
  OBVIOUS
<1>2. line \in ConfLines
  BY <1>1
<1>3. line.key \in Labels /\ line.val \in Texts
  BY <1>2 DEF ConfLines, Texts, Labels
<1>4. /\ st \in Loading /\ st.section = SectionAt(text, k + 1) /\ OneRowEach(st.cfg)
      /\ Len(st.cfg) <= Cardinality(Entries(text, k))
      /\ Tells(st.cfg, text, k, section, key)
  BY Zenon DEF LoadedTo
<1>5. st.section \in Labels /\ st.cfg \in Seq(Rows) /\ Len(st.cfg) \in Nat
  BY <1>4 DEF Loading
<1>6. SectionAt(text, (k + 1) + 1) =
         IF line.kind = "section" THEN line.key ELSE st.section
  BY <1>1, <1>4, SectionSteps, Zenon
<1>7. /\ Cardinality(Entries(text, k)) \in Nat /\ Cardinality(Entries(text, k + 1)) \in Nat
      /\ Cardinality(Entries(text, k)) <= Cardinality(Entries(text, k + 1))
      /\ line.kind = "entry" =>
           Cardinality(Entries(text, k + 1)) = Cardinality(Entries(text, k)) + 1
      /\ Cardinality(Entries(text, k + 1)) <= MAX_ENTRIES
  <2>1. Cardinality(Entries(text, k + 1)) <= Cardinality(Entries(text, Len(text)))
    BY <1>1, EntriesCount
  <2>2. Cardinality(Entries(text, Len(text))) \in Nat
    BY <1>1, EntriesCount
  <2>3. Cardinality(Entries(text, k + 1)) \in Nat
    BY <1>1, EntriesCount
  <2>4. Cardinality(Entries(text, k + 1)) <= MAX_ENTRIES
    BY <2>1, <2>2, <2>3, ConfigAssumption
  <2> QED BY <2>3, <2>4, <1>1, EntriesCount
<1>8. Assigns(text, section, key) \in SUBSET Nat
  BY DEF Assigns
<1>9. k + 1 \in Assigns(text, section, key) <=>
        line.kind = "entry" /\ line.key = key /\ st.section = section
  BY <1>1, <1>4, Zenon DEF Assigns
<1> HIDE DEF line
<1>10. CASE line.kind = "entry"
  <2> DEFINE cfg == config_set(st.cfg, st.section, line.key, line.val)
  <2>1. Len(st.cfg) < MAX_ENTRIES
    BY <1>4, <1>5, <1>7, <1>10, ConfigAssumption
  <2>2. RowWritten(st.cfg, cfg, st.section, line.key, line.val)
    BY <1>3, <1>4, <1>5, <2>1, SetWrites, Zenon
  <2>3. new = [st EXCEPT !.cfg = cfg]
    BY <1>10, Zenon DEF ConfLine
  <2> HIDE DEF cfg
  <2>4. cfg \in Seq(Rows) /\ OneRowEach(cfg) /\ Len(cfg) <= Len(st.cfg) + 1
    BY <2>2, Zenon DEF RowWritten
  <2>5. new \in Loading /\ new.section = st.section /\ new.cfg = cfg
    BY <2>3, <2>4, <1>4 DEF Loading
  <2>6. Len(cfg) <= Cardinality(Entries(text, k + 1))
    <3>1. Len(cfg) \in Nat
      BY <2>4
    <3> QED BY <2>4, <3>1, <1>4, <1>5, <1>7, <1>10
  <2>7. Tells(cfg, text, k + 1, section, key)
    <3>1. CASE line.key = key /\ st.section = section
      <4> DEFINE U == Until(text, section, key, k + 1)
      <4>1. k + 1 \in U
        BY <1>1, <1>9, <1>10, <3>1 DEF Until
      <4>2. Holds(cfg, section, key, line.val)
        BY <2>2, <3>1, Zenon DEF RowWritten
      <4>3. ASSUME NEW m \in U, \A j \in U : j <= m
            PROVE  Holds(cfg, section, key, text[m].val)
        <5>1. m \in Nat /\ m <= k + 1
          BY <1>8 DEF Until
        <5>2. k + 1 <= m
          BY <4>1, <4>3, Zenon
        <5>3. m = k + 1
          BY <5>1, <5>2, <1>1
        <5> QED BY <4>2, <5>3, Zenon DEF line
      <4>4. U # {}
        BY <4>1
      <4> QED BY <4>3, <4>4, Zenon DEF Tells
    <3>2. CASE ~(line.key = key /\ st.section = section)
      <4>1. /\ HasRow(cfg, section, key) => HasRow(st.cfg, section, key)
            /\ \A v : Holds(st.cfg, section, key, v) => Holds(cfg, section, key, v)
        BY <2>2, <3>2, Zenon DEF RowWritten
      <4> QED BY <4>1, <3>2, <1>1, <1>4, <1>8, <1>9, SkipsLine, Zenon
    <3> QED BY <3>1, <3>2, Zenon
  <2>8. new.section = SectionAt(text, (k + 1) + 1)
    BY <1>6, <1>10, <2>5
  <2> HIDE DEF new
  <2>9. LoadedTo(new, text, k + 1, section, key)
    BY <2>4, <2>5, <2>6, <2>7, <2>8, Zenon DEF LoadedTo
  <2> QED BY <2>9, Zenon DEF new, line
<1>11. CASE line.kind # "entry"
  <2>1. new \in Loading /\ new.cfg = st.cfg
        /\ new.section = IF line.kind = "section" THEN line.key ELSE st.section
    <3>1. CASE line.kind = "section"
      <4>1. new = [st EXCEPT !.section = line.key]
        BY <3>1, Zenon DEF ConfLine
      <4> QED BY <4>1, <3>1, <1>3, <1>4 DEF Loading
    <3>2. CASE line.kind # "section"
      BY <1>4, <1>11, <3>2 DEF ConfLine
    <3> QED BY <3>1, <3>2
  <2> HIDE DEF new
  <2>2. Tells(new.cfg, text, k + 1, section, key)
    <3>1. k + 1 \notin Assigns(text, section, key)
      BY <1>9, <1>11, Zenon
    <3>2. Tells(st.cfg, text, k + 1, section, key)
      BY <3>1, <1>1, <1>4, <1>8, SkipsLine, Zenon
    <3> QED BY <3>2, <2>1
  <2>3. Len(new.cfg) <= Cardinality(Entries(text, k + 1))
    BY <2>1, <1>4, <1>5, <1>7
  <2>4. new.section = SectionAt(text, (k + 1) + 1)
    BY <1>6, <2>1
  <2>5. OneRowEach(new.cfg)
    BY <2>1, <1>4
  <2>6. LoadedTo(new, text, k + 1, section, key)
    BY <2>1, <2>2, <2>3, <2>4, <2>5, Zenon DEF LoadedTo
  <2> QED BY <2>6, Zenon DEF new, line
<1> QED BY <1>10, <1>11

\* config_load: the last assignment in the section wins.
ConfSays(text, section, key, default) ==
  IF Assigns(text, section, key) # {} THEN text[Max(Assigns(text, section, key))].val
  ELSE default

LEMMA ConfLoaded ==
  ASSUME NEW text \in Seq(ConfLines), NEW section, NEW key,
         NEW default, Cardinality(Entries(text, Len(text))) <= MAX_ENTRIES
  PROVE  config_get(config_load(text), section, key, default)
           = ConfSays(text, section, key, default)
<1> DEFINE n == Len(text)
           h == CHOOSE f : ConfAfter(f, text, n)
           set == Assigns(text, section, key)
<1>1. n \in Nat /\ DOMAIN text = 1..n
  OBVIOUS
<1>2. ConfAfter(h, text, n)
  BY <1>1, ConfAfterExists, Zenon
<1>3. config_load(text) = h[n].cfg
  BY Zenon DEF config_load, ConfAfter
<1> HIDE DEF h
<1>4. h[0] = [section |-> "general", cfg |-> <<>>]
      /\ \A i \in 1..n : h[i] = ConfLine(h[i - 1], text[i])
  BY <1>1, <1>2 DEF ConfAfter
<1>5. set \in SUBSET (1..n)
  BY <1>1 DEF Assigns
<1> HIDE DEF set, n
<1>14. \A i \in set : i \in Nat /\ 1 <= i /\ i <= n
  BY <1>1, <1>5
<1> DEFINE P == {k \in 0..n : LoadedTo(h[k], text, k, section, key)}
<1>6. 0 \in P
  <2>1. h[0] \in Loading /\ h[0].cfg = <<>> /\ h[0].section = "general"
    <3>1. <<>> \in Seq(Rows)
      OBVIOUS
    <3>2. \A c \in Seq(Rows) : [section |-> "general", cfg |-> c] \in Loading
      BY DEF Loading, Labels
    <3>3. h[0] \in Loading
      BY <3>1, <3>2, <1>4, Zenon
    <3> QED BY <3>3, <1>4
  <2>2. OneRowEach(<<>>) /\ ~HasRow(<<>>, section, key)
    BY DEF OneRowEach, HasRow
  <2>3. Until(text, section, key, 0) = {}
    <3>1. Until(text, section, key, 0) = {i \in set : i <= 0}
      BY Zenon DEF Until, set
    <3>2. \A i \in set : ~(i <= 0)
      BY <1>14
    <3> QED BY <3>1, <3>2, Zenon
  <2>4. Tells(<<>>, text, 0, section, key)
    BY <2>2, <2>3, Zenon DEF Tells
  <2>5. Len(<<>>) <= Cardinality(Entries(text, 0))
    BY EntriesCount
  <2>6. SectionAt(text, 0 + 1) = "general"
    BY FirstSection
  <2>7. LoadedTo(h[0], text, 0, section, key)
    BY <2>1, <2>2, <2>4, <2>5, <2>6 DEF LoadedTo
  <2>8. 0 \in 0..n
    BY <1>1
  <2> QED BY <2>7, <2>8, Zenon
<1>7. ASSUME NEW k \in 0..(n - 1), k \in P PROVE k + 1 \in P
  <2>1. k + 1 \in 1..n /\ (k + 1) - 1 = k /\ k + 1 \in 0..n
    BY <1>1
  <2>2. h[k + 1] = ConfLine(h[k], text[k + 1])
    BY <1>4, <2>1
  <2>3. LoadedTo(h[k], text, k, section, key)
    BY <1>7, Zenon
  <2>4. k \in 0..(Len(text) - 1)
    BY DEF n
  <2>5. LoadedTo(h[k + 1], text, k + 1, section, key)
    BY <2>2, <2>3, <2>4, LineLoads, Zenon
  <2> QED BY <2>1, <2>5, Zenon
<1> HIDE DEF P
<1>8. n \in P
  <2>1. \A i \in 0..n : i \in P
    BY <1>1, <1>6, <1>7, Climbs, Zenon
  <2> QED BY <1>1, <2>1
<1>9. h[n] \in Loading /\ OneRowEach(h[n].cfg) /\ Tells(h[n].cfg, text, n, section, key)
  BY <1>8, Zenon DEF P, LoadedTo
<1>10. h[n].cfg \in Seq(Rows)
  BY <1>9 DEF Loading
<1>11. Until(text, section, key, n) = set
  <2>1. Until(text, section, key, n) = {i \in set : i <= n}
    BY Zenon DEF Until, set
  <2>2. \A i \in set : i <= n
    BY <1>14, Zenon
  <2> QED BY <2>1, <2>2, Zenon
<1>12. CASE set = {}
  <2>1. ~HasRow(h[n].cfg, section, key)
    BY <1>9, <1>11, <1>12, Zenon DEF Tells
  <2> QED BY <2>1, <1>3, <1>12, GetDefault, Zenon DEF ConfSays, set
<1>13. CASE set # {}
  <2> DEFINE m == Max(set)
  <2>1. m \in set /\ \A j \in set : m >= j
    BY <1>1, <1>5, <1>13, GreatestLine, Zenon
  <2> HIDE DEF m
  <2>2. \A j \in set : j <= m
    BY <2>1, <1>5
  <2>3. Holds(h[n].cfg, section, key, text[m].val)
    BY <2>1, <2>2, <1>9, <1>11, Zenon DEF Tells
  <2>4. config_get(h[n].cfg, section, key, default) = text[m].val
    BY <2>3, <1>9, <1>10, GetHolds, Zenon
  <2> QED BY <2>4, <1>3, <1>13, Zenon DEF ConfSays, set, m
<1> QED BY <1>12, <1>13, Zenon

\* What the process finds in its environment, unless the shell masks .env.
LEMMA EnvironmentFollowsRule ==
  ASSUME ConfFits, files \in Inputs, NEW name, ~Masked(name)
  PROVE  getenv(env_load(files.shell, files.dotenv), name) = Exported(name)
<1>1. files.dotenv \in Seq(ConfLines)
  BY Zenon DEF ConfFits
<1>2. getenv(env_load(files.shell, files.dotenv), name)
        = EnvSays(files.shell, files.dotenv, name)
  BY <1>1, EnvLoaded, Zenon
<1>3. CASE name \in DOMAIN files.shell
  <2>1. EnvSays(files.shell, files.dotenv, name) = FromShell(name)
    BY <1>3, Zenon DEF EnvSays, FromShell
  <2>2. FromShell(name) = Absent => FromDotEnv(name) = Absent
    BY <1>3, Zenon DEF Masked, FromShell
  <2> QED BY <1>2, <2>1, <2>2, Zenon DEF Exported, OrElse
<1>4. CASE name \notin DOMAIN files.shell
  <2>1. EnvSays(files.shell, files.dotenv, name) = FromDotEnv(name)
    BY <1>4, Zenon DEF EnvSays, FromDotEnv, Sets
  <2>2. FromShell(name) = Absent
    BY <1>4, Zenon DEF FromShell
  <2> QED BY <1>2, <2>1, <2>2, Zenon DEF Exported, OrElse
<1> QED BY <1>3, <1>4

\* What dobby.conf says of a key is what config_load leaves for config_get.
LEMMA ConfigurationFollowsRule ==
  ASSUME ConfFits, files \in Inputs, NEW section, NEW key, NEW default
  PROVE  config_get(config_load(files.conf), section, key, default)
           = Configured(section, key, default)
<1>1. /\ files.conf \in Seq(ConfLines)
      /\ Cardinality(Entries(files.conf, Len(files.conf))) <= MAX_ENTRIES
  BY Zenon DEF ConfFits
<1>2. config_get(config_load(files.conf), section, key, default)
        = ConfSays(files.conf, section, key, default)
  BY <1>1, ConfLoaded
<1> QED BY <1>2, Zenon DEF ConfSays, Configured

\* The rule of dobby.conf is what the two loads give.
LEMMA SettingFollowsRule ==
  ASSUME ConfFits, files \in Inputs, NEW name, ~Masked(name), NEW section,
         NEW key, NEW default
  PROVE  env_or_cfg(env_load(files.shell, files.dotenv), name,
                    config_load(files.conf), section, key, default)
           = PriorityRule(name, section, key, default)
<1>1. config_get(config_load(files.conf), section, key, default)
        = Configured(section, key, default)
  BY ConfigurationFollowsRule, Zenon
<1>2. getenv(env_load(files.shell, files.dotenv), name) = Exported(name)
  BY EnvironmentFollowsRule, Zenon
<1> QED BY <1>1, <1>2, Zenon DEF env_or_cfg, PriorityRule

\* The same of the URL of Ollama, which two keys of dobby.conf may give.
LEMMA OllamaUrlFollowsRule ==
  ASSUME ConfFits, files \in Inputs, ~Masked("OLLAMA_URL")
  PROVE  OllamaUrl(env_load(files.shell, files.dotenv), config_load(files.conf))
           = OrElse(Exported("OLLAMA_URL"), OllamaConfigured)
<1>1. /\ config_get(config_load(files.conf), "provider", "ollama_url", Absent)
           = Configured("provider", "ollama_url", Absent)
      /\ config_get(config_load(files.conf), "provider", "url", Absent)
           = Configured("provider", "url", Absent)
  BY ConfigurationFollowsRule, Zenon
<1>2. getenv(env_load(files.shell, files.dotenv), "OLLAMA_URL") = Exported("OLLAMA_URL")
  BY EnvironmentFollowsRule, Zenon
<1> QED BY <1>1, <1>2, Zenon DEF OllamaUrl, OllamaConfigured

\* boot() reads the files it was started with.
FilesUntouched == main = "config" => files \in Inputs

PrioritySettings ==
  settings = NoSettings /\ settings' # NoSettings =>
    /\ \/ Masked("MODEL")
       \/ settings'.model = PriorityRule("MODEL", "provider", "model", Absent)
    /\ \/ Masked("API_URL")
       \/ settings'.api_url = PriorityRule("API_URL", "provider", "api_url", Absent)
    /\ \/ Masked("API_KEY")
       \/ settings'.api_key = PriorityRule("API_KEY", "provider", "api_key", Absent)
    /\ \/ Masked("PROVIDER")
       \/ settings'.provider =
            PriorityRule("PROVIDER", "provider", "type", Plain("ollama"))
    /\ \/ Masked("OLLAMA_URL")
       \/ settings'.ollama_url = OrElse(Exported("OLLAMA_URL"), OllamaConfigured)

LEMMA SettingsOnlyAtBoot ==
  ASSUME [Next]_vars, ~BootConfig
  PROVE  /\ settings' \in {settings, NoSettings}
         /\ main' = "config" => main = "config" /\ files' = files
<1>1. CASE Boot
  BY <1>1 DEF Boot, BootSeed, BootProvider, BootAgent, BootSessions, BootPart,
       BootScheduler, BootSubagents, BootHeartbeat, BootEmail, BootNoEmail, BootWhatsApp,
       BootIdentity, BootGateway, Goto, bootVars
<1>2. CASE Repl
  BY <1>2 DEF Repl, ReadlineEnter, ReadlineReturns, AfterLine, Thinking, Spin, Publish,
       Ready, Stop, Join, RefreshFree, RefreshSet, RunEnds, Cleanup, Goto, bootVars
<1>3. CASE Worker
  BY <1>3 DEF Worker, WorkerTakes, WorkerClones, WorkerThinks, WorkerSpins, WorkerCalls,
       WorkerDies, WorkerDelivers, bootVars
<1>4. CASE Spinner \/ sig_handler \/ sig_term \/ OtherMessage \/ Exited \/ UNCHANGED vars
  BY <1>4 DEF Spinner, sig_handler, sig_term, OtherMessage, Exited, bootVars, vars
<1> QED BY <1>1, <1>2, <1>3, <1>4 DEF Next

LEMMA BootConfigFollowsRule ==
  ASSUME ConfFits, FilesUntouched, BootConfig
  PROVE  PrioritySettings
<1>1. main = "config" /\ files \in Inputs
  BY DEF BootConfig, Goto, FilesUntouched
<1> DEFINE env == env_load(files.shell, files.dotenv)
           cfg == config_load(files.conf)
<1>2. settings' = Setting(env, cfg)
  BY Zenon DEF BootConfig
<1>3. /\ settings'.provider = env_or_cfg(env, "PROVIDER", cfg, "provider", "type",
                                         Plain("ollama"))
      /\ settings'.model = env_or_cfg(env, "MODEL", cfg, "provider", "model", Absent)
      /\ settings'.api_url = env_or_cfg(env, "API_URL", cfg, "provider", "api_url", Absent)
      /\ settings'.api_key = env_or_cfg(env, "API_KEY", cfg, "provider", "api_key", Absent)
      /\ settings'.ollama_url = OllamaUrl(env, cfg)
  BY <1>2, Zenon DEF Setting
<1>4. \A name, section, key, default :
         \/ Masked(name)
         \/ env_or_cfg(env, name, cfg, section, key, default)
              = PriorityRule(name, section, key, default)
  BY <1>1, SettingFollowsRule, Zenon
<1>5. \/ Masked("OLLAMA_URL")
      \/ OllamaUrl(env, cfg) = OrElse(Exported("OLLAMA_URL"), OllamaConfigured)
  BY <1>1, OllamaUrlFollowsRule, Zenon
<1> HIDE DEF env, cfg
<1>6. /\ \/ Masked("MODEL")
         \/ settings'.model = PriorityRule("MODEL", "provider", "model", Absent)
      /\ \/ Masked("API_URL")
         \/ settings'.api_url = PriorityRule("API_URL", "provider", "api_url", Absent)
  BY <1>3, <1>4, Zenon
<1>7. /\ \/ Masked("API_KEY")
         \/ settings'.api_key = PriorityRule("API_KEY", "provider", "api_key", Absent)
      /\ \/ Masked("PROVIDER")
         \/ settings'.provider =
              PriorityRule("PROVIDER", "provider", "type", Plain("ollama"))
  BY <1>3, <1>4, Zenon
<1>8. \/ Masked("OLLAMA_URL")
      \/ settings'.ollama_url = OrElse(Exported("OLLAMA_URL"), OllamaConfigured)
  BY <1>3, <1>5, Zenon
<1> QED BY <1>6, <1>7, <1>8, Zenon DEF PrioritySettings

\* "Priority: shell env > .env > this file > built-in defaults" (dobby.conf):
\* whatever the shell, .env and dobby.conf hold, in any order and with any
\* repetitions, as long as dobby.conf has no more entries than its table, but for
\* a variable that is empty in the shell and not in .env.
THEOREM ConfigFollowsPriority == ConfFits => (Spec => ConfigPriority)
<1> SUFFICES ASSUME ConfFits PROVE Spec => ConfigPriority
  OBVIOUS
<1>1. Init => FilesUntouched
  BY DEF Init, FilesUntouched
<1>2. FilesUntouched /\ [Next]_vars => FilesUntouched' /\ [PrioritySettings]_settings
  <2> SUFFICES ASSUME FilesUntouched, [Next]_vars
               PROVE  FilesUntouched' /\ [PrioritySettings]_settings
    OBVIOUS
  <2>1. CASE BootConfig
    <3>1. FilesUntouched'
      BY <2>1 DEF BootConfig, Goto, FilesUntouched
    <3> QED BY <3>1, <2>1, BootConfigFollowsRule
  <2>2. CASE ~BootConfig
    <3>1. /\ settings' \in {settings, NoSettings}
          /\ main' = "config" => main = "config" /\ files' = files
      BY <2>2, SettingsOnlyAtBoot
    <3> QED BY <3>1 DEF FilesUntouched, PrioritySettings
  <2> QED BY <2>1, <2>2
<1> QED BY <1>1, <1>2, PTL DEF Spec, ConfigPriority, PrioritySettings
=============================================================================
