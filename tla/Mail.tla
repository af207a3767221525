-------------------------------- MODULE Mail --------------------------------
(***************************************************************************)
(* The email channel and the allowlist it shares with the main thread.     *)
(* The poll thread looks for unseen mail, the dispatcher sends the answers *)
(* of the agent (email_send), a tool or /email send sends mail of its own  *)
(* (email_channel_send_direct), and /email allow and /email deny change    *)
(* the rules and rewrite allowlist.conf while the other threads read them: *)
(* there is no lock, and a thread that sends asks the rules one by one     *)
(* before it talks to the SMTP server.                                     *)
(*                                                                         *)
(* The IMAP server numbers mail 1, 2, ...; a mail is known by its UID and  *)
(* its sender.  The bus it goes to is the one of module Messaging.         *)
(***************************************************************************)
EXTENDS Allowlist, FiniteSets

CONSTANTS
  Tools,                \* threads that send mail of their own: the worker,
                        \* sub-agents, the main thread (/email send)
  Addresses, Patterns,
  Mails,                \* what may arrive (see extract_body)
  Files,                \* contents allowlist.conf may have at first
  Ordered,              \* UID SEARCH answers in ascending order
  FetchFails,           \* a fetch may fail
  MaxMail, MaxCommands, MaxSends, MaxRestarts   \* bounds

NoMail == 0
AllPermutations(S) == {s \in [1..Cardinality(S) -> S] : Range(s) = S}

Dispatcher == "dispatcher"
Senders == Tools \cup {Dispatcher}

ASSUME MailAssumption ==
  /\ Ordered \in BOOLEAN /\ FetchFails \in BOOLEAN
  /\ {MaxMail, MaxCommands, MaxSends, MaxRestarts, MAX_RULES, LINE_RULES}
       \subseteq Nat
  /\ \A p \in Patterns : Split(p) \in Seq(Patterns) /\ Split(p) # <<>>
  /\ Dispatcher \notin Tools

VARIABLES
  lists,                \* the allowlist in memory
  freed,                \* the index of a rule whose pattern is freed, or 0
  file,                 \* allowlist.conf
  cmd, old,             \* the command of the main thread, the text it read
  saved,                \* the last rewrite of the file was reported as done
  torn,                 \* some rewrite of the file was cut short
  inbox,                \* the mail of each UID; nothing is ever marked seen
  poll,                 \* the poll thread
  last_uid,
  last_message_id,      \* whose subject and Message-ID a reply will carry
  processed,            \* UIDs given to process_uid
  published,            \* UIDs on the bus since the start, in order
  sender,               \* what each sending thread does
  commands, sends, restarts

aclVars == <<lists, freed, file, cmd, old, saved, torn, commands>>
pollVars == <<poll, last_uid, last_message_id, processed, published>>
sendVars == <<sender, sends>>
mailVars == <<aclVars, inbox, pollVars, sendVars, restarts>>

email == lists["email"]

----------------------------------------------------------------------------
(* The text of a mail: its sender ("" if there is none), whether its type  *)
(* is multipart with the boundary on the first line of that header, and    *)
(* its parts, each with its type, if it states one, and its text.          *)

\* extract_header and extract_addr.
Sender(mail) == mail.from

\* A part that states no type has that of the next part that does: the search
\* for the header goes on past the end of the part.
PlainParts(mail) ==
  {i \in DOMAIN mail.parts :
     \E j \in DOMAIN mail.parts :
       /\ i <= j /\ mail.parts[j].type = "plain"
       /\ \A k \in i..(j - 1) : mail.parts[k].type = "none"}

\* The first plain part; without a boundary, everything after the headers.
extract_body(mail) ==
  LET plain == PlainParts(mail)
  IN IF ~mail.multipart THEN mail.parts[1].text
     ELSE IF ~mail.boundary THEN "(source)"
     ELSE IF plain = {} THEN "(no plain text body)"
     ELSE mail.parts[CHOOSE i \in plain : \A j \in plain : i <= j].text

----------------------------------------------------------------------------
(* The poll thread *)

Arrive(mail) ==
  /\ Len(inbox) < MaxMail
  /\ inbox' = Append(inbox, mail)
  /\ UNCHANGED <<aclVars, pollVars, sendVars, restarts>>

Idle == [pc |-> "loop", todo |-> <<>>, uid |-> NoMail, i |-> 0]

\* imap_search_unseen: the UIDs of everything in the mailbox.
PollSearch ==
  /\ poll.pc = "loop"
  /\ \E uids \in AllPermutations(DOMAIN inbox) :
       /\ Ordered => \A i \in DOMAIN uids : uids[i] = i
       /\ poll' = [poll EXCEPT !.pc = "next", !.todo = uids]
  /\ UNCHANGED <<aclVars, inbox, last_uid, last_message_id, processed,
                 published, sendVars, restarts>>

\* Only numbers above last_uid are looked at.
PollNext ==
  /\ poll.pc = "next"
  /\ poll' = IF poll.todo = <<>> THEN Idle
             ELSE IF Head(poll.todo) > last_uid
             THEN [poll EXCEPT !.pc = "fetch", !.todo = Tail(@),
                               !.uid = Head(poll.todo)]
             ELSE [poll EXCEPT !.todo = Tail(@)]
  /\ UNCHANGED <<aclVars, inbox, last_uid, last_message_id, processed,
                 published, sendVars, restarts>>

\* Mutant of Processed: last_uid stays as it was.
Processed_stays ==
  /\ poll' = [poll EXCEPT !.pc = "next", !.uid = NoMail, !.i = 0]
  /\ UNCHANGED last_uid
  /\ processed' = processed \cup {poll.uid}

\* Mutant of Processed: last_uid becomes that of the newest mail.
Processed_newest ==
  /\ poll' = [poll EXCEPT !.pc = "next", !.uid = NoMail, !.i = 0]
  /\ last_uid' = Len(inbox)
  /\ processed' = processed \cup {poll.uid}

\* process_uid has returned: poll_fn moves last_uid on, whatever it did.
Processed ==
  /\ poll' = [poll EXCEPT !.pc = "next", !.uid = NoMail, !.i = 0]
  /\ last_uid' = IF poll.uid > last_uid THEN poll.uid ELSE last_uid
  /\ processed' = processed \cup {poll.uid}

Empty(mail) == Sender(mail) = "" \/ extract_body(mail) = ""

\* The fetch fails, or there is no sender or no text.
FetchNothing ==
  /\ poll.pc = "fetch"
  /\ FetchFails \/ Empty(inbox[poll.uid])
  /\ Processed
  /\ UNCHANGED <<aclVars, inbox, last_message_id, published, sendVars,
                 restarts>>

\* The reply context is stored before the sender is checked.
Fetch ==
  /\ poll.pc = "fetch"
  /\ ~Empty(inbox[poll.uid])
  /\ last_message_id' = poll.uid
  /\ poll' = [poll EXCEPT !.pc = IF email.enabled THEN "check" ELSE "publish",
                          !.i = 1]
  /\ UNCHANGED <<aclVars, inbox, last_uid, processed, published,
                 sendVars, restarts>>

\* One turn of the loop of allowlist_check.  What a freed pattern matches is
\* anybody's guess.
CheckRule ==
  /\ poll.pc = "check" /\ poll.i <= Len(email.rules)
  /\ \E hit \in IF poll.i = freed THEN BOOLEAN
                ELSE {fnmatch(email.rules[poll.i],
                              Sender(inbox[poll.uid]))} :
       poll' = IF hit THEN [poll EXCEPT !.pc = "publish"]
               ELSE [poll EXCEPT !.i = @ + 1]
  /\ UNCHANGED <<aclVars, inbox, last_uid, last_message_id, processed,
                 published, sendVars, restarts>>

Blocked ==
  /\ poll.pc = "check" /\ poll.i > Len(email.rules)
  /\ Processed
  /\ UNCHANGED <<aclVars, inbox, last_message_id, published, sendVars,
                 restarts>>

PollPublish ==
  /\ poll.pc = "publish"
  /\ published' = Append(published, poll.uid)
  /\ Processed
  /\ UNCHANGED <<aclVars, inbox, last_message_id, sendVars, restarts>>

----------------------------------------------------------------------------
(* Outgoing mail.  Of a message the model keeps whom it goes to and the    *)
(* mail it answers; its subject and headers are those of last_message_id.  *)

\* A thread and its call.  For the properties it remembers whether the rules
\* allowed the address at some moment since the call began (Remember), and
\* whether the check found what it wanted in a freed pattern (stale).
Sending(pc, to, answers, allowed) ==
  [pc |-> pc, to |-> to, answers |-> answers, i |-> 1, allowed |-> allowed,
   stale |-> FALSE]

NotSending == Sending("idle", "", NoMail, FALSE)

\* A call begins: allowlist_check looks whether the list is enabled.
Begin(to, answers) ==
  Sending(IF email.enabled THEN "check" ELSE "send", to, answers,
          allowlist_check(email, to))

\* The list of the addresses changes under the calls.
Remember ==
  sender' = [t \in Senders |-> [sender[t] EXCEPT
               !.allowed = @ \/ allowlist_check(email', sender[t].to)]]

\* The dispatcher brings an answer of the agent to a published mail.
email_send(uid) ==
  /\ sender[Dispatcher].pc = "idle"
  /\ uid \in Range(published)
  /\ sends < MaxSends /\ sends' = sends + 1
  /\ sender' = [sender EXCEPT ![Dispatcher] = Begin(Sender(inbox[uid]), uid)]
  /\ UNCHANGED <<aclVars, inbox, pollVars, restarts>>

\* The tool send_email and /email send ask first (email_channel_is_allowed; a
\* freed pattern may say anything) and call email_channel_send_direct then,
\* which asks again.
SendAsk(t, to) ==
  /\ sender[t].pc = "idle" /\ sends < MaxSends
  /\ sends' = sends + 1
  /\ allowlist_check(email, to) \/ freed # 0
  /\ sender' = [sender EXCEPT ![t] = Sending("asked", to, NoMail, FALSE)]
  /\ UNCHANGED <<aclVars, inbox, pollVars, restarts>>

\* Mutant of email_channel_send_direct: it relies on the first question.
email_channel_send_direct_once(t) ==
  /\ sender[t].pc = "asked"
  /\ sender' = [sender EXCEPT ![t] =
       Sending("send", @.to, NoMail, allowlist_check(email, @.to))]
  /\ UNCHANGED <<aclVars, inbox, pollVars, sends, restarts>>

email_channel_send_direct(t) ==
  /\ sender[t].pc = "asked"
  /\ sender' = [sender EXCEPT ![t] = Begin(@.to, NoMail)]
  /\ UNCHANGED <<aclVars, inbox, pollVars, sends, restarts>>

\* One turn of the loop of allowlist_check, as in CheckRule.
SendCheck(t) ==
  LET s == sender[t] IN
  /\ s.pc = "check" /\ s.i \in DOMAIN email.rules
  /\ \E hit \in IF s.i = freed THEN BOOLEAN ELSE {fnmatch(email.rules[s.i], s.to)} :
       sender' = [sender EXCEPT ![t] =
         IF hit THEN [s EXCEPT !.pc = "send", !.stale = @ \/ s.i = freed]
         ELSE [s EXCEPT !.i = @ + 1]]
  /\ UNCHANGED <<aclVars, inbox, pollVars, sends, restarts>>

\* No rule allows the address.
SendBlocked(t) ==
  /\ sender[t].pc = "check" /\ sender[t].i \notin DOMAIN email.rules
  /\ sender' = [sender EXCEPT ![t] = NotSending]
  /\ UNCHANGED <<aclVars, inbox, pollVars, sends, restarts>>

\* smtp_send has taken the mail to the server, or failed.
smtp_send(t) ==
  /\ sender[t].pc = "send"
  /\ sender' = [sender EXCEPT ![t] = NotSending]
  /\ UNCHANGED <<aclVars, inbox, pollVars, sends, restarts>>

----------------------------------------------------------------------------
(* /email allow, /email deny and /skills reload, in the main thread *)

Command == cmd = "none" /\ commands < MaxCommands /\ commands' = commands + 1

cmd_email_allow(p) ==
  /\ Command
  /\ lists' = allowlist_add(lists, "email", p)
  /\ cmd' = IF lists' = lists THEN "none" ELSE "open"
  /\ Remember
  /\ UNCHANGED <<freed, file, old, saved, torn, inbox, pollVars, sends, restarts>>

\* strcasecmp finds the first such rule, and free() comes first.
cmd_email_deny(p) ==
  /\ Command
  /\ LET hits == {i \in DOMAIN email.rules : email.rules[i] = p}
     IN IF hits = {} THEN cmd' = "none" /\ UNCHANGED freed
        ELSE /\ cmd' = "shift"
             /\ freed' = CHOOSE i \in hits : \A j \in hits : i <= j
  /\ UNCHANGED <<lists, file, old, saved, torn, inbox, pollVars, sendVars,
                 restarts>>

DenyShift ==
  /\ cmd = "shift"
  /\ lists' = [lists EXCEPT !["email"] = allowlist_remove(@, freed)]
  /\ freed' = 0
  /\ cmd' = "open"
  /\ Remember
  /\ UNCHANGED <<file, old, saved, torn, commands, inbox, pollVars, sends, restarts>>

\* The text is read, then fopen "w" empties the file, or fails.
SaveOpen ==
  /\ cmd = "open"
  /\ \/ /\ cmd' = "none" /\ saved' = FALSE
        /\ UNCHANGED <<file, old>>
     \/ /\ cmd' = "write" /\ old' = file /\ file' = <<>>
        /\ UNCHANGED saved
  /\ UNCHANGED <<lists, freed, torn, commands, inbox, pollVars, sendVars, restarts>>

\* Nobody looks at the results of fputs, fprintf and fclose: a text that is cut
\* short is reported as saved.
SaveWrite ==
  /\ cmd = "write"
  /\ \/ file' = SavedEmail(old, email) /\ UNCHANGED torn
     \/ file' \in Torn(SavedEmail(old, email)) /\ torn' = TRUE
  /\ cmd' = "none" /\ saved' = TRUE /\ old' = <<>>
  /\ UNCHANGED <<lists, freed, commands, inbox, pollVars, sendVars, restarts>>

\* The place in the list of UIDs is that of strtok, one for the whole process:
\* /skills reload, in the main thread too, cuts its own words with it, and the
\* poll thread goes on where those end (a word of theirs is no UID).
SkillsReload ==
  /\ poll.todo # <<>>
  /\ Command /\ cmd' = "none"
  /\ poll' = [poll EXCEPT !.todo = <<>>]
  /\ UNCHANGED <<lists, freed, file, old, saved, torn, inbox, last_uid,
                 last_message_id, processed, published, sendVars, restarts>>

----------------------------------------------------------------------------

\* The process ends, at any moment, and is started again: email_channel_create
\* begins with last_uid 0 and no reply context, and what the bus held is gone.
Restart ==
  /\ restarts < MaxRestarts /\ restarts' = restarts + 1
  /\ lists' = allowlist_load(file)
  /\ torn' = (torn \/ cmd = "write")
  /\ freed' = 0 /\ cmd' = "none" /\ old' = <<>> /\ saved' = TRUE
  /\ poll' = Idle /\ last_uid' = 0 /\ last_message_id' = NoMail
  /\ published' = <<>>
  /\ sender' = [t \in Senders |-> NotSending]
  /\ UNCHANGED <<file, commands, inbox, processed, sends>>

MailInit ==
  /\ file \in Files
  /\ lists = allowlist_load(file)
  /\ freed = 0 /\ cmd = "none" /\ old = <<>> /\ saved = TRUE
  /\ torn = FALSE
  /\ inbox = <<>>
  /\ poll = Idle /\ last_uid = 0 /\ last_message_id = NoMail
  /\ processed = {} /\ published = <<>>
  /\ sender = [t \in Senders |-> NotSending]
  /\ commands = 0 /\ sends = 0 /\ restarts = 0

Poll ==
  \/ PollSearch \/ PollNext \/ FetchNothing \/ Fetch \/ CheckRule \/ Blocked
  \/ PollPublish

MailNext ==
  \/ \E m \in Mails : Arrive(m)
  \/ Poll
  \/ \E uid \in DOMAIN inbox : email_send(uid)
  \/ \E t \in Tools : \/ \E a \in Addresses : SendAsk(t, a)
                     \/ email_channel_send_direct(t)
  \/ \E t \in Senders : SendCheck(t) \/ SendBlocked(t) \/ smtp_send(t)
  \/ \E p \in Patterns : cmd_email_allow(p) \/ cmd_email_deny(p)
  \/ DenyShift \/ SaveOpen \/ SaveWrite \/ SkillsReload \/ Restart

MailSpec == MailInit /\ [][MailNext]_mailVars

\* The poll thread runs, and the server answers a search some time.
MailFairSpec == MailSpec /\ WF_mailVars(Poll)

----------------------------------------------------------------------------
(* Properties *)

MailTypeOK ==
  /\ \A t \in Types : /\ Range(lists[t].rules) \subseteq Patterns
                      /\ Len(lists[t].rules) <= MAX_RULES
                      /\ lists[t].enabled \in BOOLEAN
  /\ cmd \in {"none", "shift", "open", "write"}
  /\ freed \in 0..Len(email.rules)
  /\ Range(inbox) \subseteq Mails
  /\ poll.pc \in {"loop", "next", "fetch", "check", "publish"}
  /\ poll.uid \in 0..Len(inbox) /\ last_uid \in 0..Len(inbox)
  /\ last_message_id \in 0..Len(inbox)
  /\ processed \subseteq DOMAIN inbox
  /\ torn \in BOOLEAN
  /\ \A t \in Senders : sender[t].pc \in {"idle", "asked", "check", "send"}

RuleLines == {Header(type) : type \in Types} \cup {Comment, EmailComment}
           \cup [kind : {"allow"}, type : {""}, rules : Seq(Patterns)]

\* What the rewriting takes for granted of the file it finds.
RulesFit == \A f \in Files : f \in Seq(RuleLines) /\ WellFormed(f)

\* ARCHITECTURE.html, "Persists to allowlist.conf [email]": after any commands
\* whose last save was reported as done, the process starts again with the
\* rules it had, of all four lists, when the list fits a line, no write was cut
\* short, and RulesFit.
RestartKeepsRules ==
  [][(restarts' # restarts /\ cmd = "none" /\ saved /\ ~torn /\ Fits(email))
       => lists' = lists]_mailVars

\* The same without the conditions: what "saved" tells the user.
SavedRulesPersist ==
  [][(restarts' # restarts /\ cmd = "none" /\ saved) => lists' = lists]_mailVars

\* Between two starts no mail is given to the agent twice, although the
\* server reports every mail again in every search.
PublishedOnce == IsInjective(published)

\* Every mail that arrives is processed, in ascending or repeated searches and
\* across restarts.
MailIsProcessed ==
  \A uid \in 1..MaxMail : (Len(inbox) >= uid) ~> (uid \in processed)

\* Mail goes only to an address that the rules allowed at some moment since the
\* sending call began, whatever the commands do to them meanwhile; what a check
\* makes of a freed pattern is excepted (NoFreedPattern).
SentIsAllowed ==
  \A t \in Senders :
    sender[t].pc = "send" => sender[t].allowed \/ sender[t].stale

\* email_channel.c, "Refuse to send to addresses not in the [email] allowlist":
\* the rules allow the address while the mail goes out.
SentWhileAllowed ==
  \A t \in Senders :
    sender[t].pc = "send" => allowlist_check(email, sender[t].to)

\* email_channel.c, "Re-uses the Subject: from the original email": an answer
\* carries the subject and the Message-ID of the mail it answers.
ReplyIsThreaded ==
  \A t \in Senders : sender[t].pc = "send" /\ sender[t].answers # NoMail
                       => last_message_id = sender[t].answers

\* email_channel.c, "search UNSEEN messages [...] mark as SEEN": a mail that
\* was processed is not given to the agent again.
SeenStaysSeen ==
  [][poll.pc = "publish" /\ poll'.pc = "next"
       => poll.uid \notin processed]_mailVars

\* email_channel.c, "return the first text/plain part body": what the agent
\* gets of a mail with such a part is that part.
PlainTextDelivered ==
  \A uid \in Range(published) :
    LET parts == inbox[uid].parts
    IN (\E i \in DOMAIN parts : parts[i].type = "plain")
         => \E i \in DOMAIN parts : /\ parts[i].type = "plain"
                                    /\ extract_body(inbox[uid]) = parts[i].text

\* "Publish inbound_msg_t to bus": mail of an allowed sender is not lost.
AllowedMailPublished ==
  restarts = 0 => \A uid \in processed :
    ~Empty(inbox[uid]) /\ allowlist_check(email, Sender(inbox[uid]))
      => uid \in Range(published)

\* A sender that a rule allows is not blocked by the removal of another rule.
CheckAgrees ==
  poll.pc = "check" /\ poll.i > Len(email.rules)
    => ~allowlist_check(email, Sender(inbox[poll.uid]))

\* The check does not read a pattern that was freed.
NoFreedPattern == ~(poll.pc = "check" /\ poll.i = freed)
=============================================================================
