----------------------------- MODULE Allowlist -----------------------------
(***************************************************************************)
(* The allowlists (security/allowlist.c) as operators on values: the rules *)
(* in memory, the lines of allowlist.conf, loading one from the other and  *)
(* rewriting the [email] section.  Module Mail has the state and the       *)
(* threads.                                                                *)
(*                                                                         *)
(* A line is a section header, a line "allow = ...", a comment (which may  *)
(* mention "[email]", as the shipped file does); a missing file is empty.  *)
(* Lines of other kinds add no rule and are left out (a blank one matters  *)
(* only right after a comment, where the rewriting passes over it).  The   *)
(* rules of a file are assumed to fit the 4096 bytes they are put together *)
(* in, and every pattern to have some text besides its commas.             *)
(***************************************************************************)
EXTENDS Integers, SequencesExt

CONSTANTS
  MAX_RULES,            \* rules of one list
  LINE_RULES,           \* rules that fit the line buffer of allowlist_load
  Matches,              \* pairs <<pattern, address>> that fnmatch accepts
  Split(_)              \* what a pattern is between its commas

Types == {"command", "path", "endpoint", "email"}

Header(type) == [kind |-> "header", type |-> type, rules |-> <<>>]
Allow(rules) == [kind |-> "allow", type |-> "", rules |-> rules]
Comment == [kind |-> "comment", type |-> "", rules |-> <<>>]
EmailComment == [Comment EXCEPT !.type = "email"]

allowlist_add(lists, type, pattern) ==
  IF Len(lists[type].rules) >= MAX_RULES THEN lists
  ELSE [lists EXCEPT ![type] = [rules |-> Append(@.rules, pattern),
                                enabled |-> TRUE]]

\* At most this many, from the front.
UpTo(rules, max) ==
  SubSeq(rules, 1, IF Len(rules) < max THEN Len(rules) ELSE max)

\* Line i is in the sections of this type: the last header above says so, and
\* the lines above the first header count as commands.
InSection(file, i, type) ==
  \/ type = "command" /\ \A j \in 1..(i - 1) : file[j].kind # "header"
  \/ \E j \in 1..(i - 1) :
       /\ file[j] = Header(type)
       /\ \A k \in (j + 1)..(i - 1) : file[k].kind # "header"

\* The rules of one type, in the order of the file: what fits the line buffer,
\* of each line "allow = ..." of its sections, until the list is full.
Rules(file, type) ==
  LET got[i \in 0..Len(file)] ==
        IF i = 0 THEN <<>>
        ELSE IF file[i].kind = "allow" /\ InSection(file, i, type)
        THEN got[i - 1] \o UpTo(file[i].rules, LINE_RULES)
        ELSE got[i - 1]
  IN UpTo(got[Len(file)], MAX_RULES)

\* A list is enabled by the first rule it is given.
allowlist_load(file) ==
  [type \in Types |-> [rules |-> Rules(file, type),
                      enabled |-> Rules(file, type) # <<>>]]

fnmatch(pattern, address) == <<pattern, address>> \in Matches

\* The verdict of allowlist_check when nobody changes the list meanwhile.
allowlist_check(list, address) ==
  \/ ~list.enabled
  \/ \E i \in DOMAIN list.rules : fnmatch(list.rules[i], address)

allowlist_remove(list, i) ==
  [rules |-> RemoveAt(list.rules, i), enabled |-> Len(list.rules) > 1]

----------------------------------------------------------------------------
(* allowlist_save_email *)

\* Where the section starts: at a header that follows a newline, else at the
\* first mention of "[email]" at all; 0 when there is none.
EmailStart(file) ==
  LET first(S) == CHOOSE i \in S : \A j \in S : i <= j
      headers == {i \in 2..Len(file) : file[i] = Header("email")}
      mentions == {i \in DOMAIN file : file[i] \in {Header("email"),
                                                    EmailComment}}
  IN IF headers # {} THEN first(headers)
     ELSE IF mentions # {} THEN first(mentions) ELSE 0

\* Mutant of NextSection: the scan does not stop at the next header.
NextSection_end(file, from) == Len(file) + 1

\* The scan from a line on passes over the line that follows a comment without
\* a look, so of a row of comments over every second one, and over a line j
\* right after an odd number of them.
Passed(file, from, j) ==
  \E k \in from..(j - 1) :
    /\ (j - k) % 2 = 1
    /\ \A i \in k..(j - 1) : file[i].kind = "comment"
    /\ k = from \/ file[k - 1].kind # "comment"

\* The first line that is kept after the old section.
NextSection(file, from) ==
  LET stops == {j \in from..Len(file) :
                  file[j].kind = "header" /\ ~Passed(file, from, j)}
                 \cup {Len(file) + 1}
  IN CHOOSE j \in stops : \A k \in stops : j <= k

\* The rules one after the other with commas in between, as strtok will find
\* them: /email allow takes a pattern with commas for one rule.
Tokens(rules) ==
  LET got[i \in 0..Len(rules)] ==
        IF i = 0 THEN <<>> ELSE got[i - 1] \o Split(rules[i])
  IN got[Len(rules)]

\* The text that replaces the file.
SavedEmail(file, list) ==
  LET rules == Tokens(list.rules)
      section == IF rules = <<>> THEN <<>>
                 ELSE <<Header("email"), Allow(rules)>>
      start == EmailStart(file)
  IN IF file = <<>> THEN <<Comment>> \o section
     ELSE IF start = 0 THEN file \o section
     ELSE SubSeq(file, 1, start - 1)
            \o (IF file[start] = EmailComment THEN <<Comment>> ELSE <<>>)
            \o section
            \o SubSeq(file, NextSection(file, start + 1), Len(file))

\* What a write that is cut short may leave of a text: its first lines (a line
\* that is cut in two counts as missing).
Torn(text) == {SubSeq(text, 1, n) : n \in 0..(Len(text) - 1)}

\* Lists that a line of the file can hold, rule by rule.
Fits(list) ==
  /\ Len(list.rules) <= LINE_RULES
  /\ \A i \in DOMAIN list.rules : Split(list.rules[i]) = <<list.rules[i]>>

\* A file the rewriting is right for: one [email] section, which does not end
\* with a comment before the next header, and a mere mention of [email] only
\* inside this section or in comments at the end of the file.
WellFormed(file) ==
  /\ \A i, j \in DOMAIN file :
       file[i] = Header("email") /\ file[j] = Header("email") => i = j
  /\ \A i \in DOMAIN file :
       file[i].kind = "header" /\ InSection(file, i, "email")
         => file[i - 1].kind # "comment"
  /\ \A i \in DOMAIN file :
       file[i] = EmailComment
         => \/ InSection(file, i, "email")
            \/ \A j \in (i + 1)..Len(file) : file[j].kind = "comment"
=============================================================================
