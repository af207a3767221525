------------------------------- MODULE Skills -------------------------------
(***************************************************************************)
(* The skills of the workspace (tools/skills/skills.c) and where they come *)
(* from (core/templates.c).                                                *)
(*                                                                         *)
(* A directory is a sequence of entries [slug, kind, lines] in the order   *)
(* of readdir: kind is "hidden", "file", "dir" (without SKILL.md) or       *)
(* "skill", and lines are those of SKILL.md.  A line is "---", a key with  *)
(* its value, or text.                                                     *)
(***************************************************************************)
EXTENDS Naturals, Sequences, SequencesExt

CONSTANTS
  MAX_SKILLS, MAX_REQUIRES,
  Installed             \* commands on the path and variables that are set

ASSUME SkillsAssumption == {MAX_SKILLS, MAX_REQUIRES} \subseteq Nat

FirstOf(seq, n) == SubSeq(seq, 1, IF Len(seq) < n THEN Len(seq) ELSE n)

\* templates_seed: a skill that ships is copied where the workspace has none;
\* no file is overwritten.
seed_dir(entry, shipped) ==
  LET same == {i \in DOMAIN shipped : /\ shipped[i].slug = entry.slug
                                      /\ shipped[i].kind = "skill"}
  IN  IF entry.kind = "dir" /\ same # {} THEN shipped[Min(same)] ELSE entry

seed_skills(own, shipped) ==
  LET new(e) == /\ e.kind \in {"dir", "skill"}
                /\ \A i \in DOMAIN own : own[i].slug # e.slug
  IN  [i \in DOMAIN own |-> seed_dir(own[i], shipped)]
        \o SelectSeq(shipped, new)

\* The first two "---" open and close the front matter; a later one is text.
SkillLine(sk, line) ==
  CASE line.kind = "---" /\ sk.dashes < 2 -> [sk EXCEPT !.dashes = @ + 1]
    [] line.kind = "key" /\ sk.dashes = 1 ->
         CASE line.key = "name" -> [sk EXCEPT !.name = line.val]
           [] line.key = "always" -> [sk EXCEPT !.always = line.val]
           [] line.key = "requires_bins" ->
                [sk EXCEPT !.bins = FirstOf(line.val, MAX_REQUIRES)]
           [] line.key = "requires_env" ->
                [sk EXCEPT !.env = FirstOf(line.val, MAX_REQUIRES)]
           [] OTHER -> sk
    [] sk.dashes = 2 -> [sk EXCEPT !.content = Append(@, line)]
    [] OTHER -> sk

\* Without a complete front matter the whole file is the content.
parse_skill_file(entry) ==
  LET none == [slug |-> entry.slug, name |-> entry.slug, always |-> FALSE,
               bins |-> <<>>, env |-> <<>>, content |-> <<>>, dashes |-> 0,
               available |-> TRUE]
      sk == FoldLeft(SkillLine, none, entry.lines)
  IN  [sk EXCEPT !.content = IF sk.dashes < 2 THEN entry.lines ELSE @,
                 !.available =
                   Range(sk.bins) \cup Range(sk.env) \subseteq Installed]

skills_scan(dir) ==
  LET loads(e) == e.kind = "skill"
      found == FirstOf(SelectSeq(dir, loads), MAX_SKILLS)
  IN  [i \in DOMAIN found |-> parse_skill_file(found[i])]

\* The whole content of the skills that are always active, a summary of the
\* others.
skills_get_prompt(skills) ==
  LET active(sk) == sk.always /\ sk.available
      on_demand(sk) == ~sk.always
  IN  [active |-> SelectSeq(skills, active),
       summary |-> SelectSeq(skills, on_demand)]

NoPrompt == [active |-> <<>>, summary |-> <<>>]
=============================================================================
