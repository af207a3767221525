------------------------------- MODULE Memory -------------------------------
(***************************************************************************)
(* The files of the directory memory/: MEMORY.md, which the tools          *)
(* memory_store and memory_recall rewrite and read, and HISTORY.md, the    *)
(* log of the process.  Both are read and written from the start of the    *)
(* process on (the template, the history, the migration of legacy files),  *)
(* and a crash may come at any point.                                      *)
(*                                                                         *)
(* A file is a sequence of lines; blank lines are left out.  A line is a   *)
(* heading "## ...", a bullet "- key: value", an entry of the history, or  *)
(* other text.  Of sizes the model keeps what the code tests: the number   *)
(* of lines stands for the number of bytes.                                *)
(*                                                                         *)
(* A sub-agent that runs a tool can be cancelled by its watchdog.  It then *)
(* ends at a cancellation point, which the stdio functions are, and has no *)
(* handler that would give back the mutex it holds.                        *)
(***************************************************************************)
EXTENDS Integers, FiniteSets, SequencesExt

CONSTANTS
  Callers,              \* threads that run tools: the worker and sub-agents
  Subagents,            \* those of them that a watchdog can cancel
  Sections,             \* CANONICAL_SECTIONS, in order
  Categories,           \* what a caller may name: [in, word] (see below)
  Keys, Values,
  ColonKeys,            \* the keys that are not read back from a bullet: with a
                        \* ':', blanks around them, or 512 characters and more
  Clip(_),              \* what is left of a value in a buffer of 512 bytes
  LongValues,           \* values whose bullet fills the buffer of 2048 bytes
  Template,             \* the lines of templates/memory/MEMORY.md
  Legacy,               \* file name -> lines, of the .md files found at first
  Days,                 \* the dates of the calendar, in order
  MAX_FILE_SIZE, BULLET_MAX,
  DiskFull,             \* fputs may write less than it was given
  MaxCalls, MaxBoots, MaxLogs,   \* bounds: tool calls, starts, entries
  None

Main == "main"
MEMORY_FILE == "MEMORY.md"
TMP == "MEMORY.md.tmp"
HISTORY == "HISTORY.md"
Notes == Last(Sections)

Line(kind, key, value) == [kind |-> kind, key |-> key, value |-> value]
Heading(name) == Line("heading", name, "")
Text == Line("text", "", "")
Entry == Line("entry", "", "")
Unterminated == Line("unterminated", "", "")  \* a last line without newline

ASSUME MemoryAssumption ==
  /\ Main \notin Callers /\ None \notin Callers \cup {Main, "stored", "failed"}
  /\ Subagents \subseteq Callers
  /\ ColonKeys \subseteq Keys
  /\ MAX_FILE_SIZE \in Nat /\ BULLET_MAX \in Nat \ {0}
  /\ Sections \in Seq(Range(Sections)) \ {<<>>} /\ Days \in Seq(Range(Days)) \ {<<>>}
  /\ DiskFull \in BOOLEAN
  /\ {MEMORY_FILE, HISTORY} \cap DOMAIN Legacy = {}
  /\ \A v \in Values : v.rest \in Seq(Range(v.rest))

VARIABLES
  dir,                  \* file name -> lines
  mu,                   \* the mutex of the memory: its holder or None
  call,                 \* [Callers \cup {Main} -> the call in progress]
  boot,                 \* where the start of the process is
  migrating,            \* the file migrate_legacy_files is at
  last_date, day,       \* of the history; the calendar
  calls, boots, logs

fileVars == <<dir, mu, call>>
startVars == <<boot, migrating, boots>>
histVars == <<last_date, day, logs>>
memoryVars == <<fileVars, startVars, histVars, calls>>

----------------------------------------------------------------------------
(* The text of MEMORY.md *)

\* A category is known by the canonical names it contains or is contained
\* in, and by the section its keyword stands for, if any.
canonicalise_section(c) ==
  CASE c.in # {} -> Sections[CHOOSE i \in c.in : \A j \in c.in : i <= j]
    [] c.in = {} /\ c.word # None -> c.word
    [] OTHER -> Notes

\* The directory with a file of this name and text, and without one.
Creating(name, text) ==
  [f \in DOMAIN dir \cup {name} |-> IF f = name THEN text ELSE dir[f]]

Removing(name) == Restrict(dir, DOMAIN dir \ {name})

\* A file that is missing or too large reads as an empty one.
read_memory_file ==
  IF MEMORY_FILE \in DOMAIN dir /\ Len(dir[MEMORY_FILE]) <= MAX_FILE_SIZE
  THEN dir[MEMORY_FILE] ELSE <<>>

\* What snprintf leaves of "- key: value" in 2048 bytes.
Bullet(key, value) ==
  LET lines == <<Line("bullet", key, value.first)>> \o value.rest
  IN SubSeq(lines, 1, IF Len(lines) < BULLET_MAX THEN Len(lines)
                                                 ELSE BULLET_MAX)

\* The key a bullet is taken to have: what precedes its first ':'.
existing_key(line) == IF line.key \in ColonKeys THEN "" ELSE line.key

\* Text goes on in a last line that has no newline.
Put(out, lines) ==
  IF out # <<>> /\ lines # <<>> /\ Last(out) = Unterminated
  THEN Append(Front(out), Text) \o Tail(lines) ELSE out \o lines

\* The loop of memory_store over the lines.  A line that fills the buffer is
\* copied with its final NUL: what follows never reaches the file.
ScanLine(s, line, section, key, new) ==
  LET heading == line.kind = "heading"
      ends == heading /\ s.in_target /\ ~s.key_written
      in_target == IF heading THEN line.key = section ELSE s.in_target
      hit == in_target /\ line.kind = "bullet" /\ existing_key(line) = key
      text == (IF ends THEN new ELSE <<>>) \o (IF hit THEN new ELSE <<line>>)
  IN [out |-> IF s.cut THEN s.out ELSE Put(s.out, text),
      in_target |-> in_target,
      key_written |-> s.key_written \/ ends \/ hit,
      section_found |-> s.section_found \/ (heading /\ in_target),
      cut |-> s.cut \/ (~hit /\ line.value \in LongValues)]

ScanStart == [out |-> <<>>, in_target |-> FALSE, key_written |-> FALSE,
              section_found |-> FALSE, cut |-> FALSE]

Scan(content, section, key, new) ==
  LET after[i \in 0..Len(content)] ==
        IF i = 0 THEN ScanStart
        ELSE ScanLine(after[i - 1], content[i], section, key, new)
  IN  after[Len(content)]

\* The new text of MEMORY.md.
Stored(content, section, key, new) ==
  LET s == Scan(content, section, key, new)
  IN IF s.cut \/ s.key_written THEN s.out
     ELSE Put(s.out, (IF s.section_found THEN <<>> ELSE <<Heading(section)>>)
                       \o new)

\* The lines under a heading of the section.
Under(content, section) ==
  {i \in DOMAIN content :
     \E h \in 1..(i - 1) :
       /\ content[h] = Heading(section)
       /\ \A j \in (h + 1)..i : content[j].kind # "heading"}

\* The value of the first bullet with the key.
bullet_value(content, section, key) ==
  LET hits == {i \in Under(content, section) :
                 content[i].kind = "bullet" /\ existing_key(content[i]) = key}
  IN IF hits = {} THEN None
     ELSE content[CHOOSE i \in hits : \A j \in hits : i <= j].value

\* The answer passes through a buffer that may be shorter than the value.
memory_recall(content, section, key) ==
  LET value == bullet_value(content, section, key)
  IN IF value = None THEN None ELSE Clip(value)

----------------------------------------------------------------------------
(* memory_store and memory_recall, as tools and in the migration *)

NoCall == [pc |-> "idle", op |-> None, section |-> None, key |-> None,
           value |-> None, content |-> <<>>, result |-> None]

\* A thread enters memory_store or memory_recall.
Enter(op, section, key, value) ==
  [pc |-> "lock", op |-> op, section |-> section, key |-> key, value |-> value,
   content |-> <<>>, result |-> None]

Running == boot = "running"

\* tool_memory_store, tool_memory_recall: key and value are present.
ToolCall(c) ==
  /\ Running /\ call[c] = NoCall /\ calls < MaxCalls
  /\ calls' = calls + 1
  /\ \E cat \in Categories, k \in Keys :
       \/ \E v \in Values : call' = [call EXCEPT ![c] =
            Enter("store", canonicalise_section(cat), k, v)]
       \/ call' = [call EXCEPT ![c] =
            Enter("recall", canonicalise_section(cat), k, None)]
  /\ UNCHANGED <<dir, mu, startVars, histVars>>

\* Mutant of StoreLock: the file is read before the mutex is taken.
StoreLock_late(c) ==
  /\ call[c].op = "store"
  /\ \/ /\ call[c].pc = "lock"
        /\ call' = [call EXCEPT ![c].pc = "locking",
                                ![c].content = read_memory_file]
        /\ UNCHANGED mu
     \/ /\ call[c].pc = "locking" /\ mu = None
        /\ mu' = c
        /\ call' = [call EXCEPT ![c].pc = "write"]
  /\ UNCHANGED <<dir, startVars, histVars, calls>>

StoreLock(c) ==
  /\ call[c].pc = "lock" /\ call[c].op = "store"
  /\ mu = None
  /\ mu' = c
  /\ call' = [call EXCEPT ![c].pc = "write", ![c].content = read_memory_file]
  /\ UNCHANGED <<dir, startVars, histVars, calls>>

\* What the call of c makes of a text of MEMORY.md.
Update(c, content) ==
  Stored(content, call[c].section, call[c].key,
         Bullet(call[c].key, call[c].value))

\* What fputs may write of a text.
Written(text) ==
  {SubSeq(text, 1, n) :
     n \in {Len(text)} \cup (IF DiskFull THEN 0..Len(text) ELSE {})}

\* write_memory_file, first half: the temporary file.
StoreWrite(c) ==
  /\ call[c].pc = "write"
  /\ \E text \in Written(Update(c, call[c].content)) : dir' = Creating(TMP, text)
  /\ call' = [call EXCEPT ![c].pc = "rename"]
  /\ UNCHANGED <<mu, startVars, histVars, calls>>

StoreRename(c) ==
  /\ call[c].pc = "rename"
  /\ dir' = [f \in (DOMAIN dir \ {TMP}) \cup {MEMORY_FILE} |->
               dir[IF f = MEMORY_FILE THEN TMP ELSE f]]
  /\ call' = [call EXCEPT ![c].pc = "unlock", ![c].result = "stored"]
  /\ UNCHANGED <<mu, startVars, histVars, calls>>

\* Mutant of StoreFails: the error returns without releasing the mutex.
StoreFails_locked(c) ==
  /\ call[c].pc \in {"write", "rename"}
  /\ dir' = IF call[c].pc = "write" THEN dir ELSE Removing(TMP)
  /\ call' = [call EXCEPT ![c].pc = "return", ![c].result = "failed"]
  /\ UNCHANGED <<mu, startVars, histVars, calls>>

\* fopen fails, or rename does and the temporary file is removed.
StoreFails(c) ==
  /\ call[c].pc \in {"write", "rename"}
  /\ dir' = IF call[c].pc = "write" THEN dir ELSE Removing(TMP)
  /\ call' = [call EXCEPT ![c].pc = "unlock", ![c].result = "failed"]
  /\ UNCHANGED <<mu, startVars, histVars, calls>>

StoreUnlock(c) ==
  /\ call[c].pc = "unlock"
  /\ mu' = None
  /\ call' = [call EXCEPT ![c].pc = "return"]
  /\ UNCHANGED <<dir, startVars, histVars, calls>>

\* The file is read with the mutex held and searched without.
RecallRead(c) ==
  /\ call[c].pc = "lock" /\ call[c].op = "recall"
  /\ mu = None
  /\ LET r == call[c]
     IN call' = [call EXCEPT ![c].pc = "return",
          ![c].result = memory_recall(read_memory_file, r.section, r.key)]
  /\ UNCHANGED <<dir, mu, startVars, histVars, calls>>

\* A cancelled sub-agent ends while it reads MEMORY.md, or while it writes the
\* temporary file, in both cases with the mutex.
Cancel(c) ==
  /\ c \in Subagents
  /\ \/ call[c].pc = "lock" /\ mu = None /\ UNCHANGED dir
     \/ /\ call[c].pc = "write"
        /\ \/ UNCHANGED dir
           \/ \E text \in {<<>>} \cup Written(Update(c, call[c].content)) :
                dir' = Creating(TMP, text)
  /\ mu' = c
  /\ call' = [call EXCEPT ![c].pc = "dead"]
  /\ UNCHANGED <<startVars, histVars, calls>>

Return(c) ==
  /\ call[c].pc = "return"
  /\ call' = [call EXCEPT ![c] = NoCall]
  /\ UNCHANGED <<dir, mu, startVars, histVars, calls>>

----------------------------------------------------------------------------
(* HISTORY.md *)

\* ensure_file and detect_last_date.
history_create ==
  /\ boot = "history"
  /\ LET file == IF HISTORY \in DOMAIN dir THEN dir[HISTORY] ELSE <<Text>>
         dates == {i \in DOMAIN file : file[i].kind = "heading"}
     IN /\ dir' = Creating(HISTORY, file)
        /\ last_date' = IF dates = {} THEN None
                        ELSE file[CHOOSE i \in dates :
                                    \A j \in dates : i >= j].key
  /\ boot' = "log"
  /\ UNCHANGED <<mu, call, migrating, boots, day, logs, calls>>

\* fopen "a" creates the file when it is gone, without its header.
history_log ==
  LET file == IF HISTORY \in DOMAIN dir THEN dir[HISTORY] ELSE <<>>
      date == IF Days[day] # last_date THEN <<Heading(Days[day])>> ELSE <<>>
  IN /\ dir' = Creating(HISTORY, file \o date \o <<Entry>>)
     /\ last_date' = Days[day]

LogTurn ==
  /\ Running /\ logs < MaxLogs
  /\ history_log
  /\ logs' = logs + 1
  /\ UNCHANGED <<mu, call, startVars, day, calls>>

Midnight ==
  /\ day < Len(Days)
  /\ day' = day + 1
  /\ UNCHANGED <<fileVars, startVars, last_date, logs, calls>>

----------------------------------------------------------------------------
(* The start of the process *)

BootStep(from, to) ==
  /\ boot = from /\ boot' = to
  /\ UNCHANGED <<mu, call, migrating, calls, day, logs>>

\* templates_seed: the file is created, then filled; a template that cannot
\* be read is skipped, a file that is there is kept.
MemorySeed ==
  /\ boots < MaxBoots /\ boots' = boots + 1
  /\ \/ /\ MEMORY_FILE \notin DOMAIN dir
        /\ dir' = Creating(MEMORY_FILE, <<>>)
        /\ BootStep("off", "copy")
     \/ BootStep("off", "history") /\ UNCHANGED dir
  /\ UNCHANGED last_date

BootCopy ==
  /\ BootStep("copy", "history")
  /\ dir' = [dir EXCEPT ![MEMORY_FILE] = Template]
  /\ UNCHANGED <<last_date, boots>>

BootLog ==
  /\ BootStep("log", "create")
  /\ history_log
  /\ UNCHANGED boots

\* memory_create and create_initial_memory.
BootCreate ==
  /\ IF MEMORY_FILE \in DOMAIN dir
     THEN BootStep("create", "migrate") /\ UNCHANGED dir
     ELSE BootStep("create", "fill") /\ dir' = Creating(MEMORY_FILE, <<>>)
  /\ UNCHANGED <<last_date, boots>>

create_initial_memory ==
  /\ BootStep("fill", "migrate")
  /\ dir' = [dir EXCEPT ![MEMORY_FILE] =
                <<Text>> \o [i \in DOMAIN Sections |-> Heading(Sections[i])]]
  /\ UNCHANGED <<last_date, boots>>

\* migrate_legacy_files: the .md files that are not MEMORY.md.
LegacyFiles == DOMAIN dir \ {MEMORY_FILE, TMP}

MigrateRead(f) ==
  /\ boot = "migrate" /\ f \in LegacyFiles
  /\ boot' = "unlink" /\ migrating' = f
  /\ call' = [call EXCEPT ![Main] =
       IF dir[f] = <<>> THEN [NoCall EXCEPT !.pc = "return"]
       ELSE Enter("store", Notes, f, [first |-> "", rest |-> dir[f]])]
  /\ UNCHANGED <<dir, mu, boots, histVars, calls>>

\* The file goes whatever memory_store has returned.
MigrateUnlink ==
  /\ boot = "unlink" /\ call[Main].pc = "return"
  /\ dir' = Removing(migrating)
  /\ call' = [call EXCEPT ![Main] = NoCall]
  /\ boot' = "migrate" /\ migrating' = None
  /\ UNCHANGED <<mu, boots, histVars, calls>>

BootDone ==
  /\ LegacyFiles = {}
  /\ BootStep("migrate", "running")
  /\ UNCHANGED <<dir, last_date, boots>>

\* The process ends, by a crash or otherwise, at any point.
Crash ==
  /\ boot # "off"
  /\ boot' = "off" /\ migrating' = None
  /\ mu' = None /\ call' = [c \in DOMAIN call |-> NoCall]
  /\ last_date' = None
  /\ UNCHANGED <<dir, boots, day, logs, calls>>

----------------------------------------------------------------------------

MemoryInit ==
  /\ dir = Legacy
  /\ mu = None /\ call = [c \in Callers \cup {Main} |-> NoCall]
  /\ boot = "off" /\ migrating = None
  /\ last_date = None /\ day = 1
  /\ calls = 0 /\ boots = 0 /\ logs = 0

\* What a thread does inside a call.
Serve(c) ==
  \/ StoreLock(c) \/ StoreWrite(c) \/ StoreRename(c) \/ StoreFails(c)
  \/ StoreUnlock(c) \/ RecallRead(c) \/ Cancel(c)

MemoryBoot ==
  \/ MemorySeed \/ BootCopy \/ history_create \/ BootLog \/ BootCreate
  \/ create_initial_memory \/ \E f \in LegacyFiles : MigrateRead(f)
  \/ MigrateUnlink \/ BootDone

MemoryNext ==
  \/ \E c \in Callers : ToolCall(c) \/ Return(c)
  \/ \E c \in Callers \cup {Main} : Serve(c)
  \/ MemoryBoot \/ LogTurn \/ Midnight \/ Crash

MemorySpec == MemoryInit /\ [][MemoryNext]_memoryVars

----------------------------------------------------------------------------
(* Properties *)

TextLines == [kind : {"heading", "bullet", "text", "entry", "unterminated"},
              key : STRING, value : STRING]

MemoryTypeOK ==
  /\ \A f \in DOMAIN dir : dir[f] \in Seq(TextLines)
  /\ mu \in Callers \cup {Main, None}
  /\ \A c \in DOMAIN call :
       call[c].pc \in {"idle", "lock", "write", "rename", "unlock", "return", "dead"}
  /\ boot \in {"off", "copy", "history", "log", "create", "fill", "migrate",
               "unlink", "running"}
  /\ day \in DOMAIN Days

\* The fact that is stored.
Recalled(section, key) == bullet_value(read_memory_file, section, key)

\* The sections that the migration of files does not write to.
Durable == Range(Sections) \ {Notes}

AbstractCall(c) ==
  LET r == call[c]
      fact == <<r.section, r.key>>
  IN IF r.pc = "idle" \/ r.section \notin Durable THEN [op |-> "idle"]
     ELSE IF r.op = "store"
          THEN IF r.result # None THEN [op |-> r.result]
               ELSE [op |-> "store", fact |-> fact, value |-> r.value.first]
     ELSE IF r.pc = "return" THEN [op |-> "recalled", value |-> r.result]
     ELSE [op |-> "recall", fact |-> fact]

Map == INSTANCE FactMap WITH
  Sections <- Durable, Values <- {v.first : v \in Values},
  facts <- [f \in Durable \X Keys |-> Recalled(f[1], f[2])],
  call <- [c \in Callers |-> AbstractCall(c)]

\* For facts of one line and keys without a colon, in a file below the cap:
\* the rewriting of MEMORY.md under the mutex and through a temporary file is
\* an atomic map, with concurrent tools, failing writes, migrations of other
\* files into the same text, sub-agents cancelled in the middle of a store, and
\* a crash at every point.  The map keeps whole values; a recall answers with
\* what its buffer holds of them.  The last section is excepted: see
\* FactsNeverForgotten.
ImplementsMap == Map!Spec

\* The texts of which this is said: no heading of a durable section in the
\* other files or in a date, and in the template all of them, none with a
\* bullet, before the line that has no newline, if there is one.
Headed(text) == \A i \in DOMAIN text : text[i].kind = "heading" => text[i].value = ""
Foreign(text) ==
  Headed(text) /\ \A i \in DOMAIN text :
    text[i] # Unterminated /\ \A s \in Durable : text[i] # Heading(s)

\* The section is open after line i.
OpenAt(text, i, section) ==
  \E h \in 1..i : /\ text[h] = Heading(section)
                  /\ \A j \in (h + 1)..i : text[j].kind # "heading"

\* Only a last line may have no newline; then no durable section is open there,
\* and none is missing.
Closed(text) ==
  \A i \in DOMAIN text : text[i] = Unterminated =>
    /\ i = Len(text)
    /\ \A s \in Durable : /\ ~OpenAt(text, i, s)
                          /\ \E h \in DOMAIN text : text[h] = Heading(s)

FactsFit ==
  /\ ColonKeys = {} /\ LongValues = {} /\ ~DiskFull
  /\ \A v \in Values : v.rest = <<>>
  /\ \A d \in DOMAIN Days : Days[d] \notin Durable
  /\ \A f \in DOMAIN Legacy \ {TMP} : Legacy[f] \in Seq(TextLines) /\ Foreign(Legacy[f])
  /\ Template \in Seq(TextLines) /\ Headed(Template) /\ Closed(Template)
  /\ \A s \in Durable : \A i \in Under(Template, s) : Template[i].kind # "bullet"

\* MEMORY.md is read as a whole.
BelowCap == MEMORY_FILE \in DOMAIN dir => Len(dir[MEMORY_FILE]) <= MAX_FILE_SIZE

\* Whoever waits for the mutex waits for a thread that is on its way to release
\* it, on the failing paths of the write and of the rename too, or for a
\* sub-agent that was cancelled with it: no other path keeps it.
MutexIsReleased ==
  mu # None => \/ call[mu].pc \in {"write", "rename", "unlock"}
               \/ call[mu].pc = "dead" /\ mu \in Subagents

\* subagent.c, "The cancellation point fires inside curl_easy_perform() (the
\* HTTP read) so the provider call is interrupted cleanly": nobody waits for a
\* mutex that went with a thread.
MutexNotLost == mu # None => call[mu].pc # "dead"

\* md_memory.c, "Find and return the value for a key": a recall answers with a
\* value that was stored.
RecalledWhole ==
  \A c \in Callers : call[c].op = "recall" /\ call[c].pc = "return" =>
    call[c].result \in {v.first : v \in Values} \cup {None}

\* A store replaces MEMORY.md by the update of what MEMORY.md holds at that
\* moment (by a part of it on a full disk), although the file was read steps
\* before: what another thread has stored in between is not lost.
StoresUpdateCurrent ==
  [][\A c \in Callers \cup {Main} : StoreRename(c) =>
       dir'[MEMORY_FILE] \in Written(Update(c, read_memory_file))]_memoryVars

\* history.h, "Append-only. Entries are never modified or deleted.": a step
\* leaves HISTORY.md as it is or appends to it.
HistoryAppendOnly ==
  [][(HISTORY \in DOMAIN dir)
       => (HISTORY \in DOMAIN dir'
             /\ IsPrefix(dir[HISTORY], dir'[HISTORY]))]_memoryVars

\* history.h, "HISTORY.md is never injected into the LLM context": MEMORY.md,
\* which is, holds no entry of it.
HistoryNotInContext == \A i \in DOMAIN read_memory_file :
                         read_memory_file[i].kind # "entry"

\* README.md, "`MEMORY.md` and `HISTORY.md` survive restarts": a fact that can
\* be recalled can be recalled later.
FactsNeverForgotten ==
  [][\A s \in Range(Sections), k \in Keys :
       Recalled(s, k) # None => Recalled(s, k)' # None]_memoryVars

\* md_memory.h, "If the key already exists in that section it is updated in
\* place": a section has at most one bullet with a key.
OneBulletPerKey ==
  LET file == read_memory_file
  IN \A s \in Range(Sections) : \A i, j \in Under(file, s) :
       file[i].kind = "bullet" /\ file[j].kind = "bullet"
         /\ file[i].key = file[j].key => i = j

\* md_memory.c, "their content is appended to MEMORY.md [...] and the files
\* are deleted": the text of a legacy file is in one of the two places.
LegacyTextKept ==
  \A f \in DOMAIN Legacy :
    f \in DOMAIN dir \/ Recalled(Notes, f) # None
=============================================================================
