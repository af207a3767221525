------------------------------ MODULE MCMemory ------------------------------
(* Instances of Memory for TLC. *)
EXTENDS Memory, TLC

CONSTANTS s1, s2

Fact(v) == [first |-> v, rest |-> <<>>]

TwoSections == <<"Preferences", "Important Notes">>

\* "preferences", "settings" and a name that matches nothing.
ByName == [in |-> {1}, word |-> None]
ByWord == [in |-> {}, word |-> "Preferences"]
Other == [in |-> {}, word |-> None]

\* The file of the repository: its last line has no newline.
ShippedTemplate ==
  <<Text, Heading("Preferences"), Text, Heading("Important Notes"), Text,
    Unterminated>>
NoLegacy == [f \in {} |-> <<>>]
OneLegacy == "notes.md" :> <<Text>>
AllCategories == {ByName, ByWord, Other}
NameOnly == {ByName}
OtherOnly == {Other}
OneKey == {"k"}
TwoKeys == {"k", "l"}
NoKeys == {}
ColonKey == {"k"}
OneValue == {Fact("v")}
LongValue == {Fact("long value")}
\* The buffer holds the whole of a value, but for the long one.
ClipLong(v) == IF v = "long value" THEN "long" ELSE v
TwoValues == {Fact("v"), Fact("u")}
Long == {"v"}
None_ == {}
OneDay == <<"2026-01-01">>
TwoDays == <<"2026-01-01", "2026-01-02">>

\* The hypothesis of MemoryIsFactMap holds of these texts, wherever the settings
\* that show the known losses are off.
ASSUME Fitting == ColonKeys = {} /\ LongValues = {} /\ ~DiskFull => FactsFit

\* Two sub-agents make the same calls; nothing orders them.  The worker is a
\* sub-agent that is not cancelled: what it does is among their behaviours.
CallersAlike == Permutations({s1, s2})
=============================================================================
