------------------------------- MODULE MCMail -------------------------------
(* Instances of Mail for TLC. *)
EXTENDS Mail

\* The wildcard matches everybody, a pattern with a comma nobody.
PatternMatches == {<<"a", "a">>, <<"*", "a">>, <<"*", "b">>}
AtCommas(p) == IF p = "*,*" THEN <<"*", "*">> ELSE <<p>>

Part(type, text) == [type |-> type, text |-> text]
Simple(from, text) == [from |-> from, multipart |-> FALSE, boundary |-> FALSE,
                       parts |-> <<Part("plain", text)>>]
Multipart(from, boundary) ==
  [from |-> from, multipart |-> TRUE, boundary |-> boundary,
   parts |-> <<Part("html", "page"), Part("plain", "text")>>]

Letters == {Simple("b", "text")}
Plain == {Simple("a", "text"), Simple("b", "text")}
Folded == {Multipart("a", TRUE), Multipart("a", FALSE)}

\* The shipped file in short, and [email] between other sections.
MixedFiles ==
  {<<Comment, EmailComment>>,
   <<Header("path"), Allow(<<"*">>), Header("email"), Comment, Allow(<<"*">>),
     Header("endpoint"), Allow(<<"*">>)>>}
EmailFile == {<<Header("email"), Allow(<<"a">>)>>}
TwoRules == {<<Header("email"), Allow(<<"*", "a">>)>>}
NoFile == {<<>>}

\* The files of the instance are those RestartKeepsRules is stated for.
ASSUME Fitting == RulesFit

\* Files the rewriting is not right for: a header hidden by a comment, and one
\* hidden behind a mention of [email] once the section is gone.
HiddenHeader == {<<Header("email"), Allow(<<"a">>), Comment, Header("path"),
                   Allow(<<"a">>)>>}
HiddenLater == {<<EmailComment, Comment, Header("email"), Allow(<<"a">>),
                  Header("path"), Allow(<<"a">>)>>}
=============================================================================
