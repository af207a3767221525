------------------------------- MODULE MCTools -------------------------------
(* Instances of Tools for TLC. *)
EXTENDS Tools

Line(k, v) == [kind |-> k, val |-> v]
ConfVal == <<Line("other", ""), Line("port", "tty"), Line("section", "board"),
             Line("port", "tty"), Line("username", "user"),
             Line("password", "secret"), Line("section", "bare"),
             Line("port", "tty"), Line("section", "full")>>
None == [f \in {} |-> ""]
Args(d, o, c) == [device |-> d, over |-> o, commands |-> c]
CallsVal == {Args("board", None, <<"cmd", "cmd", "cmd">>),
             Args("bare", [username |-> "user", password |-> "wrong"], <<"cmd">>),
             Args("board", [port |-> "", no_login |-> TRUE], <<"">>),
             Args("full", None, <<"cmd">>),
             Args("", None, <<"cmd">>),
             Args("", [port |-> "tty", baud |-> 7], <<"cmd">>)}
BannerNone == <<>>
BannerHash == <<"text#">>

RequestsVal == {<<"ls", 1>>, <<"ls", 0>>, <<"rm", 2>>, <<"", 9>>}

Msg(i, a, p) == [id |-> i, allowed |-> a, pieces |-> p]
MessagesVal == {Msg(1, TRUE, 2)}
TwoMessages == {Msg(1, TRUE, 2), Msg(2, TRUE, 2)}

\* The properties of Serial are checked, and proved, in this setting.
ASSUME Plain == PlainDevice
=============================================================================
