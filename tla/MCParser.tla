------------------------------- MODULE MCParser -------------------------------
(***************************************************************************)
(* The texts of Parser: each outline puts one part of the grammar within   *)
(* reach of a few pieces.                                                  *)
(***************************************************************************)
EXTENDS Parser

Each(tokens) == {<<t>> : t \in tokens}
Outline(before, ps, after) == [before |-> before, pieces |-> ps, after |-> after]

Body == <<"{", "x", "}">>

Expressions == Outline(<<>>, Each({"x", "+", "*", "?", ":", "=", "(", ")", "-"}), <<>>)
Logic == Outline(<<"x">>, Each({"y", "||", "&&", "==", "!", "|", "&", "<", "="}), <<>>)
Ternaries == Outline(<<"x", "?">>, {<<"x">>, <<":">>, <<"?", "x">>, <<"(">>, <<")">>, <<"||", "y">>}, <<"x">>)
Calls == Outline(<<"x">>, Each({"x", "(", ")", "[", "]", ".", ",", "eol"}), <<>>)
Methods == Outline(<<"x", ".">>, {<<"f">>, <<"(", ")">>, <<"(", "x", ",">>, <<"x", ")">>, <<"[", "1", "]">>, <<".">>, <<"eol">>, <<"=">>}, <<"1">>)
Containers == Outline(<<"[">>, Each({"x", "1", "[", "]", ",", ":", "..", "eol"}), <<"]">>)
Conditions == Outline(<<"if", "(", "x">>, {<<")">>, Body, <<"else">>, <<"else", "{", "}">>, <<"if", "(", "y">>, <<"eol">>, <<";">>, <<"{">>, <<"}">>}, Body)
Loops == Outline(<<"for", "(">>, {<<"x">>, <<"var", "x">>, <<";">>, <<":">>, <<")">>, <<"break">>, <<"{">>}, <<")", "{", "}">>)
Whiles == Outline(<<"while">>, {<<"(">>, <<"x">>, <<")">>, <<"eol">>, <<"continue">>, <<"{">>, <<"}">>}, <<"return", "}">>)
Definitions == Outline(<<"def", "f">>, {<<"(">>, <<")">>, <<"x">>, <<",">>, <<"::">>, <<":">>, <<"eol">>, Body}, Body)
Lambdas == Outline(<<"fun">>, {<<"(">>, <<")">>, <<"[">>, <<"]">>, <<"x">>, <<",">>, Body, <<"return">>}, Body)
Classes == Outline(<<"class", "C", "{">>, {<<"attr", "x">>, <<"var">>, <<"y">>, <<"def", "C">>, <<"(", ")">>, Body, <<":", "x">>, <<";">>, <<"class">>, <<"=">>}, <<"}">>)
Tries == Outline(<<"try", "{", "}">>, {<<"catch">>, <<"finally">>, <<"(", "x">>, <<")">>, Body, <<"eol">>, <<"x">>}, <<"{", "}">>)
Switches == Outline(<<"switch", "(", "x", ")", "{">>, {<<"}">>, <<"case">>, <<"(", "1", ")">>, <<"default">>, Body, <<"break">>, <<"eol">>}, <<"}">>)
Declarations == Outline(<<>>, Each({"var", "global", "attr", "x", "y", "&", "=", ";", "::"}), <<>>)

Functions == Outline(<<"def", "f", "(", ")", "{">>,
                     {<<"def", "C">>, <<"(", "x", ")">>, <<"(">>, <<")">>, <<"{">>, <<"}">>, <<"__FUNC__">>, <<"fun">>, <<"x">>, <<";">>},
                     <<"__FUNC__", "}", "}">>)
Members == Outline(<<"class", "C", "{", "def", "f">>,
                   {<<"(", ")">>, <<"{">>, <<"}">>, <<"__CLASS__">>, <<"__FUNC__">>, <<"fun", "(", ")">>, <<";">>, <<"y">>, <<"def", "x">>},
                   <<"{", "__CLASS__", "}", "}">>)

AllOutlines == {Expressions, Logic, Ternaries, Calls, Methods, Containers, Conditions, Loops, Whiles, Definitions,
         Lambdas, Classes, Tries, Switches, Declarations, Functions, Members}
Defs == {Definitions}
===============================================================================
