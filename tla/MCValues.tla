------------------------------- MODULE MCValues -------------------------------
(***************************************************************************)
(* The texts of Values; numbers of two, three and four bits for char, int  *)
(* and long; two variables and a parameter, with a const object of the     *)
(* host's and two others.                                                  *)
(***************************************************************************)
EXTENDS Values, TLC

CONSTANTS var1, var2, param, data1, data2, data3, obj1, obj2, fixed

Each(chars) == {<<c>> : c \in chars}
Outline(reader, before, pieces) == [reader |-> reader, before |-> before, pieces |-> pieces]

Integers_ == Outline("literal", <<>>, Each({"0", "1", "8", "x", "b", "f", "u", "l"}))
Reals == Outline("literal", <<>>, Each({"0", "1", ".", "e", "-", "f", "l"}))

Decimals_ == Outline("json", <<>>, Each({"0", "1", "8", "-", "+", ".", "e", " "}))
JsonItems == Outline("json", <<"[">>, Each({"1", "-", ".", "e", ",", "]", " "}))
JsonStrings == Outline("json", <<"\"">>,
  {<<"\"">>, <<"\\">>, <<"u">>, <<"n">>, <<"1">>, <<"1", "1", "1">>, <<"\n">>, <<"x">>})
JsonNested == Outline("json", <<>>,
  Each({"[", "]", "{", "}", ":", ",", "1"}) \cup {<<"\"", "1", "\"">>, <<"t", "r", "u", "e">>})
JsonObjects == Outline("json", <<"{", "\"", "1", "\"", ":">>,
  Each({"}", ":", ",", "1", " ", "{"})
    \cup {<<",", "\"", "1", "\"", ":">>, <<"\"", "\\", "\"">>, <<"n", "u", "l", "l">>})

Elements_ == Outline("list", <<>>, Each({"a", "b", " "}))

Names_ == {var1, var2, param}
Ids_ == {data1, data2, data3}
Objects_ == {obj1, obj2, fixed}
Symmetry == Permutations({var1, var2}) \cup Permutations(Ids_) \cup Permutations({obj1, obj2})

AllOutlines == {Integers_, Reals, Decimals_, JsonItems, JsonStrings, JsonNested, JsonObjects, Elements_}
===============================================================================
