------------------------------ MODULE MCOverloads ------------------------------
(* Overloads with a few C++ and script functions over two numbers, two base *)
(* classes and a class derived from both.                                  *)
EXTENDS Overloads

CONSTANTS t1, Object, Number, int, double, A, B, V, p

MCThreads == {t1}
MCBare == {Object, Number, int, double, A, B, V}
MCBefore == (int :> 1) @@ (double :> 2) @@ (A :> 3) @@ (V :> 4) @@ (B :> 5)
            @@ (Number :> 6) @@ (Object :> 7)
MCConverts == {<<A, V>>, <<B, V>>}

Value(b) == [bare |-> b, form |-> "value"]
Ref(b) == [bare |-> b, form |-> "ref"]
ConstRef(b) == [bare |-> b, form |-> "cref"]
Cpp(params) == [script |-> FALSE, guard |-> None, variadic |-> FALSE, params |-> params]
Def(guard, params) == [script |-> TRUE, guard |-> guard, variadic |-> FALSE, params |-> params]
Variadic == [script |-> TRUE, guard |-> None, variadic |-> TRUE, params |-> <<>>]

MCPool ==
  { Cpp(<<>>), Cpp(<<Value(int)>>), Cpp(<<Value(double)>>), Cpp(<<ConstRef(A)>>), Cpp(<<Ref(A)>>),
    Cpp(<<Value(int), ConstRef(A)>>), Cpp(<<Value(int), ConstRef(B)>>), Cpp(<<Value(int), Value(Object)>>),
    Def(p, <<>>), Def(p, <<Value(Object)>>), Def(None, <<Value(Object)>>), Def(None, <<Value(V), Value(Object)>>),
    Variadic }

Arg(b) == [bare |-> b, const |-> FALSE]
ConstArg(b) == [bare |-> b, const |-> TRUE]
MCArgs ==
  { <<>>, <<Arg(int)>>, <<ConstArg(double)>>, <<Arg(A)>>, <<ConstArg(A)>>, <<ConstArg(V)>>,
    <<Arg(int), Arg(V)>>, <<Arg(double), Arg(A)>>, <<Arg(V), Arg(int)>> }
===============================================================================
