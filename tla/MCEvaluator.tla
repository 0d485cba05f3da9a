----------------------------- MODULE MCEvaluator -----------------------------
EXTENDS OptimizedPrograms, Copying, Heaps

I(n) == ConstantNode("int", n, TRUE)
B(b) == ConstantNode("bool", Bit(b), TRUE)
Id(x) == Node("Id", x, <<>>)
Var(x, e) == Node("Equation", "=", <<Node("Var_Decl", x, <<>>), e>>)
Ref(x, e) == Node("Equation", "=", <<Node("Reference", x, <<>>), e>>)
Set(x, e) == Node("Equation", "=", <<Id(x), e>>)
Alias(x, e) == Node("Equation", ":=", <<Id(x), e>>)
Op(op, a, b) == Node("Binary", op, <<a, b>>)
Prefix(op, a) == Node("Prefix", op, <<a>>)
Call(f, args) == Node("Fun_Call", f, args)
Emit(e) == Call("emit", <<e>>)
And(a, b) == Node("Logical_And", "&&", <<a, b>>)
Or(a, b) == Node("Logical_Or", "||", <<a, b>>)
Do(ss) == Node("Block", "", ss)
Noop == Node("Noop", "", <<>>)
Block(s) == IF s.kind = "Block" THEN s ELSE Do(<<s>>)
If(c, a) == Node("If", "", <<c, Block(a), Noop>>)
For(x, to, body) == Node("For", "", <<Var(x, I(0)), Op("<", Id(x), to), Prefix("++", Id(x)), Block(body)>>)
While(c, body) == Node("While", "", <<c, Block(body)>>)
ForEach(x, range, body) == Node("Ranged_For", "", <<Id(x), range, Block(body)>>)
Array(es) == Node("Inline_Array", "", es)
Switch(e, cases) == Node("Switch", "", <<e>> \o cases)
Case(e, body) == Node("Case", "", <<e, Block(body)>>)
Default(body) == Node("Default", "", <<Block(body)>>)
Try(body, handlers) == Node("Try", "", <<Block(body)>> \o handlers)
Catch(text, body) == [kind |-> "Catch", catches |-> text, children |-> <<Block(body)>>]
Lastly(body) == Node("Finally", "", <<Block(body)>>)
Ret(e) == Node("Return", "", <<e>>)
Break == Node("Break", "", <<>>)
Continue == Node("Continue", "", <<>>)
Def(f, params, body) ==
  [kind |-> "Def", class |-> "", name |-> f, params |-> params, body |-> Block(body), children |-> <<>>]
Method(class, f, params, body) == [Def(f, params, body) EXCEPT !.kind = "Method", !.class = class]
Attr(class, x) == [Def(x, <<>>, Noop) EXCEPT !.kind = "Attr_Decl", !.class = class]
Class(name, members) == Node("Class", name, <<Do(members)>>)
Lambda(captures, params, body) ==
  [kind |-> "Lambda", params |-> params, body |-> Block(body),
   children |-> [i \in DOMAIN captures |-> Id(captures[i])]]
Get(o, x) == [kind |-> "Dot_Access", text |-> x, called |-> FALSE, children |-> <<o>>]
Send(o, f, args) == [kind |-> "Dot_Access", text |-> f, called |-> TRUE, children |-> <<o>> \o args]
Put(target, e) == Node("Equation", "=", <<target, e>>)
At(v, i) == Node("Array_Call", "[]", <<v, i>>)
Throw(e) == Call("throw", <<e>>)

(* One function of one parameter, called in a try; a is a variable. *)
Program(body, arg) ==
  Node("File", "",
       << Def("f", <<"x">>, body), Var("a", I(1)), Var("b", B(TRUE)),
          Try(Do(<<Emit(Call("f", <<arg>>)), I(0)>>), <<Catch(<<"e">>, Emit(Id("e")))>>),
          Emit(Id("a")), Id("b") >>)

(* Every jump out of every kind of loop, through every kind of try. *)
Jumps == {Break, Continue, Ret(Id("x")), Throw(Id("x")), Throw(B(TRUE)), Id("nowhere"), Emit(Id("x"))}
Tries ==
  LET catches == {<<Catch(<<>>, h)>> : h \in {Break, Continue, Throw(I(4)), Var("y", Id("x"))}}
                 \cup {<<Catch(<<"e", "int">>, Emit(Id("e"))), Catch(<<"e", "error">>, Do(<<Ret(I(5)), I(0)>>))>>}
      lasts == {<<>>} \cup {<<Lastly(l)>> : l \in {Emit(I(6)), Break, Throw(I(7))}}
  IN {Try(Do(<<Var("y", I(8)), j>>), c \o l) : j \in Jumps, c \in catches, l \in lasts}
Twice(s) == Do(<<If(Op("==", Id("i"), I(0)), s), Emit(Id("i"))>>)
LoopsOver(s) ==
  { For("i", I(2), Twice(s)), For("i", Op("+", Id("x"), I(1)), Twice(s)),
    Do(<<Var("i", Prefix("-", I(1))), While(Op("<", Id("i"), I(1)), Do(<<Prefix("++", Id("i")), Twice(s)>>))>>),
    ForEach("i", Array(<<I(0), Id("x")>>), Twice(s)),
    Do(<<Var("i", I(0)), Switch(Id("x"), <<Case(I(0), Emit(I(0))), Case(I(1), Twice(s)), Default(Emit(I(9)))>>)>>) }
JumpPrograms ==
  {Program(Do(<<l, I(0), Id("x")>>), Id("a")) : l \in UNION {LoopsOver(s) : s \in Jumps \cup Tries}}

(* A jump that leaves a function, into a loop of its caller. *)
CallerPrograms ==
  {Node("File", "",
        << Def("f", <<"x">>, Do(<<j, I(0), Id("x")>>)), Var("a", I(0)),
           While(Op("<", Id("a"), I(2)), Do(<<Prefix("++", Id("a")), Var("y", Call("f", <<Id("a")>>)), Emit(Id("y"))>>)),
           Id("a") >>) : j \in Jumps \ {Id("nowhere")}}

(* What two statements make of a parameter, whatever it was given. *)
Uses == { Set("x", I(5)), Prefix("++", Id("x")), Var("r", Id("x")), Ref("r", Id("x")), Alias("x", Id("a")),
          Set("r", Op("+", Id("x"), I(1))), Set("x", Call("int", <<Id("a")>>)), Node("Var_Decl", "r", <<>>),
          Call("f", <<>>), Do(<<Var("x", I(7)), Set("x", I(8)), Emit(Id("x"))>>),
          If(Prefix("!", B(FALSE)), Set("x", I(2))), If(And(B(TRUE), B(FALSE)), Set("x", I(2))) }
Given == { Id("a"), I(3), Op("+", Id("a"), I(1)), Op("+", I(1), I(1)), Prefix("-", I(3)), Prefix("!", Id("b")),
           Call("int", <<Id("a")>>), Or(Id("b"), Id("a")), And(Id("b"), Id("a")), Call("nowhere", <<Emit(I(0))>>) }
UsePrograms ==
  {Program(Do(<<u1, u2, Id("x")>>), arg) : u1, u2 \in Uses, arg \in Given}

(* What fails, or does nothing, on its own. *)
Void == Call("emit", <<I(0)>>)
Odd == { If(Id("x"), Noop), While(Id("x"), Noop), ForEach("i", Id("x"), Noop),
         Switch(Id("x"), <<Case(B(TRUE), Noop)>>), Call("int", <<B(TRUE)>>), Def("f", <<"x">>, Noop),
         Var("y", Void), ForEach("i", Array(<<Void>>), Noop), For("i", I(0), Emit(Id("i"))), Call("x", <<Id("x")>>),
         Emit(Op("==", Op("==", Id("x"), I(1)), B(TRUE))), Emit(Op("<", Id("x"), B(TRUE))),
         Do(<<Var("c", B(TRUE)), Set("c", B(FALSE)), Emit(Id("c"))>>), Prefix("-", B(TRUE)) }
OddPrograms == {Program(Do(<<s, I(0), Id("x")>>), Id("a")) : s \in Odd}

(* What two statements make of the objects o, p and d, each a parameter. *)
Self == Id("this")
Bump(o) == Prefix("++", Get(o, "n"))
ClassC ==
  Class("C",
    << Attr("C", "n"), Attr("C", "k"),
       Method("C", "C", <<"x">>, Put(Get(Self, "n"), Id("x"))),
       Method("C", "bump", <<"y">>, Do(<<Bump(Self), Ret(Op("+", Get(Self, "n"), Id("y"))), I(0)>>)),
       Method("C", "bumper", <<>>, Lambda(<<"this">>, <<>>, Bump(Self))),
       Method("C", "twice", <<>>, Do(<<Send(Self, "bump", <<I(1)>>), Send(Self, "bump", <<I(1)>>)>>)) >>)
ClassD ==
  Class("D",
    << Method("D", "D", <<>>, Do(<<Ret(I(3)), I(0)>>)), Attr("D", "n"),
       Method("D", "method_missing", <<"name", "v">>, Do(<<Bump(Self), At(Id("v"), I(0))>>)) >>)
New == Call("C", <<I(1)>>)
o == Id("o")
p == Id("p")
d == Id("d")
Changes ==
  { Var("p", o), Ref("p", o), Put(Get(o, "m"), o), Put(Get(o, "m"), New), Put(Get(o, "n"), Id("x")),
    Set("o", p), Set("p", o), Set("o", d), Set("o", Get(o, "m")), Put(Get(o, "z"), Call("D", <<>>)),
    Bump(p), Bump(Get(o, "m")), Emit(Send(o, "twice", <<>>)), Emit(Get(o, "twice")),
    Put(Get(o, "k"), Lambda(<<>>, <<>>, Bump(Self))), Put(Get(o, "k"), Send(p, "bumper", <<>>)),
    Put(Get(o, "k"), Lambda(<<"a">>, <<"x">>, Do(<<Prefix("++", Id("a")), Op("+", Get(Self, "n"), Id("x"))>>))),
    Put(Get(o, "z"), Lambda(<<"o">>, <<>>, Bump(o))), Var("g", Get(o, "k")),
    Emit(Send(o, "k", <<>>)), Emit(Send(o, "k", <<I(2)>>)), Emit(Send(p, "k", <<I(2)>>)),
    Emit(Get(o, "z")), Emit(Send(o, "z", <<>>)), Emit(Get(Get(o, "m"), "n")), Send(o, "set_explicit", <<B(TRUE)>>),
    Var("y", Send(d, "any", <<Id("x")>>)) }
Questions ==
  { Emit(Send(d, "any", <<>>)), Emit(Get(d, "n")), Emit(Send(Id("a"), "f", <<>>)), Emit(Send(Id("a"), "twice", <<>>)),
    Emit(Call("n", <<o>>)), Emit(Call("g", <<I(4)>>)), Send(o, "bump", <<>>) }
ObjectProgram(s1, s2) ==
  Node("File", "",
       << ClassC, ClassD, Def("f", <<"x">>, Ret(Op("+", Self, I(1)))),
          Def("use", <<"x", "o", "p", "a", "d">>, Do(<<s1, s2, I(0)>>)),
          Var("a", I(1)), Var("o", New), Var("p", Call("C", <<Call("int", <<Id("a")>>)>>)), Var("d", Call("D", <<>>)),
          Put(Get(d, "n"), I(0)),
          Try(Do(<<Call("use", <<Op("+", Id("a"), I(1)), o, p, Id("a"), d>>), I(0)>>), <<Catch(<<"e">>, Emit(Id("e")))>>),
          Emit(Get(o, "n")), Emit(Get(p, "n")), Emit(Get(d, "n")), Id("a") >>)
ObjectPrograms == {ObjectProgram(s1, s2) : s1 \in Changes, s2 \in Changes \cup Questions}

MCPrograms == ObjectPrograms \cup JumpPrograms \cup CallerPrograms \cup UsePrograms \cup OddPrograms

(* What the proofs take for granted: the programs' nodes have their children, *)
(* before and after the optimizer, and copying does no harm to heaps in which *)
(* two objects of a class, or one, share Data, and Data share an object.      *)
RECURSIVE NodesOf(_)
NodesOf(n) == {n} \cup UNION {NodesOf(n.children[i]) : i \in DOMAIN n.children}
              \cup (IF n.kind \in Defining THEN NodesOf(n.body) ELSE {})
ASSUME \A pr \in MCPrograms : WellFormed(NodesOf(pr)) /\ WellFormed(NodesOf(Optimize(pr)))

Box(obj, const, temp) == [obj |-> obj, const |-> const, temp |-> temp]
Holder(attrs) == [Object("C") EXCEPT !.attrs = attrs]
Attributes == UNION {[names -> {3, 4}] : names \in SUBSET {"a", "b"}}
Inner == {Value("int", 1), Value("error", 0), Closure(1), Holder([x \in {"a"} |-> 5])}
SmallHeaps ==
  {[data |-> <<Box(1, FALSE, FALSE), Box(q, FALSE, FALSE), Box(i, c, FALSE), Box(j, e, t), Box(4, g, FALSE)>>,
    objs |-> <<Holder(l), Holder(r), v, Value("int", 2)>>] :
     q \in {1, 2}, i, j \in {0, 3}, c, e, t, g \in BOOLEAN, l, r \in Attributes, v \in Inner}
ASSUME \A h \in SmallHeaps : SoundHeap(h) => CopyingKeeps(h)
===============================================================================
