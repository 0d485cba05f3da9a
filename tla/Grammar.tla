------------------------------- MODULE Grammar -------------------------------
(***************************************************************************)
(* The productions of chaiscript_parser.hpp as data, for the interpreter   *)
(* in Parser.  A production is built from the steps the C++ functions are  *)
(* written in: && and || short-circuit, `while' loops, throws, tokens and  *)
(* build_match.  A step that fails restores nothing, as in the code; where *)
(* the code does restore the position it is the step Undo.                 *)
(*                                                                         *)
(* A token is what Char, Symbol, Keyword, Id_, Num, the quoted strings and *)
(* Eol_ take from the input with the blanks and comments before it: "eol"  *)
(* is a line end.  Tokens are taken as separated; where two symbols touch  *)
(* Symbol may refuse the first.                                            *)
(***************************************************************************)
EXTENDS Naturals, Sequences

CONSTANTS
  Names,      (* identifiers                                                *)
  Literals    (* numbers, strings and characters                            *)

(* Steps.                                                                  *)
Token(ts) == [op |-> "token", tokens |-> ts]
Rule(name) == [op |-> "rule", name |-> name]
All(ps) == [op |-> "all", steps |-> ps]           (* p && q && ...         *)
First(ps) == [op |-> "first", steps |-> ps]       (* p || q || ...         *)
Must(p) == [op |-> "must", step |-> p]            (* if (!p) throw         *)
Star(p) == [op |-> "star", step |-> p]            (* while (p) {}          *)
Opt(p) == First(<<p, [op |-> "yes"]>>)            (* p with its result     *)
                                                  (* ignored               *)
Fail == [op |-> "no"]                             (* return false          *)
Id(validate) == [op |-> "id", validate |-> validate]
Literal == [op |-> "literal"]
Throw == [op |-> "throw"]
Undo == [op |-> "undo"]
Push(kind) == [op |-> "push", kind |-> kind]
BuildText(kind, label) == [op |-> "build", kind |-> kind, label |-> label, from |-> 0]
Build(kind) == BuildText(kind, "")
BuildFrom(kind, n) == [op |-> "build", kind |-> kind, label |-> "", from |-> n]
PadTo(n) == [op |-> "pad", count |-> n]           (* Noop as last child    *)
Exactly(n) == [op |-> "exactly", count |-> n]     (* else throw            *)

Eol == Token({"eol", ";"})
Eols == Star(Eol)
Eoses == Star(Token({"eol"}))
SkipLines == Star(Token({"eol"}))                 (* SkipWS(true)          *)
Chars(c) == Token({c})
-----------------------------------------------------------------------------
Keywords == {"def", "fun", "while", "for", "if", "else", "auto", "return", "break", "class",
             "attr", "var", "global", "try", "catch", "finally", "switch", "case", "default",
             "continue"}
Constants == {"true", "__FUNC__", "__CLASS__"}
ReservedWords == {"def", "fun", "while", "for", "if", "else", "auto", "return", "break", "true",
                  "class", "attr", "var", "global", "__FUNC__", "__CLASS__"}

OperatorMatches ==
  << <<"?">>, <<"||">>, <<"&&">>, <<"|">>, <<"^">>, <<"&">>, <<"==", "!=">>,
     <<"<", "<=", ">", ">=">>, <<"<<", ">>">>, <<"+", "-">>, <<"*", "/", "%">> >>
PrefixOperators == <<"++", "--", "-", "+", "!", "~">>
Assignments == <<"=", ":=", "+=", "-=", "*=", "/=", "%=", "<<=", ">>=", "&=", "^=", "|=">>

(* A list of p separated by commas and line ends, after a first one.  An   *)
(* empty list is a node, too, and false: no caller looks at the result.    *)
More(p) == <<Eols, Star(All(<<Chars(","), Eols, Must(p)>>))>>
List(p) ==
  All(<<SkipLines,
        First(<< All(<<p>> \o More(p) \o <<Build("Arg_List"), SkipLines>>),
                 All(<<Build("Arg_List"), SkipLines, Fail>>) >>)>>)

Arg == All(<<Id(TRUE), Opt(Id(TRUE)), Build("Arg")>>)
Untyped_Arg == All(<<Id(TRUE), Build("Arg")>>)
Id_Arg_List == List(Rule("Untyped_Arg"))
Decl_Arg_List == List(Rule("Arg"))
Arg_List == List(Rule("Equation"))

Container_Arg_List ==
  LET Full == <<Build("Arg_List"), SkipLines>>
  IN All(<<SkipLines,
           First(<< All(<<Rule("Value_Range")>> \o Full),
                    All(<<Rule("Map_Pair")>> \o More(Rule("Map_Pair")) \o Full),
                    All(<<Rule("Operator")>> \o More(Rule("Operator")) \o Full),
                    All(<<SkipLines, Fail>>) >>)>>)

Parameters == All(<<Opt(Rule("Decl_Arg_List")), Must(Chars(")"))>>)

Lambda ==
  All(<<Chars("fun"),
        First(<< All(<<Chars("["), Opt(Rule("Id_Arg_List")), Must(Chars("]"))>>), Build("Arg_List") >>),
        Must(Chars("(")), Parameters, Eols, Must(Rule("Block")), Build("Lambda")>>)

(* What follows the name in Def: parameters, a guard, the body.            *)
DefTail ==
  All(<<Opt(All(<<Chars("("), Parameters>>)), Eoses,
        Opt(All(<<Chars(":"), Must(Rule("Operator"))>>)), Eols, Must(Rule("Block"))>>)

Def ==
  All(<<Chars("def"), Must(Id(TRUE)),
        First(<< All(<<Chars("::"), Must(Id(TRUE)), DefTail, Build("Method")>>),
                 All(<<DefTail, Build("Def")>>) >>)>>)

Class_Def ==
  All(<<Chars("def"), Push("Class_Name"), Must(Id(TRUE)),
        Opt(All(<<Chars("::"), Must(Id(TRUE))>>)), DefTail, Build("Method")>>)

CatchClause ==
  All(<<Chars("catch"),
        Opt(All(<<Chars("("), Must(All(<<Rule("Arg"), Chars(")")>>))>>)),
        Eols, Must(Rule("Block")), Build("Catch")>>)

FinallyClause == All(<<Chars("finally"), Eols, Must(Rule("Block")), Build("Finally")>>)

Try ==
  All(<<Chars("try"), Eols, Must(Rule("Block")),
        Star(All(<<Eols, Rule("CatchClause")>>)), Eols,
        Opt(Rule("FinallyClause")), Build("Try")>>)
-----------------------------------------------------------------------------
(* The blocks of an if, from its closing parenthesis on.                   *)
IfTail ==
  All(<<Must(Chars(")")), Eols, Must(Rule("Block")),
        Star(All(<<Eols, Chars("else"),
                   First(<<Rule("If"), All(<<Eols, Must(Rule("Block"))>>)>>)>>))>>)

If ==
  All(<<Chars("if"), Must(Chars("(")), Must(Rule("Equation")),
        First(<< All(<<Eol, Rule("Equation"), IfTail, PadTo(4), BuildFrom("If", 1), Build("Block")>>),
                 All(<<IfTail, PadTo(3), Build("If")>>) >>)>>)

Class ==
  All(<<Chars("class"), Must(Id(TRUE)), [op |-> "class"], Eols, Must(Rule("Class_Block")), Build("Class")>>)
Nested_Class == All(<<Chars("class"), Throw>>)

(* ( condition ), then the block.                                          *)
Guarded == All(<<Must(Chars("(")), Must(All(<<Rule("Operator"), Chars(")")>>)), Eols>>)

While == All(<<Chars("while"), Guarded, Must(Rule("Block")), Build("While")>>)

Range_Expression == All(<<Chars(":"), Rule("Equation")>>)

(* Fails at the colon of a ranged for, with the variable on the stack.     *)
For_Guards ==
  All(<<First(<<All(<<Rule("Equation"), Eol>>), All(<<Eol, Push("Noop")>>)>>),
        First(<<All(<<Rule("Equation"), Eol>>), All(<<Eol, Push("Constant")>>)>>),
        First(<<Rule("Equation"), Push("Noop")>>)>>)

ForTail == All(<<Eols, Must(Rule("Block"))>>)

For ==
  All(<<Chars("for"), Must(Chars("(")),
        First(<< All(<<Rule("For_Guards"), Chars(")"), ForTail, Exactly(4), Build("For")>>),
                 All(<<Must(All(<<Rule("Range_Expression"), Chars(")")>>)),
                       ForTail, Exactly(3), Build("Ranged_For")>>) >>)>>)

Case ==
  First(<< All(<<Chars("case"), Guarded, Must(Rule("Block")), Build("Case")>>),
           All(<<Chars("default"), Eols, Must(Rule("Block")), Build("Default")>>) >>)

Switch ==
  All(<<Chars("switch"), Guarded, Must(Chars("{")), Eols,
        Star(All(<<Rule("Case"), Eols>>)), Eols, Must(Chars("}")), Build("Switch")>>)

Class_Block ==
  All(<<Chars("{"), Star(First(<<Rule("Class_Def"), Rule("Class_Var_Decl"), Eol>>)),
        Must(Chars("}")), PadTo(1), Build("Block")>>)

BlockUnpadded ==
  All(<<Chars("{"), Opt(Rule("Statements")), Must(Chars("}")), Build("Block")>>)
Block == All(<<Chars("{"), Opt(Rule("Statements")), Must(Chars("}")), PadTo(1), Build("Block")>>)

Return == All(<<Chars("return"), Opt(Rule("Operator")), Build("Return")>>)
Break == All(<<Chars("break"), Build("Break")>>)
Continue == All(<<Chars("continue"), Build("Continue")>>)
-----------------------------------------------------------------------------
Dot_Fun_Array ==
  All(<<First(<<Rule("Lambda"), Literal, Rule("Paren_Expression"), Rule("Inline_Container"), Id(FALSE)>>),
        Star(First(<<
          All(<<Chars("("), Opt(Rule("Arg_List")), Must(Chars(")")), Build("Fun_Call"), [op |-> "method"]>>),
          All(<<Chars("["), Must(All(<<Rule("Operator"), Chars("]")>>)), Build("Array_Call")>>),
          All(<<Chars("."), Must(Id(TRUE)), Exactly(2), Build("Dot_Access")>>),
          [op |-> "dot_on_next_line"] >>))>>)

Class_Var_Decl ==
  First(<< All(<<Token({"attr", "auto", "var"}), Push("Class_Name"), Must(Id(TRUE)), Build("Attr_Decl")>>),
           Rule("Var_Decl") >>)

Var_Decl ==
  First(<< All(<<Token({"auto", "var"}),
                 First(<<Rule("Reference"), Must(All(<<Id(TRUE), Build("Var_Decl")>>))>>)>>),
           All(<<Chars("global"), Must(First(<<Rule("Reference"), Id(TRUE)>>)), Build("Global_Decl")>>),
           All(<<Chars("attr"), Must(Id(TRUE)), Must(Chars("::")), Must(Id(TRUE)), Build("Attr_Decl")>>) >>)

Paren_Expression == All(<<Chars("("), Must(Rule("Operator")), Must(Chars(")"))>>)

Inline_Container ==
  All(<<Chars("["), Opt(Rule("Container_Arg_List")), Must(Chars("]")), [op |-> "container"]>>)

Reference == All(<<Chars("&"), Must(Id(TRUE)), Build("Reference")>>)

Prefix ==
  First([i \in DOMAIN PrefixOperators |->
           All(<<Chars(PrefixOperators[i]), Must(Rule("Value")), BuildText("Prefix", PrefixOperators[i])>>)])

Value == First(<<Rule("Var_Decl"), Rule("Dot_Fun_Array"), Rule("Prefix")>>)

(* Operator(t_precedence): 1 is the ternary, 12 a value.                   *)
Levels == <<"Operator", "Or", "And", "Bitwise_Or", "Bitwise_Xor", "Bitwise_And", "Equality",
            "Comparison", "Shift", "Addition", "Multiplication", "Value">>

BuildOperator(oper) ==
  CASE oper = "?" -> All(<<Must(Chars(":")), Must(Rule(Levels[2])), Build("If")>>)
    [] oper = "||" -> BuildText("Logical_Or", oper)
    [] oper = "&&" -> BuildText("Logical_And", oper)
    [] OTHER -> BuildText("Binary", oper)

OperatorFromTheRight(n) ==
  LET next == Rule(Levels[n + 1])
  IN All(<<next,
           Star(First([i \in DOMAIN OperatorMatches[n] |->
                         All(<<Chars(OperatorMatches[n][i]), Eols, Must(Rule(Levels[n])),
                               BuildOperator(OperatorMatches[n][i])>>)]))>>)
Operator(n) ==
  LET next == Rule(Levels[n + 1])
  IN All(<<next,
           Star(First([i \in DOMAIN OperatorMatches[n] |->
                         All(<<Chars(OperatorMatches[n][i]), Eols, Must(next),
                               BuildOperator(OperatorMatches[n][i])>>)]))>>)

Value_Range ==
  All(<<Rule("Operator"),
        First(<<All(<<Chars(".."), Must(Rule("Operator")), Build("Value_Range")>>), Undo>>)>>)

Map_PairKept ==
  All(<<Rule("Operator"), Chars(":"), Must(Rule("Operator")), Build("Map_Pair")>>)
Map_Pair ==
  All(<<Rule("Operator"),
        First(<<All(<<Chars(":"), Must(Rule("Operator")), Build("Map_Pair")>>), Undo>>)>>)

Equation ==
  All(<<Rule("Operator"),
        Opt(First([i \in DOMAIN Assignments |->
                     All(<<Chars(Assignments[i]), SkipLines, Must(Rule("Equation")),
                           BuildText("Equation", Assignments[i])>>)]))>>)
-----------------------------------------------------------------------------
(* Statements' loop: saw_eol is whether the last turn left a separator.    *)
Definition(class) == First(<<Rule("Def"), Rule("Try"), Rule("If"), Rule("While"), Rule(class),
                             Rule("For"), Rule("Switch")>>)
Expression == First(<<Rule("Return"), Rule("Break"), Rule("Continue"), Rule("Equation")>>)
Separator == First(<<Rule("Block"), Eol>>)

StatementsOf(class, self, after) ==
  First(<< All(<<Definition(class), Opt(Rule(self))>>), All(<<Expression, Opt(Rule(after))>>),
           All(<<Separator, Opt(Rule(self))>>) >>)
UnseparatedOf(class, self) ==
  First(<< All(<<Definition(class), Throw>>), All(<<Expression, Throw>>),
           All(<<Separator, Opt(Rule(self))>>) >>)
===============================================================================
