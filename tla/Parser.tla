-------------------------------- MODULE Parser --------------------------------
(***************************************************************************)
(* ChaiScript_Parser at work: the productions of Grammar run over a text,  *)
(* with the position and the match stack they share, and the tree that     *)
(* results.  The text grows by a piece at a time.                          *)
(***************************************************************************)
EXTENDS Grammar, FiniteSets, SequencesExt

CONSTANTS
  Outlines,       (* what a text begins with, grows by, and ends with       *)
  MaxPieces,      (* bound: the pieces of a text                            *)
  MaxRulePieces   (* bound: the pieces every production is tried on         *)

VARIABLES
  outline,        (* what the text is made of                               *)
  pieces,         (* those between its beginning and its end                *)
  parsed          (* what parse makes of it                                 *)

vars == <<outline, pieces, parsed>>

Productions ==
  [ Arg |-> Arg, Untyped_Arg |-> Untyped_Arg, Id_Arg_List |-> Id_Arg_List,
    Decl_Arg_List |-> Decl_Arg_List, Arg_List |-> Arg_List,
    Container_Arg_List |-> Container_Arg_List, Lambda |-> Lambda, Def |-> Def,
    Class_Def |-> Class_Def, CatchClause |-> CatchClause, FinallyClause |-> FinallyClause,
    Try |-> Try, If |-> If, Class |-> Class, Nested_Class |-> Nested_Class, While |-> While,
    For_Guards |-> For_Guards, Range_Expression |-> Range_Expression, For |-> For, Case |-> Case, Switch |-> Switch, Class_Block |-> Class_Block, Block |-> Block,
    Return |-> Return, Break |-> Break, Continue |-> Continue, Dot_Fun_Array |-> Dot_Fun_Array,
    Var_Decl |-> Var_Decl, Class_Var_Decl |-> Class_Var_Decl, Paren_Expression |-> Paren_Expression,
    Inline_Container |-> Inline_Container, Reference |-> Reference, Prefix |-> Prefix,
    Value_Range |-> Value_Range, Map_Pair |-> Map_Pair, Equation |-> Equation, Value |-> Value,
    Statements |-> StatementsOf("Nested_Class", "Statements", "Unseparated"),
    Unseparated |-> UnseparatedOf("Nested_Class", "Statements"),
    File_Statements |-> StatementsOf("Class", "File_Statements", "File_Unseparated"),
    File_Unseparated |-> UnseparatedOf("Class", "File_Statements") ]
  @@ [ l \in {Levels[n] : n \in 1..11} |-> Operator(CHOOSE n \in 1..11 : Levels[n] = l) ]
-----------------------------------------------------------------------------
(* The parser: the input, the next token, m_match_stack, the result of the *)
(* last step, whether something was thrown, and the class being read.      *)
Start(input) ==
  [input |-> input, at |-> 1, stack |-> <<>>, ok |-> TRUE, thrown |-> FALSE, class |-> ""]

Node(kind, label, at, children) == [kind |-> kind, label |-> label, at |-> at, children |-> children]
Made(kind, label) == Node(kind, label, 0, <<>>)   (* not from a token        *)

Peek(s) == IF s.at <= Len(s.input) THEN s.input[s.at] ELSE "end"
Yes(s) == [s EXCEPT !.ok = TRUE]
No(s) == [s EXCEPT !.ok = FALSE]
Thrown(s) == [s EXCEPT !.thrown = TRUE, !.ok = FALSE]
Pushed(s, node) == [Yes(s) EXCEPT !.stack = Append(@, node)]
Read(s, kind, label) == [Pushed(s, Node(kind, label, s.at, <<>>)) EXCEPT !.at = @ + 1]

(* build_match: the nodes from a stack position on become the children.    *)
Built(s, kind, label, from) ==
  LET node == Node(kind, label, 0, SubSeq(s.stack, from + 1, Len(s.stack)))
  IN [Yes(s) EXCEPT !.stack = Append(SubSeq(@, 1, from), node)]

(* __FUNC__ and __CLASS__ look for the beginnings of a Def on the stack,   *)
(* from its top down, and keep the last they meet.                         *)
Beginnings(s, kinds) ==
  {i \in 0 .. Len(s.stack) - Len(kinds) : \A k \in DOMAIN kinds : s.stack[i + k].kind = kinds[k]}
Name(s, kinds, none) ==
  IF Beginnings(s, kinds) = {} THEN none ELSE s.stack[Min(Beginnings(s, kinds)) + 1].label

(* Id: any word is one, also a keyword that nothing before has taken.      *)
ReadId(s, validate) ==
  LET word == Peek(s)
      label == CASE word = "__FUNC__" -> Name(s, <<"Id", "Arg_List">>, "NOT_IN_FUNCTION")
                 [] word = "__CLASS__" -> Name(s, <<"Id", "Id", "Arg_List">>, "NOT_IN_CLASS")
                 [] OTHER -> word
  IN CASE word \notin Names \cup Keywords \cup Constants -> No(s)
       [] validate /\ word \in ReservedWords -> Thrown(s)
       [] OTHER -> Read(s, IF word \in Constants THEN "Constant" ELSE "Id", label)

(* A call of what follows a dot is moved under the dot.                    *)
MethodCall(s) ==
  LET call == Last(s.stack)
      dot == Head(call.children)
  IN IF dot.kind # "Dot_Access" THEN Yes(s)
     ELSE [Yes(s) EXCEPT !.stack = Append(Front(@),
             [dot EXCEPT !.children = Append(Front(@),
                [call EXCEPT !.children = <<Last(dot.children)>> \o Tail(@)])])]

(* The kind of a container is its first element's.                         *)
ContainerKind(s, from) ==
  LET inner == IF Len(s.stack) # from /\ Last(s.stack).children # <<>>
               THEN Head(Last(s.stack).children).kind ELSE "none"
  IN CASE inner = "Value_Range" -> "Inline_Range"
       [] inner = "Map_Pair" -> "Inline_Map"
       [] OTHER -> "Inline_Array"

(* Line ends are skipped if a dot follows them, else none of them.         *)
DotOnNextLine(s) ==
  LET dots == { i \in s.at + 1 .. Len(s.input) :
                  s.input[i] = "." /\ \A j \in s.at .. i - 1 : s.input[j] \in {"eol", ";"} }
  IN IF dots = {} THEN No(s) ELSE [Yes(s) EXCEPT !.at = CHOOSE i \in dots : TRUE]

(* Value_Range and Map_Pair go back to where they began.                    *)
(* ReadAgain forgets what they pushed.                                     *)
ReadAgain(s, frame) == [No(s) EXCEPT !.at = frame.at]
TakenBack(s, frame) == [No(s) EXCEPT !.at = frame.at, !.stack = SubSeq(@, 1, frame.top)]

(* A step of a production that began at the stack height and position of   *)
(* `frame'.                                                                *)
RECURSIVE Run(_, _, _), RunAll(_, _, _), RunFirst(_, _, _), RunStar(_, _, _)

Run(p, s, frame) ==
  CASE p.op = "token" -> IF Peek(s) \in p.tokens THEN [Yes(s) EXCEPT !.at = @ + 1] ELSE No(s)
    [] p.op = "rule" -> Run(Productions[p.name], s, [top |-> Len(s.stack), at |-> s.at])
    [] p.op = "all" -> RunAll(p.steps, s, frame)
    [] p.op = "first" -> RunFirst(p.steps, s, frame)
    [] p.op = "must" -> LET r == Run(p.step, s, frame) IN IF r.ok THEN r ELSE Thrown(r)
    [] p.op = "star" -> RunStar(p.step, s, frame)
    [] p.op = "yes" -> Yes(s)
    [] p.op = "no" -> No(s)
    [] p.op = "throw" -> Thrown(s)
    [] p.op = "undo" -> TakenBack(s, frame)
    [] p.op = "id" -> ReadId(s, p.validate)
    [] p.op = "literal" -> IF Peek(s) \in Literals THEN Read(s, "Constant", Peek(s)) ELSE No(s)
    [] p.op = "push" -> Pushed(s, IF p.kind = "Class_Name" THEN Made("Id", s.class) ELSE Made(p.kind, ""))
    [] p.op = "build" -> Built(s, p.kind, p.label, frame.top + p.from)
    [] p.op = "pad" -> IF Len(s.stack) - frame.top = p.count - 1 THEN Pushed(s, Made("Noop", "")) ELSE Yes(s)
    [] p.op = "exactly" -> IF Len(s.stack) - frame.top = p.count THEN Yes(s) ELSE Thrown(s)
    [] p.op = "class" -> [Yes(s) EXCEPT !.class = Last(s.stack).label]
    [] p.op = "method" -> MethodCall(s)
    [] p.op = "container" -> Built(s, ContainerKind(s, frame.top), "", frame.top)
    [] p.op = "dot_on_next_line" -> DotOnNextLine(s)

RunAll(ps, s, frame) ==
  IF ps = <<>> THEN Yes(s)
  ELSE LET r == Run(Head(ps), s, frame) IN IF r.ok THEN RunAll(Tail(ps), r, frame) ELSE r

RunFirst(ps, s, frame) ==
  IF ps = <<>> THEN No(s)
  ELSE LET r == Run(Head(ps), s, frame) IN IF r.ok \/ r.thrown THEN r ELSE RunFirst(Tail(ps), r, frame)

RunStar(p, s, frame) ==
  LET r == Run(p, s, frame)
  IN IF r.thrown THEN r ELSE IF r.ok THEN RunStar(p, r, frame) ELSE Yes(r)

RunRule(name, input) == Run(Rule(name), Start(input), [top |-> 0, at |-> 1])

(* parse_internal: a text of statements and nothing else, or a Noop.       *)
Rejected == [tree |-> Made("Noop", ""), accepted |-> FALSE, end |-> 0]
Parse(input) ==
  LET s == RunRule("File_Statements", input)
  IN CASE s.thrown \/ (s.ok /\ s.at <= Len(input)) -> Rejected
       [] s.ok -> [tree |-> Head(Built(s, "File", "", 0).stack), accepted |-> TRUE, end |-> s.at]
       [] OTHER -> [tree |-> Head(Pushed(s, Made("Noop", "")).stack), accepted |-> TRUE, end |-> s.at]
-----------------------------------------------------------------------------
Text(o, ps) == o.before \o FlattenSeq(ps) \o o.after
text == Text(outline, pieces)

Init ==
  /\ outline \in Outlines
  /\ pieces = <<>>
  /\ parsed = Parse(text)

Extend ==
  \E piece \in outline.pieces :
    /\ Len(pieces) < MaxPieces
    /\ pieces' = Append(pieces, piece)
    /\ parsed' = Parse(Text(outline, pieces'))
    /\ UNCHANGED outline

Next == Extend
Spec == Init /\ [][Next]_vars
-----------------------------------------------------------------------------
(* Every node of the tree below and including n.                           *)
RECURSIVE Below(_)
Below(n) == {n} \cup UNION {Below(n.children[i]) : i \in DOMAIN n.children}

(* The words of the tree from left to right, by their place in the text.   *)
RECURSIVE Leaves(_)
Leaves(n) == IF n.at # 0 THEN <<n.at>> ELSE FlattenSeq([i \in DOMAIN n.children |-> Leaves(n.children[i])])

IsWord(i) == text[i] \in Names \cup Literals

(* Text that is accepted is in the tree, all of it and in its order: no    *)
(* production drops, repeats or moves a word, whatever it tried before     *)
(* (Value_Range and Map_Pair take back what they read; Dot_Fun_Array       *)
(* rebuilds a method call from nodes already on the stack).  The exception *)
(* is a text no statement starts: parse_internal accepts that unread.      *)
WordsInOrder ==
  parsed.accepted =>
    \/ parsed.tree.kind = "Noop"
    \/ /\ parsed.end = Len(text) + 1
       /\ SelectSeq(Leaves(parsed.tree), IsWord) = SelectSeq([i \in DOMAIN text |-> i], IsWord)

(* The productions that yield one node or nothing, and those of a list,    *)
(* which are an Arg_List in any case.                                      *)
Lists == {"Id_Arg_List", "Decl_Arg_List", "Arg_List"}
Yielding == DOMAIN Productions \ (Lists \cup {"Container_Arg_List", "For_Guards", "Range_Expression",
              "Statements", "Unseparated", "File_Statements", "File_Unseparated"})

(* A production that succeeds leaves exactly one node more on the match    *)
(* stack; one that fails, and does not throw, leaves the input and the     *)
(* stack as they were: its caller goes on to another production, and       *)
(* build_match would take what was left for a child of some other node.    *)
(* Not so those whose callers know better.  An empty list fails, and       *)
(* leaves its Arg_List, but Container_Arg_List none, and the line ends     *)
(* skipped: the caller asks for the closing bracket next.  For_Guards      *)
(* leaves three nodes, or fails and leaves what it read; For, which is one *)
(* node or throws, counts them.  Range_Expression may eat its colon.       *)
OneNodeOrNothing ==
  Len(pieces) <= MaxRulePieces =>
    LET After(name) == RunRule(name, FlattenSeq(pieces) \o outline.after)
    IN /\ \A name \in Yielding :
            LET s == After(name)
            IN s.thrown \/ IF s.ok THEN Len(s.stack) = 1 ELSE s.stack = <<>> /\ s.at = 1
       /\ \A name \in Lists :
            LET s == After(name)
            IN s.thrown \/ (Len(s.stack) = 1 /\ s.ok = (s.stack[1].children # <<>>))
       /\ LET s == After("Container_Arg_List") IN s.thrown \/ Len(s.stack) = IF s.ok THEN 1 ELSE 0
       /\ LET s == After("For_Guards")
          IN s.thrown \/ IF s.ok THEN Len(s.stack) = 3 ELSE Len(s.stack) \in 0 .. 2

(* The reading of an expression by splitting it: at the first assignment,  *)
(* else at the last operator of the lowest level outside all parentheses,  *)
(* else a prefix, parentheses or a word.  Within parentheses the code      *)
(* reads an Operator, so no assignment.                                    *)
InfixOperators == UNION {Range(OperatorMatches[n]) : n \in 1 .. 11}
Unreadable == Made("Unreadable", "")
Occurrences(t, i, j) == Cardinality({k \in i .. j : text[k] = t})
Of(kind, label, parts) ==
  IF Unreadable \in Range(parts) THEN Unreadable ELSE Node(kind, label, 0, parts)

RECURSIVE Reading(_, _)
Reading(i, j) ==
  LET outside == {k \in i .. j : Occurrences("(", i, k - 1) = Occurrences(")", i, k - 1)}
      assigned == {k \in outside : text[k] \in Range(Assignments)}
      infix == {k \in outside \ {i} : IsWord(k - 1) \/ text[k - 1] = ")"}
      Level(n) == {k \in infix : text[k] \in Range(OperatorMatches[n])}
      levels == {n \in 1 .. 11 : Level(n) # {}}
      lowest == Min(levels)
      split == Max(Level(lowest))
      colons == {k \in outside : k > split /\ text[k] = ":"}
  IN CASE i > j -> Unreadable
       [] assigned # {} ->
            LET k == Min(assigned) IN Of("Equation", text[k], <<Reading(i, k - 1), Reading(k + 1, j)>>)
       [] assigned = {} /\ 1 \in levels ->
            IF Cardinality(colons) # 1 THEN Unreadable
            ELSE LET c == Min(colons)
                 IN Of("If", "", <<Reading(i, split - 1), Reading(split + 1, c - 1), Reading(c + 1, j)>>)
       [] assigned = {} /\ levels # {} /\ 1 \notin levels ->
            Of(CASE lowest = 2 -> "Logical_Or" [] lowest = 3 -> "Logical_And" [] OTHER -> "Binary",
               text[split], <<Reading(i, split - 1), Reading(split + 1, j)>>)
       [] assigned = {} /\ levels = {} /\ i <= j ->
            CASE text[i] \in Range(PrefixOperators) -> Of("Prefix", text[i], <<Reading(i + 1, j)>>)
              [] text[i] = "(" /\ text[j] = ")" ->
                   LET inner == Reading(i + 1, j - 1) IN IF inner.kind = "Equation" THEN Unreadable ELSE inner
              [] i = j /\ IsWord(i) -> Node(IF text[i] \in Names THEN "Id" ELSE "Constant", text[i], i, <<>>)
              [] OTHER -> Unreadable

(* Operators bind by their level, those of a level from the left (the      *)
(* ternary too), assignments from the right, and every text that reads as  *)
(* an expression is accepted, for all mixtures of operators, prefixes and  *)
(* parentheses: the eleven mutually recursive levels of Operator, Value    *)
(* and Equation against the reading above.                                 *)
OperatorsBind ==
  (/\ text # <<>>
   /\ \A i \in DOMAIN text :
        /\ text[i] \in Names \cup Literals \cup InfixOperators \cup Range(Assignments) \cup {"-", "!", "(", ")", ":"}
        /\ text[i] = "(" /\ i > 1 => ~IsWord(i - 1) /\ text[i - 1] # ")")
  => LET reading == Reading(1, Len(text))
     IN parsed.tree = IF reading = Unreadable THEN Made("Noop", "") ELSE Node("File", "", 0, <<reading>>)

(* The children a node of a kind has, as chaiscript_eval.hpp reads them.   *)
TakesTwo == {"Equation", "Binary", "Logical_Or", "Logical_And", "Array_Call", "Value_Range", "Map_Pair",
            "While", "Case", "Class", "Attr_Decl", "Fun_Call", "Dot_Access"}
TakesOne == {"Prefix", "Default", "Finally", "Reference", "Var_Decl", "Global_Decl"}

(* An else after the block of another else of the same if, which the loop  *)
(* over the else parts takes for one more.                                 *)
SecondElse ==
  \E i, j \in DOMAIN text :
    LET Beside(k) == i < k /\ Occurrences("{", i, k) = Occurrences("}", i, k)
    IN /\ text[i] = "else" /\ text[j] = "else" /\ Beside(j)
       /\ \A k \in i .. j : text[k] = "if" => ~Beside(k)

FitsItsKind(n) ==
  LET c == n.children
      Kind(i) == c[i].kind
      Parts(ks) == Len(c) = Len(ks) /\ \A i \in DOMAIN ks : ks[i] \in {"", Kind(i)}
  IN /\ n.kind \in TakesTwo => Len(c) = 2
     /\ n.kind \in TakesOne => Len(c) = 1
     /\ n.kind = "Fun_Call" => Kind(2) = "Arg_List"
     /\ n.kind = "Lambda" => Parts(<<"Arg_List", "Arg_List", "Block">>)
     /\ n.kind = "Ranged_For" => Parts(<<"", "", "Block">>)
     /\ n.kind = "For" => Parts(<<"", "", "", "Block">>)
     /\ n.kind = "Class" => Parts(<<"Id", "Block">>)
     /\ n.kind = "Block" => c # <<>>
     /\ n.kind = "If" => Len(c) = 3 \/ (SecondElse /\ Len(c) > 3)
     /\ n.kind = "Switch" => \A i \in 2 .. Len(c) : Kind(i) \in {"Case", "Default"}
     /\ n.kind = "Try" =>
          /\ Kind(1) = "Block"
          /\ \A i \in 2 .. Len(c) : Kind(i) = "Catch" \/ (i = Len(c) /\ Kind(i) = "Finally")
     /\ n.kind = "Catch" => Parts(<<"Block">>) \/ Parts(<<"Arg", "Block">>)
     /\ n.kind = "Def" => Kind(1) = "Id" /\ Kind(Len(c)) = "Block" /\ Len(c) \in 2 .. 4
     /\ n.kind = "Method" => Kind(2) = "Id" /\ Kind(Len(c)) = "Block" /\ Len(c) \in 3 .. 5
     /\ n.kind = "Inline_Array" => Len(c) <= 1
     /\ n.kind = "Inline_Map" => \A i \in DOMAIN c[1].children : c[1].children[i].kind = "Map_Pair"
     /\ n.kind = "Inline_Range" => Len(c[1].children) = 1 /\ c[1].children[1].kind = "Value_Range"

(* The nodes of a function that are not those of one defined within it.    *)
RECURSIVE Own(_)
Own(n) == {n} \cup UNION { Own(c) : c \in { d \in Range(n.children) : d.kind \notin {"Def", "Method"} } }

NamedAfter(n, word, name) ==
  \A leaf \in Own(n) : leaf.at # 0 /\ text[leaf.at] = word => leaf.label = name
FunctionsAreNamed ==
  \A statement \in Range(parsed.tree.children) :
    LET members == IF statement.kind = "Class" THEN Range(statement.children[2].children) ELSE {}
        methods == {n \in members : n.kind = "Method" /\ n.children[3].kind = "Arg_List"}
    IN /\ statement.kind = "Def" /\ statement.children[2].kind = "Arg_List"
            => NamedAfter(statement, "__FUNC__", statement.children[1].label)
       /\ \A method \in methods :
            /\ NamedAfter(method, "__FUNC__", method.children[2].label)
            /\ NamedAfter(method, "__CLASS__", statement.children[1].label)

(* Every node of an accepted text has the children its eval_internal reads *)
(* without asking (children[1], children.back(), the asserted counts): the *)
(* parser and the evaluator agree on the trees, for statements cut short,  *)
(* empty blocks and missing guards.  A second else is left out: its if has *)
(* four children, against the assertion of three (chaiscript_eval.hpp:850).*)
(* Among the children are the constants of __FUNC__ and __CLASS__: in a    *)
(* function or method of the file that has a parameter list they are its   *)
(* name and its class's, whatever it holds and what is before it, though   *)
(* both are found by the kinds of the nodes that happen to be on the match *)
(* stack.  In a def within it they are the outer one's names, against      *)
(* cheatsheet.md:580, so that is left out.                                 *)
EvaluatorCanRead ==
  /\ parsed.accepted => \A n \in Below(parsed.tree) : FitsItsKind(n)
  /\ FunctionsAreNamed

(* Def_AST_Node::has_guard with its offset of 1: what of a definition is   *)
(* moved to m_guard_node.                                                  *)
HasGuard(n) ==
  IF Len(n.children) > 3 /\ n.children[3].kind = "Arg_List" THEN Len(n.children) > 4 ELSE Len(n.children) > 3

(* A guard that was written is the guard of the function.                  *)
GuardsAreKept ==
  parsed.accepted =>
    \A n \in Below(parsed.tree) :
      LET beforeBody == n.children[Len(n.children) - 1]
      IN n.kind = "Def" /\ Len(n.children) > 2 /\ beforeBody.kind # "Arg_List" => HasGuard(n)
===============================================================================
