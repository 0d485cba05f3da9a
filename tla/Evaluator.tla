------------------------------- MODULE Evaluator -------------------------------
(* The evaluation of a program's nodes (language/chaiscript_eval.hpp) in one  *)
(* thread. A C++ call of a node's eval is a frame; what is thrown (return,    *)
(* break, continue, an exception of the script or the engine) unwinds the     *)
(* frames one by one, and with each its scopes, as the destructors do.        *)
(*                                                                            *)
(* A node has a kind, children, and a text or what stands for it (val, const; *)
(* catches; name, params, body). A Boxed_Value is the index of its Data,      *)
(* which says what object it holds (0: none, it is undefined) and whether it  *)
(* is const or temporary (m_return_value); several Data may share an object.  *)
(* Two constants written alike are one node; of the functions of a name, at   *)
(* most one takes the arguments of a call. Globals, guards and overloads are  *)
(* in other modules; classes and members in Objects.                          *)
EXTENDS Integers, Sequences, SequencesExt, FiniteSets, TLC

CONSTANTS
  Programs,  \* the programs, each a File node
  Garbage,   \* an integer: what is read where an object used to be
  CanCopy(_, _), Copy(_, _),                  \* whether Data can be cloned, and the heap with the clone
  CanOverwrite(_, _, _), Overwrite(_, _, _)   \* the same of an assignment of one Data's value to another's;
                                              \* both follow an object's attributes (Copying)

VARIABLES
  frames,   \* the active nodes, the innermost last
  stacks,   \* Stack_Holder::stacks; a scope is a sequence of [name, data]
  data,     \* the Data of all Boxed_Values
  objs,     \* the objects they hold
  consts,   \* the Data of the Constant nodes evaluated so far
  funs,     \* the functions defined so far
  lambdas,  \* the function objects made by Lambda nodes
  ctl,      \* what goes on: a node runs, or the innermost frame is left
  log       \* the effects the host sees

vars == <<frames, stacks, data, objs, consts, funs, lambdas, ctl, log>>
Heap == <<data, objs>>
Rest == <<consts, funs, lambdas, log>>

Node(kind, text, children) == [kind |-> kind, text |-> text, children |-> children]

-----------------------------------------------------------------------------
(* Values and scopes *)

(* v is the number, or 1 for true; elems the Data of a vector's elements. *)
(* A function is the index of its lambda, which has the Data it captured;     *)
(* attrs are an object's attributes, by name.                                 *)
Value(type, v) == [type |-> type, v |-> v, elems |-> <<>>]
Closure(i) == Value("fun", i)
Object(class) == [type |-> "object", v |-> 0, elems |-> <<>>, class |-> class, attrs |-> <<>>, explicit |-> FALSE]
Truth(b) == Value("bool", IF b THEN 1 ELSE 0)
Nothing == Value("undef", 0)
ValIn(heap, d) == IF heap.data[d].obj = 0 THEN Nothing ELSE heap.objs[heap.data[d].obj]
Here == [data |-> data, objs |-> objs]
With(f, x, v) == [y \in DOMAIN f \cup {x} |-> IF y = x THEN v ELSE f[y]]
Val(d) == ValIn(Here, d)
VoidVar == 1

Current == Last(stacks)
SetCurrent(stack) == [stacks EXCEPT ![Len(stacks)] = stack]
Binding(name, d) == [name |-> name, data |-> d]
Scoped(scope) == SetCurrent(Append(Current, scope))
Unscoped(n) == SubSeq(Current, 1, Len(Current) - n)
Bind(name, d) == SetCurrent([Current EXCEPT ![Len(Current)] = Append(@, Binding(name, d))])
Bound(scope, name) == \E i \in DOMAIN scope : scope[i].name = name
Resolves(name) == \E s \in DOMAIN Current : Bound(Current[s], name)
Resolve(name) ==
  LET s == CHOOSE s \in DOMAIN Current :
             Bound(Current[s], name) /\ \A r \in s+1..Len(Current) : ~Bound(Current[r], name)
      i == CHOOSE i \in DOMAIN Current[s] : Current[s][i].name = name
  IN Current[s][i].data

-----------------------------------------------------------------------------
(* Frames: how they begin, end, and are left *)

Run == [kind |-> "run", d |-> VoidVar]

(* Its node; what its children returned; where it is; the scopes it pushed,   *)
(* and whether it pushed a stack; what its finally throws again; and, for the *)
(* properties alone, the stacks when it began.                                *)
Frame(n, s) == [node |-> n, vals |-> <<>>, phase |-> "start", at |-> 0, scopes |-> 0, call |-> FALSE,
                pending |-> Run, base |-> s]
Top == Last(frames)
Child(i) == Top.node.children[i]
Running(kinds) == ctl.kind = "run" /\ frames # <<>> /\ Top.node.kind \in kinds
InPhase(kinds, phases) == Running(kinds) /\ Top.phase \in phases
Thrown(whats, kinds) == ctl.kind \in whats /\ frames # <<>> /\ Top.node.kind \in kinds

Enter(f, n, s) ==
  /\ frames' = Append([frames EXCEPT ![Len(frames)] = f], Frame(n, s))
  /\ stacks' = s /\ ctl' = Run

Left ==
  LET s == IF Top.call THEN Front(stacks) ELSE stacks
  IN [s EXCEPT ![Len(s)] = SubSeq(@, 1, Len(@) - Top.scopes)]
Return(d, s) ==
  LET outer == Front(frames) IN
  /\ frames' = IF outer = <<>> THEN <<>> ELSE [outer EXCEPT ![Len(outer)].vals = Append(@, d)]
  /\ ctl' = IF outer = <<>> THEN [kind |-> "value", d |-> d] ELSE Run
  /\ stacks' = s
End(d) == Return(d, Left)

NewData(v, const, temp) ==
  /\ data' = Append(data, [obj |-> Len(objs) + 1, const |-> const, temp |-> temp])
  /\ objs' = Append(objs, v)
EndNew(v, const, temp) == NewData(v, const, temp) /\ End(Len(data) + 1)

(* Of the classes of exceptions the engine throws, the model has one. *)
Raise(kind, d) == ctl' = [kind |-> kind, d |-> d] /\ UNCHANGED <<frames, stacks>>
RaiseErrorIn(heap) ==
  /\ data' = Append(heap.data, [obj |-> Len(heap.objs) + 1, const |-> TRUE, temp |-> FALSE])
  /\ objs' = Append(heap.objs, Value("error", 0))
  /\ Raise("throw", Len(heap.data) + 1)
RaiseError == RaiseErrorIn(Here)

-----------------------------------------------------------------------------
(* Operands: the children a node evaluates first, one after the other. An     *)
(* equation evaluates its right side before its left.                         *)

Calls == {"Fun_Call", "Unused_Return_Fun_Call"}
Callers == Calls \cup {"Dot_Access"}
Operands(n) ==
  CASE n.kind \in Callers \cup {"Binary", "Inline_Array", "Array_Call", "Lambda", "Return"} -> n.children
    [] n.kind \in {"Prefix", "Fold_Right"} -> <<n.children[1]>>
    [] n.kind = "Assign_Decl" -> <<n.children[2]>>
    [] n.kind = "Equation" -> <<n.children[2], n.children[1]>>
    [] OTHER -> <<>>
Evaluated(kinds) == InPhase(kinds, {"start"}) /\ Len(Top.vals) = Len(Operands(Top.node))

EvalOperand ==
  /\ ctl.kind = "run" /\ frames # <<>> /\ Top.phase = "start"
  /\ Len(Top.vals) < Len(Operands(Top.node))
  /\ Top.node.kind = "Inline_Array" => Top.at = Len(Top.vals)
  /\ Enter(Top, Operands(Top.node)[Len(Top.vals) + 1], stacks)
  /\ UNCHANGED <<Heap, Rest>>

-----------------------------------------------------------------------------
(* Leaves and declarations *)

EvalConstant ==
  /\ Running({"Constant"}) /\ UNCHANGED <<funs, lambdas, log>>
  /\ LET c == Top.node IN
     \/ c \in DOMAIN consts /\ End(consts[c]) /\ UNCHANGED <<Heap, consts>>
     \/ c \notin DOMAIN consts /\ EndNew(c.val, c.const, FALSE) /\ consts' = With(consts, c, Len(data) + 1)

EvalNoop == Running({"Noop"}) /\ End(VoidVar) /\ UNCHANGED <<Heap, Rest>>

EvalId ==
  /\ Running({"Id"}) /\ UNCHANGED Rest
  /\ \/ Resolves(Top.node.text) /\ End(Resolve(Top.node.text)) /\ UNCHANGED Heap
     \/ ~Resolves(Top.node.text) /\ RaiseError

EvalDeclaration ==
  /\ Running({"Var_Decl", "Reference"}) /\ UNCHANGED Rest
  /\ \/ /\ ~Bound(Last(Current), Top.node.text)
        /\ data' = Append(data, [obj |-> 0, const |-> FALSE, temp |-> FALSE])
        /\ Return(Len(data) + 1, Bind(Top.node.text, Len(data) + 1)) /\ UNCHANGED objs
     \/ Bound(Last(Current), Top.node.text) /\ RaiseError

(* clone_if_necessary: a temporary is taken over and is one no longer, what   *)
(* has a clone is cloned. The Data and objects that result, and the handle.   *)
CanClone(d) == CanCopy(Here, d)

Cloned(d) ==
  IF data[d].temp THEN [data |-> [data EXCEPT ![d].temp = FALSE], objs |-> objs, d |-> d] ELSE Copy(Here, d)

EvalAssignDecl ==
  /\ Evaluated({"Assign_Decl"}) /\ UNCHANGED Rest
  /\ LET name == Child(1).text
         c == Cloned(Top.vals[1])
         clones == CanClone(Top.vals[1])
         conflict == Bound(Last(Current), name)
     IN \/ clones /\ ~conflict /\ data' = c.data /\ objs' = c.objs /\ Return(c.d, Bind(name, c.d))
        \/ clones /\ conflict /\ RaiseErrorIn(c)
        \/ ~clones /\ RaiseError

-----------------------------------------------------------------------------
(* Assignment *)

AssignNumber(l, r) ==
  /\ Top.node.text = "=" /\ Val(l).type = "int" /\ Val(r).type = "int"
  /\ objs' = [objs EXCEPT ![data[l].obj] = Val(r)] /\ UNCHANGED data
  /\ End(l)

(* The left side's Data becomes a copy of the right side's. *)
AssignReference(l, r) ==
  /\ \/ Top.node.text = "=" /\ Val(l) = Nothing /\ Child(1).kind = "Reference"
     \/ Top.node.text = ":=" /\ (Val(l) = Nothing \/ Val(l).type = Val(r).type)
  /\ data' = [data EXCEPT ![l] = [data[r] EXCEPT !.temp = FALSE]] /\ UNCHANGED objs
  /\ End(r)

AssignFirst(l, r) ==
  /\ Top.node.text = "=" /\ Val(l) = Nothing /\ Child(1).kind # "Reference" /\ CanClone(r)
  /\ LET c == Cloned(r) IN data' = [c.data EXCEPT ![l] = c.data[c.d]] /\ objs' = c.objs
  /\ End(l)

(* The engine's function for this type, which returns a reference. *)
AssignObject(l, r) ==
  /\ Top.node.text = "=" /\ Val(l).type \in {"bool", "array"} /\ Val(r).type = Val(l).type
  /\ objs' = [objs EXCEPT ![data[l].obj] = Val(r)]
  /\ data' = Append(data, [obj |-> data[l].obj, const |-> FALSE, temp |-> FALSE])
  /\ End(Len(data) + 1)

(* ptr_assign: the left side's Data refers to the function too. *)
AssignPointer(l, r) ==
  /\ Top.node.text = "=" /\ Val(l).type = "fun" /\ Val(r).type = "fun"
  /\ data' = [data EXCEPT ![l] = [obj |-> data[r].obj, const |-> FALSE, temp |-> FALSE]] /\ UNCHANGED objs
  /\ End(l)

(* The script function for objects of one class. *)
AssignObjects(l, r) ==
  /\ Top.node.text = "=" /\ Val(l).type = "object" /\ CanOverwrite(Here, l, r)
  /\ LET h == Overwrite(Here, l, r) IN data' = h.data /\ objs' = h.objs
  /\ End(VoidVar)

AssignableMutant(l) == ~data[l].temp
Assignable(l) == ~data[l].temp /\ ~data[l].const
(* An assignment of an object that fails half way is left out. *)
HasAssignment(l, r) ==
  \/ Val(l) = Nothing /\ (Top.node.text = ":=" \/ Child(1).kind = "Reference" \/ CanClone(r))
  \/ Val(l).type = Val(r).type /\ (Top.node.text = ":=" \/ Val(l).type \in {"int", "bool", "array", "fun"})
  \/ Val(l).type = "object" /\ CanOverwrite(Here, l, r)

EvalEquation ==
  /\ Evaluated({"Equation"}) /\ UNCHANGED Rest
  /\ LET l == Top.vals[2]  r == Top.vals[1] IN
     \/ /\ Assignable(l)
        /\ \/ AssignNumber(l, r) \/ AssignReference(l, r) \/ AssignFirst(l, r)
           \/ AssignObject(l, r) \/ AssignPointer(l, r) \/ AssignObjects(l, r)
     \/ ~(Assignable(l) /\ HasAssignment(l, r)) /\ RaiseError

-----------------------------------------------------------------------------
(* Operators. Numbers are operated on in place, the rest by a function of the *)
(* engine, which exists for two booleans and returns a temporary.             *)

BinaryResult(l, r) ==
  CASE Top.node.text = "+" -> Value("int", l.v + r.v)
    [] Top.node.text = "<" -> Truth(l.v < r.v)
    [] Top.node.text = "==" -> Truth(l.v = r.v)

(* Fold_Right has its right side in the node. *)
EvalBinary ==
  /\ Evaluated({"Binary", "Fold_Right"}) /\ UNCHANGED Rest
  /\ LET l == Val(Top.vals[1])
         r == IF Top.node.kind = "Binary" THEN Val(Top.vals[2]) ELSE Child(2).val
         both(type) == l.type = type /\ r.type = type
         byFunction == both("bool") /\ Top.node.text = "=="
     IN \/ both("int") /\ EndNew(BinaryResult(l, r), TRUE, FALSE)
        \/ byFunction /\ EndNew(BinaryResult(l, r), FALSE, TRUE)
        \/ ~both("int") /\ ~byFunction /\ RaiseError

Increment(d) ==
  /\ objs' = [objs EXCEPT ![data[d].obj].v = @ + 1] /\ UNCHANGED data
  /\ End(d)

EvalPrefix ==
  /\ Evaluated({"Prefix"}) /\ UNCHANGED Rest
  /\ LET d == Top.vals[1]
         is(op, type) == Top.node.text = op /\ Val(d).type = type
     IN \/ is("++", "int") /\ ~data[d].const /\ Increment(d)
        \/ is("-", "int") /\ EndNew(Value("int", -Val(d).v), TRUE, FALSE)
        \/ is("!", "bool") /\ EndNew(Truth(Val(d).v = 0), FALSE, TRUE)
        \/ /\ ~is("-", "int") /\ ~is("!", "bool") /\ ~(is("++", "int") /\ ~data[d].const)
           /\ RaiseError

(* And goes on at true, Or at false. *)
EvalLogical ==
  /\ Running({"Logical_And", "Logical_Or"}) /\ UNCHANGED Rest
  /\ LET n == Len(Top.vals)
         v == Val(Last(Top.vals))
         goesOn == n = 0 \/ (n = 1 /\ v = Truth(Top.node.kind = "Logical_And"))
     IN \/ goesOn /\ Enter(Top, Child(n + 1), stacks) /\ UNCHANGED Heap
        \/ ~goesOn /\ v.type = "bool" /\ EndNew(v, TRUE, FALSE)
        \/ ~goesOn /\ v.type # "bool" /\ RaiseError

(* Each element is cloned before the next is evaluated. *)
CloneElement ==
  /\ Running({"Inline_Array"}) /\ Top.at < Len(Top.vals) /\ UNCHANGED Rest
  /\ LET d == Last(Top.vals)
         c == Cloned(d)
     IN \/ /\ CanClone(d) /\ data' = c.data /\ objs' = c.objs
           /\ frames' = [frames EXCEPT ![Len(frames)].vals = Append(Front(@), c.d),
                                       ![Len(frames)].at = Len(Top.vals)]
           /\ UNCHANGED <<stacks, ctl>>
        \/ ~CanClone(d) /\ RaiseError

EvalInlineArray ==
  /\ Evaluated({"Inline_Array"}) /\ Top.at = Len(Top.vals) /\ UNCHANGED Rest
  /\ EndNew([Value("array", 0) EXCEPT !.elems = Top.vals], TRUE, FALSE)

(* The element itself; at() throws outside the range. *)
EvalArrayCall ==
  /\ Evaluated({"Array_Call"}) /\ UNCHANGED Rest
  /\ LET v == Val(Top.vals[1])  i == Val(Top.vals[2])
         inside == v.type = "array" /\ i.type = "int" /\ i.v \in 0..Len(v.elems)-1
     IN \/ inside /\ End(v.elems[i.v + 1]) /\ UNCHANGED Heap
        \/ ~inside /\ RaiseError

-----------------------------------------------------------------------------
(* Sequences, branches, and the statements that jump *)

(* Block_AST_Node has a scope; Scopeless_Block_AST_Node and File have none. *)
EvalSequence ==
  /\ Running({"Block", "Scopeless_Block", "File"}) /\ UNCHANGED <<Heap, Rest>>
  /\ LET n == Len(Top.vals)
         opens == n = 0 /\ Top.node.kind = "Block"
     IN \/ opens /\ Enter([Top EXCEPT !.scopes = 1], Child(1), Scoped(<<>>))
        \/ ~opens /\ n < Len(Top.node.children) /\ Enter(Top, Child(n + 1), stacks)
        \/ n = Len(Top.node.children) /\ End(Top.vals[n])

EvalIf ==
  /\ Running({"If"}) /\ UNCHANGED Rest
  /\ LET n == Len(Top.vals)
         isBool == Val(Top.vals[1]).type = "bool"
     IN \/ n = 0 /\ Enter(Top, Child(1), stacks) /\ UNCHANGED Heap
        \/ /\ n = 1 /\ isBool /\ UNCHANGED Heap
           /\ Enter(Top, Child(IF Val(Top.vals[1]) = Truth(TRUE) THEN 2 ELSE 3), stacks)
        \/ n = 1 /\ ~isBool /\ RaiseError
        \/ n = 2 /\ End(Top.vals[2]) /\ UNCHANGED Heap

EvalReturn ==
  /\ Evaluated({"Return"}) /\ UNCHANGED <<Heap, Rest>>
  /\ Raise("return", IF Top.vals = <<>> THEN VoidVar ELSE Top.vals[1])

EvalJump ==
  /\ Running({"Break", "Continue"}) /\ UNCHANGED <<Heap, Rest>>
  /\ Raise(IF Top.node.kind = "Break" THEN "break" ELSE "continue", VoidVar)

-----------------------------------------------------------------------------
(* while and for. One scope for the whole loop, one more for each test of the *)
(* condition (get_scoped_bool_condition).                                     *)

Loops == {"While", "For"}
Test(s) ==
  LET condition == Child(IF Top.node.kind = "For" THEN 2 ELSE 1)
  IN Enter([Top EXCEPT !.phase = "test", !.scopes = 2], condition, s)

StartLoop ==
  /\ InPhase(Loops, {"start"}) /\ UNCHANGED <<Heap, Rest>>
  /\ \/ /\ Top.node.kind = "For"
        /\ Enter([Top EXCEPT !.phase = "step", !.scopes = 1], Child(1), Scoped(<<>>))
     \/ Top.node.kind = "While" /\ Test(SetCurrent(Current \o <<<<>>, <<>>>>))

NextRound ==
  /\ InPhase(Loops, {"step", "body"}) /\ UNCHANGED <<Heap, Rest>>
  /\ \/ /\ Top.node.kind = "For" /\ Top.phase = "body"
        /\ Enter([Top EXCEPT !.phase = "step"], Child(3), stacks)
     \/ (Top.node.kind = "While" \/ Top.phase = "step") /\ Test(Scoped(<<>>))

Tested ==
  /\ InPhase(Loops, {"test"}) /\ UNCHANGED Rest
  /\ LET v == Val(Last(Top.vals)) IN
     \/ /\ v = Truth(TRUE) /\ UNCHANGED Heap
        /\ Enter([Top EXCEPT !.phase = "body", !.scopes = 1], Last(Top.node.children), SetCurrent(Unscoped(1)))
     \/ v = Truth(FALSE) /\ End(VoidVar) /\ UNCHANGED Heap
     \/ v.type # "bool" /\ RaiseError

(* What is left of the body is skipped; the loop goes on as after the body. *)
ContinueLoop ==
  /\ Thrown({"continue"}, Loops \cup {"Ranged_For", "Compiled"}) /\ Top.phase = "body"
  /\ ctl' = Run /\ UNCHANGED <<frames, stacks, Heap, Rest>>

BreakLoop ==
  /\ Thrown({"break"}, Loops)
  /\ End(VoidVar) /\ UNCHANGED <<Heap, Rest>>

-----------------------------------------------------------------------------
(* for over a vector: a scope for each round, in which the loop's variable is *)
(* the element itself. Other ranges go through functions of the prelude.      *)

RangeOf == Val(Top.vals[1])
EvalRange ==
  /\ InPhase({"Ranged_For"}, {"start"}) /\ UNCHANGED <<Heap, Rest>>
  /\ Enter([Top EXCEPT !.phase = "range"], Child(2), stacks)

NextElement ==
  /\ InPhase({"Ranged_For"}, {"range", "body"}) /\ UNCHANGED Rest
  /\ LET outside == Unscoped(Top.scopes)
         scope(i) == <<Binding(Child(1).text, RangeOf.elems[i])>>
     IN \/ /\ RangeOf.type = "array" /\ Top.at < Len(RangeOf.elems) /\ UNCHANGED Heap
           /\ Enter([Top EXCEPT !.phase = "body", !.at = @ + 1, !.scopes = 1], Child(3),
                    SetCurrent(Append(outside, scope(Top.at + 1))))
        \/ RangeOf.type = "array" /\ Top.at = Len(RangeOf.elems) /\ End(VoidVar) /\ UNCHANGED Heap
        \/ RangeOf.type # "array" /\ RaiseError

BreakRange ==
  /\ Thrown({"break"}, {"Ranged_For"}) /\ Top.phase = "body"
  /\ End(VoidVar) /\ UNCHANGED <<Heap, Rest>>

-----------------------------------------------------------------------------
(* The counting loop that the optimizer compiles: the variable is a C++ int   *)
(* of the loop, which scripts see by reference and which ends with the loop.  *)
(* at is that int, the body the only child.                              *)

Freed == IF Top.node.kind = "Compiled" /\ Top.at # 0
           THEN [objs EXCEPT ![Top.at].v = Garbage] ELSE objs
CountOn(counter, s, f) ==
  \/ /\ counter < Top.node.to
     /\ Enter([f EXCEPT !.phase = "body"], Child(1), s)
  \/ counter >= Top.node.to /\ Return(VoidVar, SetCurrent(SubSeq(Last(s), 1, Len(Last(s)) - 1)))

StartCounting ==
  /\ InPhase({"Compiled"}, {"start"}) /\ UNCHANGED Rest
  /\ LET from == Top.node.from IN
     /\ NewData(Value("int", from), FALSE, FALSE)
     /\ CountOn(from, Scoped(<<Binding(Top.node.id, Len(data) + 1)>>),
              [Top EXCEPT !.at = Len(objs) + 1, !.scopes = 1])

NextCount ==
  /\ InPhase({"Compiled"}, {"body"}) /\ UNCHANGED <<data, Rest>>
  /\ LET next == objs[Top.at].v + 1 IN
     /\ objs' = IF next < Top.node.to THEN [objs EXCEPT ![Top.at].v = next] ELSE Freed
     /\ CountOn(next, stacks, Top)

BreakCount ==
  /\ Thrown({"break"}, {"Compiled"})
  /\ End(VoidVar) /\ objs' = Freed /\ UNCHANGED <<data, Rest>>

-----------------------------------------------------------------------------
(* switch. at is the case it has come to; once one has matched, the following *)
(* ones run too, though their guards are still evaluated.                     *)

StartSwitch ==
  /\ InPhase({"Switch"}, {"start"}) /\ UNCHANGED <<Heap, Rest>>
  /\ Enter([Top EXCEPT !.phase = "open", !.at = 1, !.scopes = 1], Child(1), Scoped(<<>>))

NextCase ==
  /\ InPhase({"Switch"}, {"open", "matched"}) /\ UNCHANGED <<Heap, Rest>>
  /\ LET k == Top.at + 1
         isCase == k <= Len(Top.node.children) /\ Child(k).kind = "Case"
         guard == IF Top.phase = "open" THEN "guard" ELSE "matched guard"
     IN \/ isCase /\ Enter([Top EXCEPT !.phase = guard, !.at = k], Child(k).children[1], stacks)
        \/ /\ ~isCase /\ k <= Len(Top.node.children)
           /\ Enter([Top EXCEPT !.phase = "matched", !.at = k], Child(k), stacks)
        \/ k > Len(Top.node.children) /\ End(VoidVar)

TestCase ==
  /\ InPhase({"Switch"}, {"guard", "matched guard"}) /\ UNCHANGED Rest
  /\ LET l == Val(Top.vals[1])  r == Val(Last(Top.vals))
         comparable == l.type = r.type /\ l.type \in {"int", "bool"}
         matches == Top.phase = "matched guard" \/ (comparable /\ l = r)
     IN \/ matches /\ Enter([Top EXCEPT !.phase = "matched"], Child(Top.at), stacks) /\ UNCHANGED Heap
        \/ /\ ~matches /\ comparable /\ UNCHANGED <<stacks, ctl, Heap>>
           /\ frames' = [frames EXCEPT ![Len(frames)].phase = "open"]
        \/ ~matches /\ ~comparable /\ RaiseError

BreakSwitch ==
  /\ Thrown({"break"}, {"Switch"}) /\ Top.at > 1
  /\ End(VoidVar) /\ UNCHANGED <<Heap, Rest>>

(* Case_AST_Node and Default_AST_Node run their block, the last child. *)
EvalCase ==
  /\ Running({"Case", "Default"}) /\ UNCHANGED <<Heap, Rest>>
  /\ \/ Top.vals = <<>> /\ Enter([Top EXCEPT !.scopes = 1], Last(Top.node.children), Scoped(<<>>))
     \/ Top.vals # <<>> /\ End(VoidVar)

-----------------------------------------------------------------------------
(* Functions. A node's text is the name; arguments are passed as they are. A  *)
(* method's first argument is the object, which params leaves out; so is that *)
(* of a constructor, which makes the object and drops what its body returns.  *)

Defined(n) ==
  [name |-> n.name, class |-> n.class, params |-> n.params, body |-> n.body,
   kind |-> CASE n.kind = "Def" -> "plain"
              [] n.kind = "Attr_Decl" -> "attribute"
              [] n.kind = "Method" -> IF n.name = n.class THEN "constructor" ELSE "method"]
Redefined(f) ==
  \E g \in funs : <<g.name, g.class, g.kind, Len(g.params)>> = <<f.name, f.class, f.kind, Len(f.params)>>

EvalDef ==
  /\ Running({"Def", "Method", "Attr_Decl"}) /\ UNCHANGED <<consts, lambdas, log>>
  /\ LET f == Defined(Top.node) IN
     \/ ~Redefined(f) /\ funs' = funs \cup {f} /\ End(VoidVar) /\ UNCHANGED Heap
     \/ Redefined(f) /\ RaiseError /\ UNCHANGED funs

(* What each captured name is bound to, not a copy. *)
EvalLambda ==
  /\ Evaluated({"Lambda"}) /\ UNCHANGED <<consts, funs, log>>
  /\ lambdas' = Append(lambdas, [node |-> Top.node, captured |-> Top.vals])
  /\ EndNew(Closure(Len(lambdas) + 1), FALSE, FALSE)

IsOf(d, class) == Val(d).type = "object" /\ Val(d).class = class
Takes(f, args) ==
  IF f.kind \in {"method", "attribute"}
    THEN args # <<>> /\ Len(args) = Len(f.params) + 1 /\ IsOf(args[1], f.class)
    ELSE Len(args) = Len(f.params)
Taking(name, args) == {f \in funs : f.name = name /\ Takes(f, args)}

(* this is what a member call has left in the innermost scope, or else the    *)
(* first argument, of whatever function.                                      *)
This(s, args) ==
  LET scope == Last(Last(s)) IN
  CASE scope # <<>> /\ Last(scope).name = "__this" -> <<Binding("this", Last(scope).data)>>
    [] (scope = <<>> \/ Last(scope).name # "__this") /\ args # <<>> -> <<Binding("this", args[1])>>
    [] OTHER -> <<>>
Bindings(names, ds) == [i \in DOMAIN ds |-> Binding(names[i], ds[i])]
EvalFunction(frame, body, s, scope) ==
  Enter([frame EXCEPT !.phase = "body", !.call = TRUE], body, Append(s, <<scope>>))

(* get_attr makes an attribute that is not there; undefined, until assigned.  *)
GetAttr(o, name) ==
  LET attrs == Val(o).attrs IN
  IF name \in DOMAIN attrs
    THEN [data |-> data, objs |-> objs, d |-> attrs[name]]
    ELSE [data |-> Append(data, [obj |-> 0, const |-> FALSE, temp |-> FALSE]),
          objs |-> [objs EXCEPT ![data[o].obj].attrs = With(@, name, Len(data) + 1)],
          d |-> Len(data) + 1]
ReadAttr(f, args) ==
  LET a == GetAttr(args[1], f.name)
  IN f.kind = "attribute" /\ data' = a.data /\ objs' = a.objs /\ End(a.d)

Invoke(f, args) ==
  LET constructs == f.kind = "constructor"
      made == Len(data) + 1
      all == IF constructs THEN <<made>> \o args ELSE args
      given == IF constructs \/ f.kind = "method" THEN Tail(all) ELSE all
  IN /\ f.kind # "attribute"
     /\ EvalFunction([Top EXCEPT !.at = IF constructs THEN made ELSE 0], f.body, stacks,
                     This(stacks, all) \o Bindings(f.params, given))
     /\ \/ constructs /\ NewData(Object(f.class), FALSE, TRUE)
        \/ ~constructs /\ UNCHANGED Heap

InvokeClosure(frame, i, args, s) ==
  LET fun == lambdas[i].node
      names == [k \in DOMAIN fun.children |-> fun.children[k].text]
      capturesThis == \E k \in DOMAIN names : names[k] = "this"
  IN EvalFunction(frame, fun.body, s,
       (IF capturesThis THEN <<>> ELSE This(s, args))
         \o Bindings(names, lambdas[i].captured) \o Bindings(fun.params, args))
(* The lambda that v is and the arguments fit, if there is one. *)
Callees(v, args) == {i \in DOMAIN lambdas : v = Closure(i) /\ Len(lambdas[i].node.params) = Len(args)}

(* The name is looked up after the arguments. *)
HostFunctions == {"throw", "emit", "int"}
CalledByName == Evaluated(Calls) /\ ~Resolves(Top.node.text)
NoFunction == \A f \in funs : f.name # Top.node.text

CallFunction ==
  /\ CalledByName /\ UNCHANGED Rest
  /\ \E f \in Taking(Top.node.text, Top.vals) : Invoke(f, Top.vals) \/ ReadAttr(f, Top.vals)

CallVariable ==
  /\ Evaluated(Calls) /\ Resolves(Top.node.text) /\ UNCHANGED Rest
  /\ LET fun == Val(Resolve(Top.node.text)) IN
     \/ \E i \in Callees(fun, Top.vals) : InvokeClosure(Top, i, Top.vals, stacks) /\ UNCHANGED Heap
     \/ Callees(fun, Top.vals) = {} /\ RaiseError

TakesHost == NoFunction /\ Top.node.text \in HostFunctions /\ Len(Top.vals) = 1
CallHost ==
  /\ CalledByName /\ TakesHost /\ UNCHANGED <<consts, funs, lambdas>>
  /\ LET d == Top.vals[1]
         is(f) == Top.node.text = f
     IN \/ is("emit") /\ log' = Append(log, Val(d)) /\ End(VoidVar) /\ UNCHANGED Heap
        \/ is("throw") /\ Raise("throw", d) /\ UNCHANGED <<Heap, log>>
        \/ is("int") /\ Val(d).type = "int" /\ EndNew(Val(d), FALSE, TRUE) /\ UNCHANGED log
        \/ is("int") /\ Val(d).type # "int" /\ RaiseError /\ UNCHANGED log

CallUnknown ==
  /\ CalledByName /\ Taking(Top.node.text, Top.vals) = {}
  /\ ~TakesHost
  /\ RaiseError /\ UNCHANGED Rest

(* The call ends with the object, the body's value, or what the body returned. *)
FinishCall ==
  /\ InPhase(Callers, {"body"}) /\ UNCHANGED <<Heap, Rest>>
  /\ End(IF Top.at # 0 THEN Top.at ELSE Last(Top.vals))
CatchReturn ==
  /\ Thrown({"return"}, Callers) /\ Top.phase = "body" /\ UNCHANGED <<Heap, Rest>>
  /\ End(IF Top.at # 0 THEN Top.at ELSE ctl.d)

-----------------------------------------------------------------------------
(* try. A Catch catches <<>>, <<name>> or <<name, type>>, and the block.  *)

HasFinally == Last(Top.node.children).kind = "Finally"
Matches(handler, d) == Len(handler.catches) = 2 => Val(d).type = handler.catches[2]
Handlers == {i \in DOMAIN Top.node.children :
               Child(i).kind = "Catch" /\ Matches(Child(i), ctl.d)}

(* Everything else is over, and only finally's own scope of the try is left. *)
FinallyMutant(again) ==
  Enter([Top EXCEPT !.phase = "finally", !.scopes = 1, !.pending = again],
        Last(Top.node.children).children[1], stacks)
Finally(again) ==
  Enter([Top EXCEPT !.phase = "finally", !.scopes = 1, !.pending = again],
        Last(Top.node.children).children[1], SetCurrent(Unscoped(Top.scopes - 1)))

StartTry ==
  /\ InPhase({"Try"}, {"start"}) /\ UNCHANGED <<Heap, Rest>>
  /\ Enter([Top EXCEPT !.phase = "try", !.scopes = 1], Child(1), Scoped(<<>>))

(* The block or a handler has returned. *)
LeaveTry ==
  /\ InPhase({"Try"}, {"try", "handler"}) /\ UNCHANGED <<Heap, Rest>>
  /\ \/ HasFinally /\ Finally(Run)
     \/ ~HasFinally /\ End(Last(Top.vals))

(* The first handler that takes the exception runs, in a scope with its name. *)
Handle ==
  /\ Thrown({"throw"}, {"Try"}) /\ Top.phase = "try" /\ Handlers # {}
  /\ LET c == Child(CHOOSE i \in Handlers : \A j \in Handlers : i <= j)
         scope == IF c.catches = <<>> THEN <<>> ELSE <<Binding(c.catches[1], ctl.d)>>
     IN Enter([Top EXCEPT !.phase = "handler", !.scopes = 2], c.children[1], Scoped(scope))
  /\ UNCHANGED <<Heap, Rest>>

(* If none takes it, handle_exception returns an undefined value. *)
HandleNone ==
  /\ Thrown({"throw"}, {"Try"}) /\ Top.phase = "try" /\ Handlers = {}
  /\ data' = Append(data, [obj |-> 0, const |-> FALSE, temp |-> FALSE])
  /\ \/ HasFinally /\ Finally(Run)
     \/ ~HasFinally /\ End(Len(data) + 1)
  /\ UNCHANGED <<objs, Rest>>

(* return, break and continue are no exceptions to a script: catch (...).     *)
JumpOutOfTry ==
  /\ Thrown({"return", "break", "continue"}, {"Try"}) /\ Top.phase = "try" /\ HasFinally
  /\ Finally(ctl) /\ UNCHANGED <<Heap, Rest>>

LeaveFinally ==
  /\ InPhase({"Try"}, {"finally"}) /\ UNCHANGED <<Heap, Rest>>
  /\ \/ Top.pending = Run /\ End(Last(Top.vals))
     \/ Top.pending # Run /\ ctl' = Top.pending /\ UNCHANGED <<frames, stacks>>

-----------------------------------------------------------------------------
(* break and continue that reach the program's end become errors; whatever    *)
(* the innermost node has no handler for leaves it.                           *)

JumpOutOfFile ==
  /\ Thrown({"break", "continue"}, {"File"})
  /\ RaiseError /\ UNCHANGED Rest

HandlesItMutant ==
  CASE Top.node.kind \in Loops -> ctl.kind = "break" \/ (ctl.kind = "continue" /\ Top.phase = "body")
    [] Top.node.kind \in {"Ranged_For", "Compiled"} -> ctl.kind \in {"break", "continue"} /\ Top.phase = "body"
    [] Top.node.kind = "Switch" -> ctl.kind = "break" /\ Top.at > 1
    [] Top.node.kind \in Callers -> ctl.kind = "return" /\ Top.phase = "body"
    [] Top.node.kind = "Try" -> Top.phase = "try" /\ ctl.kind = "throw"
    [] Top.node.kind = "File" -> ctl.kind \in {"break", "continue"}
    [] OTHER -> FALSE

HandlesIt ==
  CASE Top.node.kind \in Loops -> ctl.kind = "break" \/ (ctl.kind = "continue" /\ Top.phase = "body")
    [] Top.node.kind \in {"Ranged_For", "Compiled"} -> ctl.kind \in {"break", "continue"} /\ Top.phase = "body"
    [] Top.node.kind = "Switch" -> ctl.kind = "break" /\ Top.at > 1
    [] Top.node.kind \in Callers -> ctl.kind = "return" /\ Top.phase = "body"
    [] Top.node.kind = "Try" -> Top.phase = "try" /\ (ctl.kind = "throw" \/ HasFinally)
    [] Top.node.kind = "File" -> ctl.kind \in {"break", "continue"}
    [] OTHER -> FALSE

Unwind ==
  /\ ctl.kind \notin {"run", "value"} /\ frames # <<>> /\ ~HandlesIt
  /\ frames' = Front(frames) /\ stacks' = Left /\ objs' = Freed
  /\ UNCHANGED <<data, ctl, Rest>>

-----------------------------------------------------------------------------
Bare == << << <<>> >> >>
Init ==
  /\ \E p \in Programs : frames = <<Frame(p, Bare)>>
  /\ stacks = Bare
  /\ data = <<[obj |-> 1, const |-> FALSE, temp |-> FALSE]>> /\ objs = <<Value("void", 0)>>
  /\ consts = <<>> /\ funs = {} /\ lambdas = <<>> /\ ctl = Run /\ log = <<>>

Next ==
  \/ EvalOperand \/ EvalConstant \/ EvalNoop \/ EvalId
  \/ EvalDeclaration \/ EvalAssignDecl \/ EvalEquation
  \/ EvalBinary \/ EvalPrefix \/ EvalLogical \/ CloneElement \/ EvalInlineArray \/ EvalArrayCall
  \/ EvalSequence \/ EvalIf \/ EvalReturn \/ EvalJump
  \/ StartLoop \/ NextRound \/ Tested \/ ContinueLoop \/ BreakLoop
  \/ EvalRange \/ NextElement \/ BreakRange
  \/ StartCounting \/ NextCount \/ BreakCount
  \/ StartSwitch \/ NextCase \/ TestCase \/ BreakSwitch \/ EvalCase
  \/ EvalDef \/ EvalLambda \/ CallFunction \/ CallVariable \/ CallHost \/ CallUnknown \/ FinishCall \/ CatchReturn
  \/ StartTry \/ LeaveTry \/ Handle \/ HandleNone \/ JumpOutOfTry \/ LeaveFinally
  \/ JumpOutOfFile \/ Unwind

Spec == Init /\ [][Next]_vars

Done == frames = <<>>

-----------------------------------------------------------------------------
(* Properties *)

(* The stacks t are s again, but for names added to the innermost scope. *)
Extends(s, t) ==
  /\ Len(t) = Len(s) /\ Front(t) = Front(s)
  /\ LET a == Last(s)  b == Last(t) IN
     Len(b) = Len(a) /\ Front(b) = Front(a) /\ IsPrefix(Last(a), Last(b))

(* However a node is left, by a value, a jump or an exception, it leaves the  *)
(* stacks as it found them: every scope and stack it pushed is popped, and    *)
(* none of its callers'.                                                      *)
StacksRestored ==
  [][Len(frames') < Len(frames) => Extends(Top.base, stacks')]_vars

(* A try is not left without its finally, except out of a handler. *)
FinallyRuns ==
  [][ (/\ Len(frames') < Len(frames)
       /\ Top.node.kind = "Try" /\ HasFinally)
      => Top.phase = "finally" \/ (Top.phase = "handler" /\ ctl.kind # "run") ]_vars

(* A constant of the program is the same at every evaluation, whoever has     *)
(* been given it by reference.                                                *)
ConstantsKept == \A c \in DOMAIN consts : Val(consts[c]) = c.val
===============================================================================
