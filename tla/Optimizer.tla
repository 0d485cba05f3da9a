------------------------------- MODULE Optimizer -------------------------------
(* The rewritings of language/chaiscript_optimizer.hpp. The parser applies    *)
(* them to each node it builds, whose children have already been rewritten.   *)
(* Return is left out: it looks for a block among the children of a Def or    *)
(* Lambda node, whose constructor has already taken the body out of them.     *)
EXTENDS Integers, Sequences, SequencesExt

ConstantNode(type, v, const) ==
  [kind |-> "Constant", val |-> [type |-> type, v |-> v, elems |-> <<>>], const |-> const, children |-> <<>>]
IsConstant(n, type) == n.kind = "Constant" /\ n.val.type = type
Bit(b) == IF b THEN 1 ELSE 0

-----------------------------------------------------------------------------
(* Not into blocks and for loops, which have a scope of their own. *)
RECURSIVE ContainsVarDecl(_)
ContainsVarDecl(n) ==
  \/ n.kind \in {"Var_Decl", "Assign_Decl", "Reference"}
  \/ \E i \in DOMAIN n.children :
       n.children[i].kind \notin {"Block", "For", "Compiled", "Ranged_For"} /\ ContainsVarDecl(n.children[i])

(* A number on the right is kept in the node. *)
PartialFold(n) ==
  IF n.kind = "Binary" /\ n.children[1].kind # "Constant" /\ IsConstant(n.children[2], "int")
    THEN [n EXCEPT !.kind = "Fold_Right"] ELSE n

Unused(n) == IF n.kind = "Fun_Call" THEN [n EXCEPT !.kind = "Unused_Return_Fun_Call"] ELSE n
UnusedReturn(n) ==
  LET blocks == {"Block", "Scopeless_Block"}
      k == Len(n.children)
  IN CASE n.kind \in blocks ->
            [n EXCEPT !.children = [i \in 1..k |-> IF i < k THEN Unused(@[i]) ELSE @[i]]]
       [] n.kind \in {"For", "While"} /\ n.children[k].kind \in blocks ->
            [n EXCEPT !.children[k].children = [i \in DOMAIN @ |-> Unused(@[i])]]
       [] OTHER -> n

(* What folds to a boolean is not const, as its operands were; a failure to   *)
(* fold leaves the node as it is.                                             *)
ConstantFold(n) ==
  LET v(i) == n.children[i].val.v
      all(type) == n.children # <<>> /\ \A i \in DOMAIN n.children : IsConstant(n.children[i], type)
  IN CASE n.kind = "Prefix" /\ n.text = "-" /\ all("int") -> ConstantNode("int", -v(1), TRUE)
       [] n.kind = "Prefix" /\ n.text = "!" /\ all("bool") -> ConstantNode("bool", 1 - v(1), FALSE)
       [] n.kind = "Logical_And" /\ all("bool") -> ConstantNode("bool", v(1) * v(2), FALSE)
       [] n.kind = "Logical_Or" /\ all("bool") -> ConstantNode("bool", Bit(v(1) + v(2) > 0), FALSE)
       [] n.kind = "Binary" /\ n.text = "+" /\ all("int") -> ConstantNode("int", v(1) + v(2), TRUE)
       [] n.kind = "Binary" /\ n.text = "<" /\ all("int") -> ConstantNode("bool", Bit(v(1) < v(2)), TRUE)
       [] n.kind = "Binary" /\ n.text = "==" /\ all("int") -> ConstantNode("bool", Bit(v(1) = v(2)), TRUE)
       [] n.kind = "Fun_Call" /\ n.text = "int" /\ Len(n.children) = 1 /\ all("int") -> ConstantNode("int", v(1), TRUE)
       [] OTHER -> n

FoldIf(n) ==
  IF n.kind = "If" /\ IsConstant(n.children[1], "bool")
    THEN n.children[IF n.children[1].val.v = 1 THEN 2 ELSE 3] ELSE n

DeadCode(n) ==
  LET k == Len(n.children)
      keeper(i) == n.children[i].kind \notin {"Id", "Constant", "Noop"} \/ i = k
      keepers == SelectSeq([i \in 1..k |-> i], keeper)
  IN IF n.kind = "Block" THEN [n EXCEPT !.children = [j \in DOMAIN keepers |-> @[keepers[j]]]] ELSE n

UnscopeBlockMutant(n) == IF n.kind = "Block" THEN [n EXCEPT !.kind = "Scopeless_Block"] ELSE n
UnscopeBlock(n) ==
  IF n.kind = "Block" /\ ~ContainsVarDecl(n)
    THEN IF Len(n.children) = 1 THEN n.children[1] ELSE [n EXCEPT !.kind = "Scopeless_Block"]
    ELSE n

(* for (var i = from; i < to; ++i) with constants. *)
ForLoop(n) ==
  LET init == n.children[1]  test == n.children[2]  step == n.children[3]
      counts == /\ init.kind = "Assign_Decl" /\ IsConstant(init.children[2], "int")
                /\ test.kind \in {"Binary", "Fold_Right"} /\ test.text = "<"
                /\ test.children[1].kind = "Id" /\ test.children[1].text = init.children[1].text
                /\ IsConstant(test.children[2], "int")
                /\ step.kind = "Prefix" /\ step.text = "++"
                /\ step.children[1].kind = "Id" /\ step.children[1].text = init.children[1].text
  IN IF n.kind = "For" /\ counts
       THEN [kind |-> "Compiled", id |-> init.children[1].text, from |-> init.children[2].val.v,
             to |-> test.children[2].val.v, children |-> <<n.children[4]>>]
       ELSE n

AssignDecl(n) ==
  IF n.kind = "Equation" /\ n.text = "=" /\ n.children[1].kind = "Var_Decl"
    THEN [n EXCEPT !.kind = "Assign_Decl", !.children[1] = [@ EXCEPT !.kind = "Id"]] ELSE n

(* Optimizer_Default, in its order. *)
OptimizeNode(n) ==
  AssignDecl(ForLoop(UnscopeBlock(DeadCode(FoldIf(ConstantFold(UnusedReturn(PartialFold(n))))))))

RECURSIVE Optimize(_)
Optimize(n) ==
  LET rewritten == [n EXCEPT !.children = [i \in DOMAIN @ |-> Optimize(@[i])]]
  IN OptimizeNode(IF n.kind \in {"Def", "Method", "Lambda"} THEN [rewritten EXCEPT !.body = Optimize(@)] ELSE rewritten)
===============================================================================
