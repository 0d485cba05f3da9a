---------------------------- MODULE MCLookupCache ----------------------------
(***************************************************************************)
(* A program for ScopedLookup.  Written as a script:                       *)
(*   def f(a) { if (..) { var a = 1; a; } a;                               *)
(*              if (..) { h() } else if (..) { o.f(1) } }                  *)
(*   var h = fun[a]() { if (..) { global c } else if (..) { def c() {} }   *)
(*      else if (..) { def a() {} } else if (..) { eval("var a") } c }     *)
(* f is about stack positions: shadowing, a scope, a parameter, calls in   *)
(* both forms.  The c of h is on no stack: it is unknown, a global, or a   *)
(* function at index 0 or 1, and unknown or elsewhere again after          *)
(* set_state.                                                              *)
(***************************************************************************)
EXTENDS ScopedLookup, TLC

CONSTANTS t1, t2, np

MCNames == {"this", "__this", "a", "c"}
MCFunctions == {"f", "h"}
MCPoints == 1..16

I(op, name, fun, succ) == [op |-> op, name |-> name, fun |-> fun, succ |-> succ]

MCCode == <<
  I("skip",   "a", "f", {2, 6}),
  I("push",   "a", "f", {3}),
  I("var",    "a", "f", {4}),
  I("id",     "a", "f", {5}),           \* the inner a
  I("pop",    "a", "f", {6}),
  I("id",     "a", "f", {7, 8, 9}),     \* the parameter
  I("call",   "a", "h", {9}),
  I("attr",   "a", "f", {9}),           \* f takes a parameter
  I("ret",    "a", "f", {}),
  I("skip",   "c", "h", {11, 12, 13, 14, 15}),
  I("global", "c", "h", {15}),
  I("def",    "c", "h", {15}),
  I("def",    "a", "h", {15}),
  I("var",    "a", "h", {}),            \* name_conflict_error: a is captured
  I("id",     "c", "h", {16}),
  I("ret",    "c", "h", {}) >>

MCFun == [fn \in MCFunctions |->
  IF fn = "f"
  THEN [entry |-> 1, locals |-> <<"a">>, takesParams |-> TRUE, capturesThis |-> FALSE]
  ELSE [entry |-> 10, locals |-> <<"a">>, takesParams |-> FALSE, capturesThis |-> FALSE]]

InF == << <<"this", "a">> >>
MCShape == [p \in MCPoints |->
  CASE p = 3           -> Append(InF, <<>>)
    [] p \in {4, 5}    -> Append(InF, <<"a">>)
    [] p \in 10..16    -> << <<"a">> >>
    [] OTHER           -> InF]

Symmetry == Permutations({t1, t2})
===============================================================================
