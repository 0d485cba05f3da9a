------------------------------- MODULE Overloads -------------------------------
(***************************************************************************)
(* The overloads of one name (add_function and function_less_than in       *)
(* dispatchkit.hpp) and the choice among them (dispatch in                 *)
(* proxy_functions.hpp).                                                   *)
(*                                                                         *)
(* add_function keeps the overloads sorted and replaces the whole vector   *)
(* under m_mutex, so that a call goes on with the one it fetched.          *)
(* dispatch tries the overloads by the number of parameters that are not   *)
(* exactly the argument's type, and in the vector's order among equals; it *)
(* learns that an overload does not fit from the exception it throws, and  *)
(* so cannot tell that from the same exception thrown by the body.         *)
(***************************************************************************)
EXTENDS Integers, FiniteSets, SequencesExt

CONSTANTS
  Threads,
  Bare,          (* C++ types without const and reference                   *)
  AnyType,       (* Boxed_Value                                             *)
  NumberType,    (* Boxed_Number                                            *)
  Arithmetic,    (* the types it may hold                                   *)
  Before,        (* type_info::before, as a rank                            *)
  Converts,      (* <<to, from>>: Type_Conversions::converts                *)
  Guards, None,  (* the guards of script functions, and having none         *)
  Pool,          (* the functions that may be registered                    *)
  Args,          (* the argument lists of the calls                         *)
  MaxFunctions   (* BOUND on the overloads; up to seven, libstdc++'s        *)
                 (* stable_sort is the insertion sort below                 *)

ParamType == [bare : Bare, form : {"value", "ref", "cref"}]
ArgValue == [bare : Bare \ {AnyType, NumberType}, const : BOOLEAN]

(* A C++ function, or a script function (Dynamic_Proxy_Function), which    *)
(* may have a guard; a variadic one has arity -1 and no parameter types.   *)
FunctionRecord ==
  [script : BOOLEAN, guard : Guards \cup {None}, variadic : BOOLEAN, params : Seq(ParamType)]

ASSUME OverloadAssumption ==
  /\ {AnyType, NumberType} \subseteq Bare /\ AnyType # NumberType
  /\ Arithmetic \subseteq Bare \ {AnyType, NumberType}
  /\ Before \in [Bare -> Nat] /\ \A a, b \in Bare : Before[a] = Before[b] => a = b
  /\ Converts \subseteq Bare \X Bare
  /\ None \notin Guards
  /\ Pool \subseteq FunctionRecord
  /\ \A f \in Pool : (f.guard # None \/ f.variadic) => f.script
  /\ Args \subseteq Seq(ArgValue)

VARIABLES
  table,  (* m_functions[name]: the overloads, in order                     *)
  open,   (* the guards that hold, all along                                *)
  calls   (* the call each thread is in                                     *)

vars == <<table, open, calls>>

(* funs: the vector the call fetched.  i, j: dispatch's loop variables.    *)
(* match: dispatch_with_conversions' matching_func, 0 for none.  ran: the  *)
(* overloads whose body was entered.                                       *)
Call == [phase : {"idle", "trying", "scanning", "returned", "failed", "thrown", "undefined"},
         args : Seq(ArgValue), funs : Seq(FunctionRecord), i : Nat, j : Nat, match : Nat,
         ran : SUBSET Nat]
Idle == [phase |-> "idle", args |-> <<>>, funs |-> <<>>, i |-> 0, j |-> 1, match |-> 0, ran |-> {}]
-----------------------------------------------------------------------------
Const(p) == p.form = "cref"
SameType(l, r) == l.bare = r.bare /\ Const(l) = Const(r)

(* Two parameter types that differ: const last, Boxed_Value after all      *)
(* others, Boxed_Number after those, and else by type_info::before.        *)
TypeBefore(l, r) ==
  \/ l.bare = r.bare /\ ~Const(l) /\ Const(r)
  \/ /\ l.bare # r.bare /\ l.bare # AnyType
     /\ \/ r.bare = AnyType
        \/ /\ l.bare # NumberType
           /\ r.bare = NumberType \/ Before[l.bare] < Before[r.bare]

(* Mutant of FunctionLessThan: only the first parameter is compared.       *)
FunctionLessThanByFirst(f, g) ==
  \/ ~f.script /\ g.script
  \/ f.script /\ g.script /\ f.guard # None /\ g.guard = None
  \/ /\ ~f.script /\ ~g.script
     /\ f.params # <<>> /\ g.params # <<>> /\ TypeBefore(f.params[1], g.params[1])

FunctionLessThan(f, g) ==
  \/ ~f.script /\ g.script
  \/ f.script /\ g.script /\ f.guard # None /\ g.guard = None
  \/ /\ ~f.script /\ ~g.script
     /\ \E i \in 1..Len(f.params) :
          /\ i <= Len(g.params)
          /\ \A j \in 1..(i - 1) : SameType(f.params[j], g.params[j])
          /\ TypeBefore(f.params[i], g.params[i])

(* std::stable_sort: each element in turn goes to the front, or behind the *)
(* last one that it is not less than.                                      *)
Insert(s, f) ==
  IF s # <<>> /\ FunctionLessThan(f, s[1]) THEN <<f>> \o s
  ELSE LET NotAfter == {0} \cup { i \in 1..Len(s) : ~FunctionLessThan(f, s[i]) }
       IN InsertAt(s, 1 + CHOOSE i \in NotAfter : \A k \in NotAfter : k <= i, f)
StableSort(s) ==
  LET sorted[k \in 0..Len(s)] == IF k = 0 THEN <<>> ELSE Insert(sorted[k - 1], s[k])
  IN sorted[Len(s)]

(* operator==.  Two functions with a guard differ, whatever they are; two  *)
(* C++ lambdas of one signature, which differ too, are left out.           *)
SameFunction(f, g) == f = g /\ f.guard = None
-----------------------------------------------------------------------------
(* compare_type_to_param.  A function as an argument, which it lets        *)
(* through whatever the parameter, is left out.                            *)
Compare(p, v) ==
  \/ p.bare = AnyType
  \/ p.bare = NumberType /\ v.bare \in Arithmetic
  \/ p.bare = v.bare
  \/ <<p.bare, v.bare>> \in Converts

(* boxed_cast to the parameter's type, which a base class keeps the const  *)
(* of, and Param_Types::match, in which a parameter without a type is Any. *)
Casts(p, v) ==
  Compare(p, v) /\ (p.form = "ref" /\ v.const => p.bare \in {AnyType, NumberType})
MatchesScript(p, v) ==
  p.bare \in {AnyType, v.bare} \/ <<p.bare, v.bare>> \in Converts

RightArity(f, args) == f.variadic \/ Len(f.params) = Len(args)

(* The overload's own test of the arguments, which comes before its body.  *)
Accepts(f, args, holding) ==
  /\ RightArity(f, args)
  /\ \A k \in 1..Len(f.params) :
       IF f.script THEN MatchesScript(f.params[k], args[k]) ELSE Casts(f.params[k], args[k])
  /\ f.guard # None => f.guard \in holding

(* numdiffs.                                                               *)
Diffs(f, args) ==
  IF f.variadic THEN Len(args)
  ELSE Cardinality({ k \in 1..Len(args) : f.params[k].bare # args[k].bare })

(* filter looks at two parameters at most.                                 *)
Filter(f, args) ==
  \A k \in 1..Len(f.params) : k <= 2 => Compare(f.params[k], args[k])

(* Whether round i of dispatch calls the overload.                         *)
Tries(f, args, i) ==
  RightArity(f, args) /\ Diffs(f, args) = i /\ (i = 0 \/ Filter(f, args))

(* types_match_except_for_arithmetic.                                      *)
MatchesExceptArithmetic(f, args) ==
  /\ ~f.variadic /\ RightArity(f, args)
  /\ \A k \in 1..Len(args) :
       Compare(f.params[k], args[k]) \/ (f.params[k].bare \in Arithmetic /\ args[k].bare \in Arithmetic)

(* Boxed_Number::get_as makes a new value of the parameter's type.         *)
ConvertedArgs(f, args) ==
  [k \in 1..Len(args) |->
     IF {f.params[k].bare, args[k].bare} \subseteq Arithmetic /\ f.params[k].bare # args[k].bare
     THEN [bare |-> f.params[k].bare, const |-> FALSE]
     ELSE args[k]]
-----------------------------------------------------------------------------
Init ==
  /\ table = <<>>
  /\ open \in SUBSET Guards
  /\ calls = [t \in Threads |-> Idle]

(* add_function; a conflict is an exception and changes nothing.           *)
AddFunction(f) ==
  /\ Len(table) < MaxFunctions
  /\ \A k \in 1..Len(table) : ~SameFunction(f, table[k])
  /\ table' = StableSort(Append(table, f))
  /\ UNCHANGED <<open, calls>>

Becomes(t, c) == calls' = [calls EXCEPT ![t] = c]

(* call_function, or a Dispatch_Function called as an object: get_function *)
(* and dispatch's first loop.                                              *)
StartCall(t, args) ==
  /\ calls[t].phase = "idle"
  /\ Becomes(t, [Idle EXCEPT !.phase = "trying", !.args = args, !.funs = table])
  /\ UNCHANGED <<table, open>>

(* The body of overload k is run, and ends with a value, with one of the   *)
(* three exceptions dispatch catches, which leave the call at next, or     *)
(* with any other.                                                         *)
Runs(t, c, k, next) ==
  \E end \in {[c EXCEPT !.phase = "returned"], [c EXCEPT !.phase = "thrown"], next} :
    Becomes(t, [end EXCEPT !.ran = @ \cup {k}])

NextOverload(c) == [c EXCEPT !.j = @ + 1]
GiveUp(c) == [c EXCEPT !.phase = "failed"]

(* A name with one overload, which takes no number, is that function: it   *)
(* is called without dispatch.                                             *)
CallDirectly(t, args) ==
  LET c == [Idle EXCEPT !.args = args, !.funs = table] IN
  /\ calls[t].phase = "idle"
  /\ Len(table) = 1 /\ \A k \in 1..Len(table[1].params) : table[1].params[k].bare \notin Arithmetic
  /\ \/ ~Accepts(table[1], args, open) /\ Becomes(t, GiveUp(c))
     \/ Accepts(table[1], args, open) /\ Runs(t, c, 1, GiveUp(c))
  /\ UNCHANGED <<table, open>>

(* Mutant of TryOverload: the filter and the number of differences are     *)
(* not looked at.                                                          *)
TryOverloadAnyway(t) ==
  LET c == calls[t]  f == c.funs[c.j] IN
  /\ c.phase = "trying" /\ c.j <= Len(c.funs)
  /\ \/ ~Accepts(f, c.args, open) /\ Becomes(t, NextOverload(c))
     \/ Accepts(f, c.args, open) /\ Runs(t, c, c.j, NextOverload(c))
  /\ UNCHANGED <<table, open>>

TryOverload(t) ==
  LET c == calls[t]  f == c.funs[c.j] IN
  /\ c.phase = "trying" /\ c.j <= Len(c.funs)
  /\ \/ /\ ~(Tries(f, c.args, c.i) /\ Accepts(f, c.args, open))
        /\ Becomes(t, NextOverload(c))
     \/ /\ Tries(f, c.args, c.i) /\ Accepts(f, c.args, open)
        /\ Runs(t, c, c.j, NextOverload(c))
  /\ UNCHANGED <<table, open>>

(* Mutant of NextRound: i < plist.size().                                  *)
NextRoundShort(t) ==
  LET c == calls[t] IN
  /\ c.phase = "trying" /\ c.j > Len(c.funs)
  /\ Becomes(t, IF c.i + 1 < Len(c.args)
                THEN [c EXCEPT !.i = @ + 1, !.j = 1]
                ELSE [c EXCEPT !.phase = "scanning", !.j = 1])
  /\ UNCHANGED <<table, open>>

NextRound(t) ==
  LET c == calls[t] IN
  /\ c.phase = "trying" /\ c.j > Len(c.funs)
  /\ Becomes(t, IF c.i < Len(c.args)
                THEN [c EXCEPT !.i = @ + 1, !.j = 1]
                ELSE [c EXCEPT !.phase = "scanning", !.j = 1])
  /\ UNCHANGED <<table, open>>

(* dispatch_with_conversions: the one overload that fits but for its       *)
(* numbers, or the const and the non-const version of it.  With no         *)
(* arguments, params[0] and the overloads' first types are not there.      *)
Scan(t) ==
  LET c == calls[t]
      fits == MatchesExceptArithmetic(c.funs[c.j], c.args)
      better == ~Const(c.funs[c.match].params[1]) /\ Const(c.funs[c.j].params[1])
  IN
  /\ c.phase = "scanning" /\ c.j <= Len(c.funs)
  /\ \/ ~fits /\ Becomes(t, NextOverload(c))
     \/ fits /\ c.match = 0 /\ Becomes(t, NextOverload([c EXCEPT !.match = c.j]))
     \/ /\ fits /\ c.match # 0 /\ c.args = <<>>
        /\ Becomes(t, [c EXCEPT !.phase = "undefined"])
     \/ /\ fits /\ c.match # 0 /\ c.args # <<>> /\ better
        /\ Becomes(t, NextOverload(IF c.args[1].const THEN [c EXCEPT !.match = c.j] ELSE c))
     \/ /\ fits /\ c.match # 0 /\ c.args # <<>> /\ ~better
        /\ Becomes(t, GiveUp(c))
  /\ UNCHANGED <<table, open>>

Convert(t) ==
  LET c == calls[t]
      fits == c.match # 0 /\ Accepts(c.funs[c.match], ConvertedArgs(c.funs[c.match], c.args), open)
  IN
  /\ c.phase = "scanning" /\ c.j > Len(c.funs)
  /\ \/ ~fits /\ Becomes(t, GiveUp(c))
     \/ fits /\ Runs(t, c, c.match, GiveUp(c))
  /\ UNCHANGED <<table, open>>

Finish(t) ==
  /\ calls[t].phase \in {"returned", "failed", "thrown", "undefined"}
  /\ Becomes(t, Idle)
  /\ UNCHANGED <<table, open>>

Next ==
  \/ \E f \in Pool : AddFunction(f)
  \/ \E t \in Threads :
       \/ \E args \in Args : StartCall(t, args) \/ CallDirectly(t, args)
       \/ TryOverload(t) \/ NextRound(t) \/ Scan(t) \/ Convert(t) \/ Finish(t)

Spec == Init /\ [][Next]_vars
-----------------------------------------------------------------------------
(* The overload that c is at comes before another one in the order of a    *)
(* call: fewer differences, and then the order of the vector.              *)
Better(c, k, l) ==
  LET dk == Diffs(c.funs[k], c.args)  dl == Diffs(c.funs[l], c.args)
  IN dk < dl \/ (dk = dl /\ k < l)

Accepting(c) == { k \in 1..Len(c.funs) : Accepts(c.funs[k], c.args, open) }

(* The bodies that take the arguments as they are run best first: an       *)
(* overload is entered only when every better one has been, and ended in   *)
(* an exception dispatch takes for a mismatch (dispatch, call_function).   *)
RunInOrder ==
  \A t \in Threads : \A k \in calls[t].ran \cap Accepting(calls[t]) :
    \A l \in Accepting(calls[t]) : Better(calls[t], l, k) => l \in calls[t].ran

(* Numbers are converted, or the call fails, only when no overload that    *)
(* takes the arguments as they are is left untried: neither filter, nor    *)
(* the rounds by differences, nor a change of the table while the call     *)
(* runs loses one.                                                         *)
NoneMissed ==
  \A t \in Threads :
    calls[t].phase \in {"scanning", "failed"} => Accepting(calls[t]) \subseteq calls[t].ran

(* A parameter that takes what another takes and no more: of the same      *)
(* type and not const, or the other is Boxed_Value or Boxed_Number.        *)
AtLeastAsSpecific(l, r) ==
  \/ l.bare = r.bare /\ (Const(l) => Const(r))
  \/ r.bare = AnyType /\ l.bare # AnyType
  \/ r.bare = NumberType /\ l.bare \notin {AnyType, NumberType}

MoreSpecific(f, g) ==
  \/ ~f.script /\ g.script
  \/ f.script /\ g.script /\ f.guard # None /\ g.guard = None
  \/ /\ ~f.script /\ ~g.script /\ Len(f.params) = Len(g.params)
     /\ \A k \in 1..Len(f.params) : AtLeastAsSpecific(f.params[k], g.params[k])
     /\ \E k \in 1..Len(f.params) : ~SameType(f.params[k], g.params[k])

OneArity(s) ==
  \A i, j \in 1..Len(s) : ~s[i].script /\ ~s[j].script => Len(s[i].params) = Len(s[j].params)

Sorted(s) == \A i, j \in 1..Len(s) : i < j => ~MoreSpecific(s[j], s[i])

(* When the C++ overloads have one number of parameters, in whatever order *)
(* they were added, none stands behind a less specific one: C++ before     *)
(* script, guarded before unguarded, const after non-const, Boxed_Number   *)
(* after the numbers, Boxed_Value last (add_function).                     *)
OneAritySorted == OneArity(table) => Sorted(table)

(* dispatch_with_conversions looks only at parameters that are there.      *)
ArgumentsThere == \A t \in Threads : calls[t].phase # "undefined"
===============================================================================
