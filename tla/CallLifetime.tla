----------------------------- MODULE CallLifetime -----------------------------
(***************************************************************************)
(* How long temporaries live (Function_Push_Pop and Scope_Push_Pop of      *)
(* chaiscript_common.hpp, new_function_call and its kin in                 *)
(* dispatchkit.hpp, Conversion_Saves in type_conversions.hpp).             *)
(*                                                                         *)
(* A value passed between nodes may refer into an object somebody else     *)
(* owns: a C++ function that returns a reference into its argument, or one *)
(* whose parameter was made by a conversion.  Such objects are kept in     *)
(* call_params, one list per open scope, until the scope closes or the     *)
(* outermost call ends; converted ones wait in the thread's                *)
(* Conversion_Saves until the next call.  All of it is one thread's own.   *)
(***************************************************************************)
EXTENDS Integers, Sequences, FiniteSets

CONSTANTS
  MaxSize,   (* bound on the nodes at work and the objects made, together   *)
  MaxObjs,   (* bound on the objects made                                   *)
  MaxArgs    (* bound on what a node holds at a time                        *)

ASSUME LifetimeAssumption == MaxSize \in Nat /\ MaxObjs \in Nat /\ MaxArgs \in Nat

VARIABLES
  work,       (* what is being evaluated, outermost first                   *)
  depth,      (* Stack_Holder::call_depth                                   *)
  params,     (* Stack_Holder::call_params: the objects each scope keeps    *)
  enabled,    (* Conversion_Saves::enabled                                  *)
  saves,      (* Conversion_Saves::saves                                    *)
  unwinding,  (* an exception is on its way                                 *)
  made,       (* the number of objects made so far, which names them        *)
  exposed,    (* history: the conversions the code does not look after,     *)
              (* those that no call has taken before a scope is opened, and *)
              (* of a C++ function that the host called                     *)
  escaped     (* history: the objects made in a scope, or for an outermost  *)
              (* call, that handed out a reference to them                  *)

vars == <<work, depth, params, enabled, saves, unwinding, made, exposed, escaped>>

Obj == 1..MaxObjs

(* A value: the object itself, or a reference into an argument of the call *)
(* that returned it or into what that argument was converted to.           *)
Value == [of : {"own", "ref"}, obj : Obj]
RefTo(o) == [of |-> "ref", obj |-> o]

(* A node at work.  A "scope" holds what its variables are bound to, a     *)
(* "call" (function call, array call, member access) its arguments; it is  *)
(* inside a Function_Push_Pop from the start, an "operator" (binary,       *)
(* prefix) only once its operands are there, a "host" call not at all.     *)
(* conv: the converted arguments the C++ function refers to.  result: what *)
(* the body of a script function returned.  depth, level and since         *)
(* (call_depth, the number of scopes, and the objects there were when it   *)
(* began) are not in the code, which trusts destructors with them.         *)
Frame == [kind : {"scope", "call", "operator", "host"}, phase : {"args", "run"},
          args : SUBSET Value, saved : BOOLEAN, conv : SUBSET Obj, result : SUBSET Value,
          depth : Nat, level : Nat, since : Nat]

Counted(f) == f.kind = "call" \/ (f.kind = "operator" /\ f.phase = "run")
Owned(f) == { v.obj : v \in { a \in f.args : a.of = "own" } }

Top == work[Len(work)]
Under == SubSeq(work, 1, Len(work) - 1)
Here == Len(params)
InArgs == work # <<>> /\ Top.kind \in {"call", "operator"} /\ Top.phase = "args"
Fresh(n) == (made + 1)..(made + n)

New(kind, phase, conv, d, l) ==
  [kind |-> kind, phase |-> phase, args |-> {}, saved |-> FALSE, conv |-> conv, result |-> {},
   depth |-> d, level |-> l, since |-> made]
Push(f) == Len(work) + made < MaxSize /\ work' = Append(work, f)
RoomFor(n) == made + n <= MaxObjs /\ Len(work) + made + n <= MaxSize

Init ==
  /\ work = <<>>
  /\ depth = 0
  /\ params = << {} >>
  /\ enabled = FALSE
  /\ saves = {}
  /\ unwinding = FALSE
  /\ made = 0
  /\ exposed = {}
  /\ escaped = {}
-----------------------------------------------------------------------------
(* Mutant of NewFunctionCall: the saves are taken and dropped.             *)
NewFunctionCallDropsSaves(keep) ==
  /\ depth' = depth + 1
  /\ enabled' = (enabled \/ depth = 0)
  /\ params' = [params EXCEPT ![Here] = @ \cup keep]

(* new_function_call: the saves move to the current scope's list, where    *)
(* save_params adds the arguments `keep'.                                  *)
NewFunctionCall(keep) ==
  /\ depth' = depth + 1
  /\ enabled' = (enabled \/ depth = 0)
  /\ params' = [params EXCEPT ![Here] = @ \cup saves \cup keep]

(* Mutants of PopFunctionCall: every call clears the list; none does.      *)
PopFunctionCallClears ==
  /\ depth' = depth - 1
  /\ enabled' = (enabled /\ depth # 1)
  /\ params' = [params EXCEPT ![Here] = {}]

PopFunctionCallKeeps ==
  /\ depth' = depth - 1
  /\ enabled' = (enabled /\ depth # 1)
  /\ UNCHANGED params

(* pop_function_call.                                                      *)
PopFunctionCall ==
  /\ depth' = depth - 1
  /\ enabled' = (enabled /\ depth # 1)
  /\ params' = IF depth = 1 THEN [params EXCEPT ![Here] = {}] ELSE params

(* new_scope.                                                              *)
EnterScope ==
  /\ ~unwinding /\ ~InArgs
  /\ Push(New("scope", "run", {}, depth, Here + 1))
  /\ params' = Append(params, {})
  /\ exposed' = exposed \cup saves \cup UNION { work[i].conv : i \in 1..Len(work) }
  /\ UNCHANGED <<depth, enabled, saves, unwinding, made, escaped>>

(* What the function at work has names for: the variables of its scopes,   *)
(* and its parameters.                                                     *)
Variables ==
  UNION { work[i].args : i \in { i \in 1..Len(work) :
            /\ work[i].phase = "run"
            /\ \A j \in (i + 1)..Len(work) : work[j].kind = "scope" \/ work[j].phase = "args" } }

(* A reference to what was made since a node began is handed out of it.    *)
Escaping(v) == IF v.of = "ref" /\ v.obj > Top.since THEN escaped \cup {v.obj} ELSE escaped

(* The value goes to the node that asked for it: an operand, a variable of *)
(* the scope, bound without a copy, the scope's own value, or the result   *)
(* of the function whose body it ends.                                     *)
Takes(f) == (f.kind = "scope" \/ f.phase = "args") /\ Cardinality(f.args) < MaxArgs
Hand(v) ==
  LET to == Len(work) - 1 IN
  /\ to > 0
  /\ \/ Takes(work[to]) /\ work' = [Under EXCEPT ![to].args = @ \cup {v}]
     \/ Counted(work[to]) /\ work[to].phase = "run" /\ work' = [Under EXCEPT ![to].result = {v}]

(* pop_scope.  A block or a body ends with a value.                        *)
LeaveScope ==
  /\ work # <<>> /\ Top.kind = "scope"
  /\ params' = SubSeq(params, 1, Here - 1)
  /\ \/ work' = Under /\ UNCHANGED escaped
     \/ ~unwinding /\ \E v \in Variables : Hand(v) /\ escaped' = Escaping(v)
  /\ UNCHANGED <<depth, enabled, saves, unwinding, made, exposed>>

BeginCall ==
  /\ ~unwinding
  /\ Push(New("call", "args", {}, depth + 1, Here))
  /\ NewFunctionCall({})
  /\ saves' = {}
  /\ UNCHANGED <<unwinding, made, exposed, escaped>>

BeginOperator ==
  /\ ~unwinding
  /\ Push(New("operator", "args", {}, depth, Here))
  /\ UNCHANGED <<depth, params, enabled, saves, unwinding, made, exposed, escaped>>

(* An argument, or a variable, that is an object of its own.               *)
Operand ==
  /\ ~unwinding /\ RoomFor(1)
  /\ work # <<>> /\ Takes(Top)
  /\ made' = made + 1
  /\ work' = [work EXCEPT ![Len(work)].args = @ \cup {[of |-> "own", obj |-> made + 1]}]
  /\ UNCHANGED <<depth, params, enabled, saves, unwinding, exposed, escaped>>

(* An argument that is a variable.                                         *)
Name ==
  /\ ~unwinding /\ InArgs /\ Takes(Top)
  /\ \E v \in Variables : work' = [work EXCEPT ![Len(work)].args = @ \cup {v}]
  /\ UNCHANGED <<depth, params, enabled, saves, unwinding, made, exposed, escaped>>

(* The arguments are there: save_params, unless nobody uses the result,    *)
(* and the n conversions dispatch makes to call a C++ function.            *)
Call(save, n) ==
  /\ ~unwinding /\ RoomFor(n)
  /\ InArgs /\ Top.kind = "call"
  /\ params' = IF save THEN [params EXCEPT ![Here] = @ \cup Owned(Top)] ELSE params
  /\ saves' = IF enabled THEN saves \cup Fresh(n) ELSE saves
  /\ made' = made + n
  /\ work' = [work EXCEPT ![Len(work)] =
                [@ EXCEPT !.phase = "run", !.saved = save, !.conv = Fresh(n)]]
  /\ UNCHANGED <<depth, enabled, unwinding, exposed, escaped>>

Operate(n) ==
  /\ ~unwinding /\ RoomFor(n)
  /\ InArgs /\ Top.kind = "operator"
  /\ NewFunctionCall(Owned(Top))
  /\ saves' = Fresh(n)
  /\ made' = made + n
  /\ work' = [work EXCEPT ![Len(work)] =
                [@ EXCEPT !.phase = "run", !.saved = TRUE, !.conv = Fresh(n), !.depth = depth + 1]]
  /\ UNCHANGED <<unwinding, exposed, escaped>>

(* The host calls a C++ function of the engine through a std::function.    *)
HostCall(n) ==
  /\ ~unwinding /\ RoomFor(n)
  /\ work = <<>>
  /\ Push(New("host", "run", Fresh(n), 0, Here))
  /\ made' = made + n
  /\ exposed' = exposed \cup Fresh(n)
  /\ UNCHANGED <<depth, params, enabled, saves, unwinding, escaped>>

(* A function may return an argument, a reference into one or into what it *)
(* was converted to, and a script function what its body did.              *)
Results(f) == f.args \cup { RefTo(a.obj) : a \in f.args } \cup { RefTo(o) : o \in f.conv } \cup f.result

Return ==
  /\ ~unwinding /\ ~InArgs
  /\ work # <<>> /\ Counted(Top)
  /\ PopFunctionCall
  /\ \/ work' = Under /\ UNCHANGED escaped
     \/ Top.saved /\ \E v \in Results(Top) :
          Hand(v) /\ escaped' = IF depth = 1 THEN Escaping(v) ELSE escaped
  /\ UNCHANGED <<saves, unwinding, made, exposed>>

HostReturn ==
  /\ work # <<>> /\ Top.kind = "host"
  /\ work' = Under
  /\ UNCHANGED <<depth, params, enabled, saves, unwinding, made, exposed, escaped>>

(* An exception: the destructors run, without a result.                    *)
Throw ==
  /\ ~unwinding /\ work # <<>>
  /\ unwinding' = TRUE
  /\ UNCHANGED <<work, depth, params, enabled, saves, made, exposed, escaped>>

(* Mutant of Unwind: an exception skips pop_function_call.                 *)
UnwindForgets ==
  /\ unwinding /\ work # <<>> /\ Top.kind \in {"call", "operator"}
  /\ work' = Under
  /\ UNCHANGED <<depth, enabled, params, saves, unwinding, made, exposed, escaped>>

Unwind ==
  /\ unwinding /\ work # <<>> /\ Top.kind \in {"call", "operator"}
  /\ IF Counted(Top) THEN PopFunctionCall ELSE UNCHANGED <<depth, enabled, params>>
  /\ work' = Under
  /\ UNCHANGED <<saves, unwinding, made, exposed, escaped>>

(* A Try node, dispatch trying another overload, or the host.              *)
Catch ==
  /\ unwinding
  /\ work # <<>> => Top.kind = "scope" \/ (Counted(Top) /\ Top.phase = "run")
  /\ unwinding' = FALSE
  /\ UNCHANGED <<work, depth, params, enabled, saves, made, exposed, escaped>>

Next ==
  \/ EnterScope \/ LeaveScope
  \/ BeginCall \/ BeginOperator \/ Operand \/ Name
  \/ \E n \in 0..1 : Operate(n) \/ HostCall(n) \/ \E save \in BOOLEAN : Call(save, n)
  \/ Return \/ HostReturn
  \/ Throw \/ Unwind \/ Catch

Spec == Init /\ [][Next]_vars
-----------------------------------------------------------------------------
TypeOK ==
  /\ work \in Seq(Frame)
  /\ depth \in Nat
  /\ params \in Seq(SUBSET Obj)
  /\ enabled \in BOOLEAN
  /\ saves \subseteq Obj
  /\ unwinding \in BOOLEAN
  /\ made \in 0..MaxObjs
  /\ exposed \subseteq Obj /\ escaped \subseteq Obj

Alive(o) ==
  \/ o \in saves
  \/ \E k \in 1..Len(params) : o \in params[k]
  \/ \E i \in 1..Len(work) : o \in Owned(work[i])

(* Every construct leaves the depth and the scopes as it found them,       *)
(* whichever way it is left, and conversions are saved just while some     *)
(* call is going on.                                                       *)
Balanced ==
  /\ IF work = <<>> THEN depth = 0 /\ Here = 1
     ELSE depth = Top.depth /\ Here = Top.level
  /\ enabled = (depth > 0)

(* What an argument, a variable or a result refers to is there, also after *)
(* the calls and scopes are left that it was handed out of: what           *)
(* call_params is for.  Not so, as of a C++ reference, what was made in    *)
(* the scope that handed it out, or for the outermost call; and not the    *)
(* conversions that a scope takes with it.                                 *)
ReferredAlive ==
  \A i \in 1..Len(work) : \A v \in work[i].args \cup work[i].result :
    v.of = "ref" => v.obj \in exposed \cup escaped \/ Alive(v.obj)

(* Between calls no argument is kept, whatever scopes are open.            *)
Released == depth = 0 => \A k \in 1..Here : params[k] = {}

(* A C++ function's converted arguments are there while it runs, unless    *)
(* it calls back a script function that opens a scope, or is called by the *)
(* host.                                                                   *)
ConvertedAlive ==
  \A i \in 1..Len(work) : \A o \in work[i].conv \ exposed : Alive(o)
-----------------------------------------------------------------------------
(* The inductive invariant of the proofs.  The depth and the level of a    *)
(* node are those of the node below, plus what the node itself opened, so  *)
(* that whatever is popped last in, first out leaves them right.           *)
DepthBelow(i) == IF i = 1 THEN 0 ELSE work[i - 1].depth
LevelBelow(i) == IF i = 1 THEN 1 ELSE work[i - 1].level

(* The objects a node holds.                                               *)
Held(f) == { v.obj : v \in f.args \cup f.result } \cup f.conv

Nested ==
  \A i \in 1..Len(work) :
    /\ work[i].depth = DepthBelow(i) + (IF Counted(work[i]) THEN 1 ELSE 0)
    /\ work[i].level = LevelBelow(i) + (IF work[i].kind = "scope" THEN 1 ELSE 0)
    /\ work[i].level >= 1
    /\ work[i].depth >= 1 => \E j \in 1..i : Counted(work[j])
    /\ \A j \in 1..i : work[i].level > LevelBelow(j) => \E k \in j..i : work[k].kind = "scope"
    /\ work[i].since <= made
    /\ \A o \in Held(work[i]) : o <= made

Ordered ==
  \A i, j \in 1..Len(work) : i < j =>
    /\ work[i].depth <= work[j].depth
    /\ work[i].level <= work[j].level
    /\ work[i].since <= work[j].since
    /\ \A o \in Held(work[i]) : o <= work[j].since
    /\ Counted(work[j]) => work[i].depth < work[j].depth
    /\ work[j].kind = "scope" => work[i].level < work[j].level

(* What keeps an object for the nodes under the j-th: one that owns it, or *)
(* a list of one of their scopes, but not between calls.                   *)
KeptBelow(o, j) ==
  \/ \E i \in 1..(j - 1) : o \in Owned(work[i])
  \/ DepthBelow(j) > 0 /\ (o \in saves \/ \E k \in 1..LevelBelow(j) : o \in params[k])

(* What a node holds that is older than a node is kept below that, and     *)
(* what it refers to in any case.                                          *)
KeptValue(v, i) ==
  \/ v.obj \in exposed \cup escaped
  \/ /\ \A j \in 1..i : v.obj <= work[j].since => KeptBelow(v.obj, j)
     /\ v.of = "ref" => KeptBelow(v.obj, i + 1)

KeptConv(i) == \A o \in work[i].conv \ exposed : o > work[i].since /\ KeptBelow(o, i + 1)

KeptOwned(i) ==
  Counted(work[i]) /\ work[i].phase = "run" /\ work[i].saved =>
    Owned(work[i]) \subseteq params[work[i].level]

Kept ==
  \A i \in 1..Len(work) :
    /\ \A v \in work[i].args \cup work[i].result : KeptValue(v, i)
    /\ KeptConv(i)
    /\ KeptOwned(i)

(* Conversions that wait were made since the innermost scope was opened.   *)
Waiting == \A o \in saves \ exposed : \A i \in 1..Len(work) : work[i].kind = "scope" => o > work[i].since

(* A list below the outermost call's is empty.                             *)
EmptyBelow ==
  \A k \in 1..Here :
    (\A i \in 1..Len(work) : Counted(work[i]) => work[i].level > k) => params[k] = {}

IInv == TypeOK /\ Balanced /\ Nested /\ Ordered /\ Kept /\ Waiting /\ EmptyBelow
===============================================================================
