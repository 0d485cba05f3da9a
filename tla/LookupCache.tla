------------------------------ MODULE LookupCache ------------------------------
(***************************************************************************)
(* Name lookup in the dispatch engine (dispatchkit.hpp).                   *)
(*                                                                         *)
(* Every identifier of a script is an Id_AST_Node that owns one atomic     *)
(* integer, m_loc.  get_object() stores in it where the name was found the *)
(* first time and trusts it from then on.  The node is shared by every     *)
(* call of the function it belongs to and by every thread that runs it,    *)
(* while the stack it indexes belongs to one thread and one call.          *)
(*                                                                         *)
(* The module runs a program (a control flow graph of the operations that  *)
(* change a stack or look a name up) on several threads.  A value is       *)
(* abstracted to the place it is bound at; a scope is the sequence of the  *)
(* names bound in it, in the order of QuickFlatMap's vector.               *)
(***************************************************************************)
EXTENDS Integers, SequencesExt

CONSTANTS
  Threads,    (* threads that evaluate script code on one engine            *)
  Names,      (* identifiers                                                *)
  Points,     (* program points; a point with op "id" is an Id_AST_Node     *)
  Functions,  (* script functions and lambdas                               *)
  Code,       (* [Points -> Instruction]                                    *)
  Fun,        (* [Functions -> FunctionRecord]                              *)
  NoPoint,    (* the program point of a thread's outermost stack            *)
  MaxDist,    (* scope distances the stack_mask bits can hold: 4096 in code *)
  MaxDepth    (* BOUND on the stacks of one thread                          *)

Ops == {"var", "push", "pop", "id", "call", "attr", "ret", "global", "def", "skip"}
CallOps == {"call", "attr"}

Instruction == [op : Ops, name : Names, fun : Functions, succ : SUBSET Points]

(* locals: the captures, then the parameters other than "this", in the     *)
(* order eval_function adds them.                                          *)
FunctionRecord ==
  [entry : Points, locals : Seq(Names), takesParams : BOOLEAN, capturesThis : BOOLEAN]

ASSUME ProgramAssumption ==
  /\ {"this", "__this"} \subseteq Names
  /\ NoPoint \notin Points
  /\ Code \in [Points -> Instruction]
  /\ Fun \in [Functions -> FunctionRecord]
  /\ MaxDist \in Nat \ {0}
  /\ MaxDepth \in Nat

VARIABLES
  frames,   (* Stack_Holder::stacks of each thread, innermost stack last     *)
  loc,      (* m_loc of each Id_AST_Node, shared by all threads              *)
  look,     (* the get_object call each thread is in, or its last answer     *)
  globals,  (* names in m_state.m_global_objects                             *)
  funs,     (* names in m_state.m_functions / m_boxed_functions, in order    *)
  saved     (* a State the host took with get_state()                        *)

vars == <<frames, loc, look, globals, funs, saved>>
-----------------------------------------------------------------------------
(* The values of m_loc.  A function's index carries no flag bit, so index 0 *)
(* reads back as "never looked up".                                         *)
Unset == [kind |-> "unset", d |-> 0, i |-> 0]
Located == [kind |-> "located", d |-> 0, i |-> 0]
LocalAt(d, i) == [kind |-> "local", d |-> d % MaxDist, i |-> i]
Hint(k) == IF k = 0 THEN Unset ELSE [kind |-> "hint", d |-> 0, i |-> k]

LocValue == [kind : {"unset", "located", "local", "hint"}, d : Nat, i : Nat]

(* What get_object returned: the binding at name i of scope s, memory that *)
(* is no binding, a global, the function at index i, or an exception.      *)
Answer == [kind : {"none", "local", "garbage", "global", "function", "error"}, s : Int, i : Nat]
NoAnswer == [kind |-> "none", s |-> 0, i |-> 0]
LocalAnswer(s, i) == [kind |-> "local", s |-> s, i |-> i]
GarbageAnswer == [kind |-> "garbage", s |-> 0, i |-> 0]
GlobalAnswer == [kind |-> "global", s |-> 0, i |-> 0]
FunctionAnswer(k) == [kind |-> "function", s |-> 0, i |-> k]
ErrorAnswer == [kind |-> "error", s |-> 0, i |-> 0]

Lookup == [phase : {"idle", "loaded", "shared", "done"}, loc : LocValue, answer : Answer]
NotLooking == [phase |-> "idle", loc |-> Unset, answer |-> NoAnswer]

Frame == [point : Points \cup {NoPoint}, scopes : Seq(Seq(Names))]
BaseFrame == [point |-> NoPoint, scopes |-> << <<>> >>]
-----------------------------------------------------------------------------
ReplaceLast(s, e) == [s EXCEPT ![Len(s)] = e]

Binds(scope, n) == \E i \in 1..Len(scope) : scope[i] = n

(* The positions the two nested loops of get_object can stop at: the first *)
(* entry called n of the innermost scope that has one.                     *)
Positions(scopes) ==
  UNION { { [s |-> s, i |-> i] : i \in 1..Len(scopes[s]) } : s \in 1..Len(scopes) }
Hits(scopes, n) ==
  { pos \in Positions(scopes) :
      /\ scopes[pos.s][pos.i] = n
      /\ \A j \in 1..(pos.i - 1) : scopes[pos.s][j] # n
      /\ \A s \in (pos.s + 1)..Len(scopes) : ~Binds(scopes[s], n) }
FirstHit(scopes, n) == CHOOSE pos \in Hits(scopes, n) : TRUE

(* Mutants of Encoded: the distance taken from the wrong end, the index    *)
(* one short.                                                              *)
EncodedFromBottom(scopes, n) ==
  LET pos == FirstHit(scopes, n) IN LocalAt(pos.s - 1, pos.i - 1)
(* The locals search of get_object, as m_loc encodes it.                   *)
Encoded(scopes, n) ==
  LET pos == FirstHit(scopes, n) IN LocalAt(Len(scopes) - pos.s, pos.i - 1)

(* stack[stack.size() - 1 - distance].at_index(index): neither the name    *)
(* nor the bounds are checked.                                             *)
AtCached(scopes, l) ==
  LET s == Len(scopes) - l.d IN
  IF s \in 1..Len(scopes) /\ l.i < Len(scopes[s])
  THEN LocalAnswer(s, l.i + 1)
  ELSE GarbageAnswer

(* QuickFlatMap::find, and find with a hint, which checks the hinted key.  *)
FunctionIndex(fs, n) == CHOOSE k \in 0..(Len(fs) - 1) : fs[k + 1] = n
FindHintTrusted(fs, n, l) ==   \* mutant: the hinted key is not compared
  IF l.kind # "located" /\ l.i < Len(fs) THEN l.i ELSE FunctionIndex(fs, n)
FindHinted(fs, n, l) ==
  IF l.kind # "located" /\ l.i < Len(fs) /\ fs[l.i + 1] = n
  THEN l.i
  ELSE FunctionIndex(fs, n)

(* eval_function: "this" is the object of an attribute call, which         *)
(* This_Foist left as the newest entry of the caller's scope, or the first *)
(* parameter, if there is one.                                             *)
Foisted(scopes) == Last(scopes) # <<>> /\ Last(Last(scopes)) = "__this"
EntryScope(f, foisted) ==
  IF (foisted \/ Fun[f].takesParams) /\ ~Fun[f].capturesThis
  THEN <<"this">> \o Fun[f].locals
  ELSE Fun[f].locals
Activation(f, foisted) == [point |-> Fun[f].entry, scopes |-> << EntryScope(f, foisted) >>]
-----------------------------------------------------------------------------
Top(t) == Last(frames[t])
Instr(t) == Code[Top(t).point]
At(t, op) == Top(t).point # NoPoint /\ Instr(t).op = op /\ look[t].phase = "idle"
MayEnter(q, depth) == Code[q].op \in CallOps => depth < MaxDepth

(* The thread's innermost stack becomes scopes and control moves on.       *)
Goto(t, scopes) ==
  \E q \in Instr(t).succ :
    /\ MayEnter(q, Len(frames[t]))
    /\ frames' = [frames EXCEPT ![t] = ReplaceLast(@, [point |-> q, scopes |-> scopes])]

(* An exception nothing catches pops every stack the evaluation pushed.    *)
Abandon(t) == frames' = [frames EXCEPT ![t] = << BaseFrame >>]

Init ==
  /\ frames = [t \in Threads |-> << BaseFrame >>]
  /\ loc = [p \in Points |-> Unset]
  /\ look = [t \in Threads |-> NotLooking]
  /\ globals = {}
  /\ funs = <<>>
  /\ saved = [globals |-> {}, funs |-> <<>>]

(* C++ code, or std::async, calls a script function on this thread.        *)
Start(t, f) ==
  /\ Top(t).point = NoPoint
  /\ frames' = [frames EXCEPT ![t] = Append(@, Activation(f, Foisted(Top(t).scopes)))]
  /\ UNCHANGED <<loc, look, globals, funs, saved>>

(* Var_Decl and Assign_Decl: add_object on the innermost scope.            *)
DeclareVar(t) ==
  LET scopes == Top(t).scopes  n == Instr(t).name IN
  /\ At(t, "var")
  /\ \/ Binds(Last(scopes), n) /\ Abandon(t)
     \/ ~Binds(Last(scopes), n) /\ Goto(t, ReplaceLast(scopes, Append(Last(scopes), n)))
  /\ UNCHANGED <<loc, look, globals, funs, saved>>

(* Scope_Push_Pop of a Block.                                              *)
PushScope(t) ==
  /\ At(t, "push")
  /\ Goto(t, Append(Top(t).scopes, <<>>))
  /\ UNCHANGED <<loc, look, globals, funs, saved>>

PopScopeForgotten(t) ==   \* mutant
  /\ At(t, "pop")
  /\ Goto(t, Top(t).scopes)
  /\ UNCHANGED <<loc, look, globals, funs, saved>>

PopScope(t) ==
  /\ At(t, "pop")
  /\ Goto(t, Front(Top(t).scopes))
  /\ UNCHANGED <<loc, look, globals, funs, saved>>

(* A condition, whose value the model leaves open.                         *)
Branch(t) ==
  /\ At(t, "skip")
  /\ Goto(t, Top(t).scopes)
  /\ UNCHANGED <<loc, look, globals, funs, saved>>

(* Fun_Call of a script function: eval_function pushes a stack.            *)
Call(t) ==
  /\ At(t, "call")
  /\ frames' = [frames EXCEPT
       ![t] = Append(@, Activation(Instr(t).fun, Foisted(Top(t).scopes)))]
  /\ UNCHANGED <<loc, look, globals, funs, saved>>

(* call_member on a function held in an attribute: This_Foist first pushes *)
(* a scope with "__this" on the caller's stack.                            *)
CallAttribute(t) ==
  /\ At(t, "attr")
  /\ frames' = [frames EXCEPT
       ![t] = Append(ReplaceLast(@, [Top(t) EXCEPT !.scopes = Append(@, <<"__this">>)]),
                     Activation(Instr(t).fun, TRUE))]
  /\ UNCHANGED <<loc, look, globals, funs, saved>>

ReturnKeepsFoist(t) ==   \* mutant: This_Foist is not undone
  LET below == Front(frames[t])  caller == Last(below) IN
  /\ At(t, "ret")
  /\ \/ caller.point = NoPoint /\ frames' = [frames EXCEPT ![t] = below]
     \/ /\ caller.point # NoPoint
        /\ \E q \in Code[caller.point].succ :
             /\ MayEnter(q, Len(below))
             /\ frames' = [frames EXCEPT ![t] = ReplaceLast(below, [caller EXCEPT !.point = q])]
  /\ UNCHANGED <<loc, look, globals, funs, saved>>

(* Stack_Push_Pop and, for an attribute call, This_Foist are undone and    *)
(* the caller goes on; the outermost call ends the evaluation.             *)
Return(t) ==
  LET below == Front(frames[t])  caller == Last(below) IN
  /\ At(t, "ret")
  /\ \/ /\ caller.point = NoPoint
        /\ frames' = [frames EXCEPT ![t] = below]
     \/ /\ caller.point # NoPoint
        /\ \E q \in Code[caller.point].succ :
             /\ MayEnter(q, Len(below))
             /\ frames' = [frames EXCEPT ![t] = ReplaceLast(below,
                  [point  |-> q,
                   scopes |-> IF Code[caller.point].op = "attr"
                              THEN Front(caller.scopes) ELSE caller.scopes])]
  /\ UNCHANGED <<loc, look, globals, funs, saved>>

(* Global_Decl: add_global_no_throw keeps an existing global.              *)
DeclareGlobal(t) ==
  /\ At(t, "global")
  /\ globals' = globals \cup {Instr(t).name}
  /\ Goto(t, Top(t).scopes)
  /\ UNCHANGED <<loc, look, funs, saved>>

(* Def: add_function appends a new name, or extends its overloads, or      *)
(* throws as one of them is the same function.                             *)
DefineFunction(t) ==
  LET n == Instr(t).name IN
  /\ At(t, "def")
  /\ \/ ~Binds(funs, n) /\ funs' = Append(funs, n) /\ Goto(t, Top(t).scopes)
     \/ Binds(funs, n) /\ UNCHANGED funs /\ (Goto(t, Top(t).scopes) \/ Abandon(t))
  /\ UNCHANGED <<loc, look, globals, saved>>
-----------------------------------------------------------------------------
(* get_object, step 1: loc = t_loc.                                        *)
LoadLoc(t) ==
  /\ At(t, "id")
  /\ look' = [look EXCEPT ![t] =
       [phase |-> "loaded", loc |-> loc[Top(t).point], answer |-> NoAnswer]]
  /\ UNCHANGED <<frames, loc, globals, funs, saved>>

Enter(t, phase, ans) ==
  look' = [look EXCEPT ![t] = [phase |-> phase, loc |-> look[t].loc, answer |-> ans]]

(* Step 2: search this thread's stack, or trust the cached position.       *)
ResolveLocal(t) ==
  LET scopes == Top(t).scopes
      n      == Instr(t).name
      l      == look[t].loc
  IN
  /\ look[t].phase = "loaded"
  /\ \/ /\ l.kind = "unset"
        /\ Hits(scopes, n) # {}
        /\ loc' = [loc EXCEPT ![Top(t).point] = Encoded(scopes, n)]
        /\ Enter(t, "done", LocalAnswer(FirstHit(scopes, n).s, FirstHit(scopes, n).i))
     \/ /\ l.kind = "unset"
        /\ Hits(scopes, n) = {}
        /\ loc' = [loc EXCEPT ![Top(t).point] = Located]
        /\ Enter(t, "shared", NoAnswer)
     \/ /\ l.kind = "local"
        /\ Enter(t, "done", AtCached(scopes, l))
        /\ UNCHANGED loc
     \/ /\ l.kind \in {"located", "hint"}
        /\ Enter(t, "shared", NoAnswer)
        /\ UNCHANGED loc
  /\ UNCHANGED <<frames, globals, funs, saved>>

(* Step 3, under a shared_lock of m_mutex: globals, then functions.        *)
ResolveShared(t) ==
  LET n == Instr(t).name
      k == FindHinted(funs, n, look[t].loc)
  IN
  /\ look[t].phase = "shared"
  /\ \/ /\ n \in globals
        /\ Enter(t, "done", GlobalAnswer)
        /\ UNCHANGED loc
     \/ /\ n \notin globals
        /\ Binds(funs, n)
        /\ Enter(t, "done", FunctionAnswer(k))
        /\ loc' = IF look[t].loc = Hint(k) THEN loc ELSE [loc EXCEPT ![Top(t).point] = Hint(k)]
     \/ /\ n \notin globals
        /\ ~Binds(funs, n)
        /\ Enter(t, "done", ErrorAnswer)
        /\ UNCHANGED loc
  /\ UNCHANGED <<frames, globals, funs, saved>>

(* Evaluation goes on with the answer, or with eval_error "Can not find    *)
(* object".                                                                *)
FinishLookup(t) ==
  /\ look[t].phase = "done"
  /\ look' = [look EXCEPT ![t] = NotLooking]
  /\ \/ look[t].answer.kind = "error" /\ Abandon(t)
     \/ look[t].answer.kind # "error" /\ Goto(t, Top(t).scopes)
  /\ UNCHANGED <<loc, globals, funs, saved>>

(* Dispatch_Engine::get_state and set_state, called by the host.           *)
GetState ==
  /\ saved' = [globals |-> globals, funs |-> funs]
  /\ UNCHANGED <<frames, loc, look, globals, funs>>

SetState ==
  /\ globals' = saved.globals
  /\ funs' = saved.funs
  /\ UNCHANGED <<frames, loc, look, saved>>

ThreadStep(t) ==
  \/ \E f \in Functions : Start(t, f)
  \/ DeclareVar(t) \/ PushScope(t) \/ PopScope(t) \/ Branch(t)
  \/ Call(t) \/ CallAttribute(t) \/ Return(t)
  \/ DeclareGlobal(t) \/ DefineFunction(t)
  \/ LoadLoc(t) \/ ResolveLocal(t) \/ ResolveShared(t) \/ FinishLookup(t)

Next == (\E t \in Threads : ThreadStep(t)) \/ GetState \/ SetState

Spec == Init /\ [][Next]_vars
-----------------------------------------------------------------------------
TypeOK ==
  /\ frames \in [Threads -> Seq(Frame)]
  /\ loc \in [Points -> LocValue]
  /\ look \in [Threads -> Lookup]
  /\ globals \in SUBSET Names
  /\ funs \in Seq(Names)
  /\ saved \in [globals : SUBSET Names, funs : Seq(Names)]

(* Whatever m_loc held, a finished lookup answered what searching the      *)
(* thread's own stack would have: the innermost binding of the name if the *)
(* stack has one, a global, a function or an error only if it has none.    *)
(* "Searches the current stack for an object of the given name",           *)
(* dispatchkit.hpp:500.                                                    *)
LookupAgrees ==
  \A t \in Threads : look[t].phase = "done" =>
    LET hits == Hits(Top(t).scopes, Instr(t).name)
        ans  == look[t].answer
    IN IF hits # {}
       THEN ans.kind = "local" /\ [s |-> ans.s, i |-> ans.i] \in hits
       ELSE ans.kind \in {"global", "function", "error"}

(* A lookup that leaves the stack answers from the tables as they are at   *)
(* that moment, whichever set_state replaced them since the hint was       *)
(* stored: the function returned is the one of that name.                  *)
SharedAnswerFresh ==
  [][\A t \in Threads : (look[t].phase = "shared" /\ look'[t].phase = "done") =>
       LET n == Instr(t).name  ans == look'[t].answer IN
       CASE n \in globals -> ans.kind = "global"
         [] n \notin globals /\ Binds(funs, n) ->
              ans.kind = "function" /\ ans.i < Len(funs) /\ funs[ans.i + 1] = n
         [] OTHER -> ans.kind = "error"]_vars

(* Once a node has cached a stack position, no thread changes it: racing   *)
(* first lookups of one node agree.                                        *)
CachedPositionStable ==
  [][\A p \in Points : loc[p].kind = "local" => loc'[p] = loc[p]]_vars
===============================================================================
