--------------------------------- MODULE Boxes ---------------------------------
(***************************************************************************)
(* Boxed_Value: the variables of a script, the Data records they refer to, *)
(* and the C++ objects those hold or refer to.  What a C++ function        *)
(* returns is boxed by Handle_Return, what it is given is unboxed by       *)
(* Cast_Helper; a declaration copies its value unless it is a temporary.   *)
(* Objects are of one type with a copy constructor; what they contain, and *)
(* the attributes of boxed values, do not matter here.                     *)
(***************************************************************************)
EXTENDS Naturals

CONSTANTS
  Names,        (* the variables of a script                                *)
  Parameters,   (* those of them that are parameters of script functions    *)
  Ids,          (* bound: the Data records there can be at a time           *)
  Objects,      (* bound: the objects there can be at a time                *)
  Hosted,       (* those of them that the host owns and keeps for ever      *)
  HostConst,    (* those of the host's that are const                       *)
  None

ASSUME BoxesAssumption ==
  /\ Parameters \subseteq Names
  /\ HostConst \subseteq Hosted /\ Hosted \subseteq Objects
  /\ None \notin Ids \cup Objects

VARIABLES
  bound,     (* [Names -> Ids \cup {None}]: what a name is bound to       *)
  data,      (* [Ids -> Box]: Boxed_Value::Data                             *)
  isConst,   (* the objects that were made const                            *)
  sharing,   (* the objects that the script or the host shares on purpose   *)
  updating   (* the Data whose smart pointer a running function may change  *)

boxVars == <<bound, data, isConst, sharing, updating>>

(* How m_obj has its object, the object, the two pointers beside it, and   *)
(* what m_type_info and m_return_value say of it.  Two more say what the   *)
(* code does not record: that the value was returned as a temporary by a   *)
(* function that did not make the object, and that a function has changed  *)
(* its unique_ptr.                                                         *)
Box == [kind : {"none", "shared", "ref", "unique"}, obj : Objects \cup {None},
        ptr : Objects \cup {None}, cptr : Objects \cup {None},
        const : BOOLEAN, temp : BOOLEAN, borrowed : BOOLEAN, lent : BOOLEAN]

NewBox(kind, o, const, temp) ==
  [kind |-> kind, obj |-> o, const |-> const, temp |-> temp,
   ptr |-> IF const THEN None ELSE o, cptr |-> o, borrowed |-> FALSE, lent |-> FALSE]
Undef == NewBox("none", None, FALSE, FALSE)

Used == {bound[n] : n \in Names}
Held == (Hosted \cup {data[d].obj : d \in Used \ {None}}) \ {None}

BoxesInit ==
  /\ bound = [n \in Names |-> None]
  /\ data = [d \in Ids |-> Undef]
  /\ isConst = HostConst
  /\ sharing = {}
  /\ updating = None
-----------------------------------------------------------------------------
(* Cast_Helper_Inner: what a cast to a kind of C++ parameter refers to.    *)
ReadingCasts == {"const T&", "const T*", "shared_ptr<const T>"}
WritingCasts == {"T&", "T*", "shared_ptr<T>", "unique_ptr<T>&"}

Refused == [ok |-> FALSE, obj |-> None]
Yields(o) == [ok |-> TRUE, obj |-> o]
verify_type(p) == IF p = None THEN Refused ELSE Yields(p)
Cast_Helper(b, to) ==
  CASE b.kind = "none" -> Refused
    [] b.kind # "none" /\ to = "const T&" -> verify_type(b.cptr)
    [] b.kind # "none" /\ to = "const T*" -> Yields(b.cptr)
    [] b.kind # "none" /\ to = "T&" -> IF b.const THEN Refused ELSE verify_type(b.ptr)
    [] b.kind # "none" /\ to = "T*" -> IF b.const THEN Refused ELSE Yields(b.ptr)
    [] b.kind # "none" /\ to = "shared_ptr<const T>" ->
         IF b.kind = "shared" THEN Yields(b.obj) ELSE Refused
    [] b.kind # "none" /\ to = "shared_ptr<T>" ->
         IF b.kind = "shared" /\ ~b.const THEN Yields(b.obj) ELSE Refused
    [] b.kind # "none" /\ to = "unique_ptr<T>&" ->
         IF b.kind = "unique" THEN Yields(b.obj) ELSE Refused

(* Handle_Return: how the result of a C++ function is boxed.  The function *)
(* made the object: T, const T, shared_ptr<const T>, unique_ptr<T>.        *)
MadeBoxes(o) ==
  {NewBox("shared", o, FALSE, TRUE), NewBox("shared", o, FALSE, FALSE),
   NewBox("shared", o, TRUE, TRUE), NewBox("unique", o, FALSE, TRUE)}

(* The pointers beside a unique_ptr that was changed may be dangling; what *)
(* a call with them would do is undefined, and no such call is made here.  *)
Usable(n) == bound[n] # None /\ bound[n] # updating
Sound(n) == Usable(n) /\ ~data[bound[n]].lent

(* Or the object is one of the host's, or one that the function was given: *)
(* const T& and const T*; T&; T*; shared_ptr<const T>; shared_ptr<T>.      *)
Given(to) == {Cast_Helper(data[bound[n]], to).obj : n \in {n \in Names : Sound(n)}} \ {None}
ConstRefs == {NewBox("ref", o, TRUE, TRUE) : o \in Hosted \cup Given("const T&")}
Refs == {NewBox("ref", o, FALSE, FALSE) : o \in (Hosted \ HostConst) \cup Given("T&")}
RawPointers == {NewBox("ref", o, FALSE, TRUE) : o \in (Hosted \ HostConst) \cup Given("T*")}
ConstPointers == {NewBox("shared", o, TRUE, TRUE) : o \in Hosted \cup Given("shared_ptr<const T>")}
Pointers ==
  {NewBox("shared", o, FALSE, TRUE) : o \in (Hosted \ HostConst) \cup Given("shared_ptr<T>") \cup {None}}
GivenBoxes == ConstRefs \cup Refs \cup RawPointers \cup ConstPointers \cup Pointers

(* The values an expression can have: the Data, with the state in which it *)
(* is there.  A function's result has a new one; d and o are free here.    *)
Value(d, records, const, from) == [id |-> d, data |-> records, isConst |-> const, from |-> from]
Variables == {Value(bound[n], data, isConst, "variable") : n \in {n \in Names : Usable(n)}}
Made(d, o) ==
  {Value(d, [data EXCEPT ![d] = b], isConst \cup (IF b.const THEN {o} ELSE {}), "made") : b \in MadeBoxes(o)}
Borrowing(b) == [b EXCEPT !.borrowed = b.temp /\ b.obj \notin Hosted \cup {None}]
Passed(d) == {Value(d, [data EXCEPT ![d] = Borrowing(b)], isConst, "given") : b \in GivenBoxes}
Results(d, o) == Variables \cup Made(d, o) \cup Passed(d)
BoxOf(v) == v.data[v.id]

(* Data::operator= takes all over; the first form forgets the type.        *)
OverwrittenOfOldType(old, new) == [new EXCEPT !.const = old.const]
Overwritten(old, new) == new

(* clone_if_necessary: a temporary is taken over, anything else is copied. *)
(* StillTemporary forgets to say that it is none any more.                 *)
StillTemporary(v) == v
TakenOver(v) == [v EXCEPT !.data[v.id].temp = FALSE]
Copied(v, d, o) ==
  Value(d, [v.data EXCEPT ![d] = NewBox("shared", o, FALSE, FALSE)], isConst, "made")
clone_if_necessary(v, d, o) ==
  IF BoxOf(v).temp THEN {TakenOver(v)}
  ELSE IF Cast_Helper(BoxOf(v), "const T&").ok /\ ~BoxOf(v).lent THEN {Copied(v, d, o)} ELSE {}

(* := and the host share the object of a value, unless it was made.  What  *)
(* is kept is kept of objects that are there; the host's are shared anyway.*)
Shared(v) == sharing \cup (IF v.from = "made" THEN {} ELSE {BoxOf(v).obj})
Keep(const, share) == isConst' = const \cap Held' /\ sharing' = share \cap (Held' \ Hosted)
-----------------------------------------------------------------------------
(* var n *)
VarDecl(n, d) ==
  /\ bound[n] = None /\ n \notin Parameters
  /\ bound' = [bound EXCEPT ![n] = d]
  /\ data' = [data EXCEPT ![d] = Undef] /\ Keep(isConst, sharing)
  /\ UNCHANGED updating

(* var n = v *)
AssignDecl(n, v, d, o) ==
  /\ bound[n] = None /\ n \notin Parameters
  /\ \E c \in clone_if_necessary(v, d, o) :
       /\ bound' = [bound EXCEPT ![n] = c.id]
       /\ data' = c.data /\ Keep(c.isConst, sharing)
  /\ UNCHANGED updating

(* n = v, n having no value yet: unknown_assign.  What is copied from ends *)
(* with the expression, unless it is a variable.                           *)
Left(c) == IF c.from = "variable" THEN c.data ELSE data
AssignUndef(n, v, d, o) ==
  /\ Usable(n) /\ data[bound[n]].kind = "none"
  /\ UNCHANGED <<bound, updating>>
  /\ \E c \in clone_if_necessary(v, d, o) :
       /\ data' = [Left(c) EXCEPT ![bound[n]] = Overwritten(data[bound[n]], BoxOf(c))]
       /\ Keep(c.isConst, sharing)

(* n := v, and auto &n = v: Boxed_Value::assign *)
AssignRef(n, v) ==
  /\ Usable(n) /\ ~data[bound[n]].temp /\ ~data[bound[n]].const
  /\ data[bound[n]].kind = "none" \/ BoxOf(v).kind # "none"
  /\ data' = [data EXCEPT ![bound[n]] = [Overwritten(data[bound[n]], BoxOf(v)) EXCEPT !.temp = FALSE]]
  /\ UNCHANGED <<bound, updating>>
  /\ Keep(v.isConst, Shared(v))

(* A script function is called with v as its parameter n. *)
Pass(n, v) ==
  /\ bound[n] = None /\ n \in Parameters
  /\ bound' = [bound EXCEPT ![n] = v.id]
  /\ data' = v.data /\ Keep(v.isConst, sharing)
  /\ UNCHANGED updating

(* The host adds a variable: Boxed_Value(x), or const_var(x). *)
HostAdd(n, v) ==
  /\ bound[n] = None /\ n \notin Parameters
  /\ v.from # "variable"
  /\ bound' = [bound EXCEPT ![n] = v.id]
  /\ data' = TakenOver(v).data /\ Keep(v.isConst, Shared(v))
  /\ UNCHANGED updating

(* A scope or a function ends. *)
Drop(n) ==
  /\ Usable(n)
  /\ bound' = [bound EXCEPT ![n] = None]
  /\ data' = IF \E m \in Names \ {n} : bound[m] = bound[n] THEN data ELSE [data EXCEPT ![bound[n]] = Undef]
  /\ Keep(isConst, sharing)
  /\ UNCHANGED updating

(* A C++ function with one parameter shared_ptr<T>&, unique_ptr<T>& or     *)
(* unique_ptr<T>&& is called, changes what the pointer holds, may call the *)
(* script back, and returns.  An empty unique_ptr is not filled again.     *)
BeginUpdate(n) ==
  /\ updating = None /\ Usable(n)
  /\ \/ Cast_Helper(data[bound[n]], "shared_ptr<T>").ok
     \/ Cast_Helper(data[bound[n]], "unique_ptr<T>&").obj # None
  /\ updating' = bound[n]
  /\ UNCHANGED <<bound, data, isConst, sharing>>

(* A shared_ptr may be given any object, and every Data has its own; a     *)
(* unique_ptr is given a new one or none, and the Data that := has made    *)
(* copies of each other hold it together.                                  *)
Update(o) ==
  /\ updating # None /\ data[updating].kind = "shared"
  /\ o \notin HostConst
  /\ data' = [data EXCEPT ![updating].obj = o]
  /\ UNCHANGED <<bound, updating>>
  /\ Keep(isConst, sharing \cup ({o} \cap Held))
Holding == {d \in Used \ {None} : data[d].kind = "unique" /\ data[d].obj = data[updating].obj}
UpdateUnique(o) ==
  /\ updating # None /\ data[updating].kind = "unique" /\ data[updating].obj # None
  /\ o \notin Held
  /\ data' = [d \in Ids |-> IF d \in Holding THEN [data[d] EXCEPT !.obj = o, !.lent = TRUE] ELSE data[d]]
  /\ UNCHANGED <<bound, updating>>
  /\ Keep(isConst, sharing \cup (IF data[updating].obj \in sharing THEN {o} ELSE {}))

(* The Sentinel of a shared_ptr takes the pointers over when the function  *)
(* returns; SentinelOfOne forgets one.  A unique_ptr has no sentinel.      *)
SentinelOfOne ==
  /\ updating # None /\ data[updating].kind = "shared"
  /\ data' = [data EXCEPT ![updating].ptr = data[updating].obj]
  /\ updating' = None
  /\ UNCHANGED <<bound, isConst, sharing>>
Return ==
  /\ updating # None /\ data[updating].kind = "unique"
  /\ updating' = None
  /\ UNCHANGED <<bound, data, isConst, sharing>>
Sentinel ==
  /\ updating # None /\ data[updating].kind = "shared"
  /\ data' = [data EXCEPT ![updating].ptr = data[updating].obj, ![updating].cptr = data[updating].obj]
  /\ updating' = None
  /\ UNCHANGED <<bound, isConst, sharing>>

BoxesNext ==
  \/ \E n \in Names : Drop(n) \/ BeginUpdate(n)
  \/ \E n \in Names, d \in Ids \ Used : VarDecl(n, d)
  \/ \E d \in Ids \ Used, o \in Objects \ Held : \E v \in Results(d, o), n \in Names :
       AssignDecl(n, v, d, o) \/ AssignUndef(n, v, d, o) \/ AssignRef(n, v) \/ Pass(n, v) \/ HostAdd(n, v)
  \/ \E o \in (Objects \ Held) \cup Hosted \cup Given("shared_ptr<T>") \cup {None} : Update(o)
  \/ \E o \in (Objects \ Held) \cup {None} : UpdateUnique(o)
  \/ Sentinel \/ Return

BoxesSpec == BoxesInit /\ [][BoxesNext]_boxVars
-----------------------------------------------------------------------------
(* No sequence of declarations, assignments, calls and casts gives a C++   *)
(* function a way to write to an object that was made const, but by the    *)
(* dangling pointers of OneObject.                                         *)
ConstKept ==
  \A n \in Names : Sound(n) =>
    \A to \in WritingCasts : Cast_Helper(data[bound[n]], to).obj \notin isConst

(* Whichever way a function asks for its argument - by reference, by       *)
(* pointer, by shared or unique pointer - it gets the same object: only    *)
(* where a function has changed a unique_ptr are the pointers beside m_obj *)
(* stale, in every Data that holds that unique_ptr, and for good.          *)
OneObject ==
  \A n \in Names : Sound(n) =>
    \A to \in ReadingCasts \cup WritingCasts :
      Cast_Helper(data[bound[n]], to).ok => Cast_Helper(data[bound[n]], to).obj = data[bound[n]].obj

(* var copies: two variables have one object only if a reference was asked *)
(* for, or if one of them took over, instead of a copy, what a function    *)
(* had returned of another's object as const T&, T* or shared_ptr: after   *)
(* var k = f(m), k may be m.  A variable is never left a temporary, which  *)
(* would be moved away by the next declaration and could not be assigned.  *)
OwnValue ==
  /\ \A n \in Names \ Parameters : Usable(n) => ~data[bound[n]].temp
  /\ \A n, m \in Names \ Parameters :
       n # m /\ Usable(n) /\ Usable(m) /\ data[bound[n]].obj = data[bound[m]].obj =>
         \/ data[bound[n]].obj \in sharing \cup Hosted \cup {None}
         \/ data[bound[n]].borrowed \/ data[bound[m]].borrowed
===============================================================================
