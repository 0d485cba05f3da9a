-------------------------------- MODULE Objects --------------------------------
(* Classes and their members: Class_AST_Node, Dot_Access_AST_Node and what it *)
(* calls, Dispatch_Engine::call_member, with the objects of the script's      *)
(* classes (dispatch::Dynamic_Object).                                        *)
(*                                                                            *)
(* A Dot_Access node has the object and the arguments as children, the        *)
(* member's name as text, and called: whether there are parentheses. Members  *)
(* that the engine defines for the host's types are left out, and so are a    *)
(* class's method_missing of the name alone and names of functions as values. *)
EXTENDS Evaluator

(* The methods are defined in the class's scope, but for the whole engine. *)
EvalClass ==
  /\ Running({"Class"}) /\ UNCHANGED Rest
  /\ \/ /\ Top.vals = <<>> /\ NewData(Value("string", 0), TRUE, FALSE)
        /\ Enter([Top EXCEPT !.scopes = 1], Child(1), Scoped(<<Binding("_current_class_name", Len(data) + 1)>>))
     \/ Top.vals # <<>> /\ End(VoidVar) /\ UNCHANGED Heap

-----------------------------------------------------------------------------
(* Members *)

Receiver == Top.vals[1]
Arguments == SubSeq(Top.vals, 2, Len(Top.vals))

(* do_attribute_call: what is in the attribute is the member's value, or the  *)
(* function to call, to which a scope on top of the caller's tells the object. *)
CallAttribute(attribute) ==
  LET v == ValIn(attribute, attribute.d)
      calls == Arguments # <<>> \/ v.type = "fun"
      foisted == Scoped(<<Binding("__this", Receiver)>>)
  IN \/ /\ ~calls /\ End(attribute.d)
        /\ data' = attribute.data /\ objs' = attribute.objs
     \/ /\ calls /\ \E i \in Callees(v, Arguments) :
                     InvokeClosure([Top EXCEPT !.scopes = 1], i, Arguments, foisted)
        /\ data' = attribute.data /\ objs' = attribute.objs
     \/ calls /\ Callees(v, Arguments) = {} /\ RaiseErrorIn(attribute)

(* call_member *)
AtMember == Evaluated({"Dot_Access"})
MemberName == Top.node.text
IsAttributeCall ==
  /\ Top.node.called
  /\ \E f \in funs : f.name = MemberName /\ f.kind = "attribute" /\ IsOf(Receiver, f.class)
IsMissing == ~IsAttributeCall /\ Taking(MemberName, Top.vals) = {}

CallDeclaredAttribute ==
  /\ AtMember /\ IsAttributeCall /\ UNCHANGED Rest
  /\ CallAttribute(GetAttr(Receiver, MemberName))

(* Any function that takes the object first is a member; an attribute read    *)
(* without parentheses is one.                                                *)
CallMethod ==
  /\ AtMember /\ ~IsAttributeCall /\ UNCHANGED Rest
  /\ \E f \in Taking(MemberName, Top.vals) : Invoke(f, Top.vals) \/ ReadAttr(f, Top.vals)

(* A method_missing of the class takes the name and a vector of the arguments. *)
CallMethodMissing ==
  /\ AtMember /\ IsMissing /\ UNCHANGED Rest
  /\ \E f \in Taking("method_missing", <<Receiver, VoidVar, VoidVar>>) :
       LET name == Len(data) + 1  arguments == Len(data) + 2
           box(i) == [obj |-> Len(objs) + i, const |-> FALSE, temp |-> FALSE]
       IN /\ data' = data \o <<box(1), box(2)>>
          /\ objs' = objs \o <<Value("string", 0), [Value("array", 0) EXCEPT !.elems = Arguments]>>
          /\ EvalFunction(Top, f.body, stacks,
                          This(stacks, Top.vals) \o Bindings(f.params, <<name, arguments>>))

(* Dynamic_Object::method_missing: the member is an attribute from now on,    *)
(* and a function in it is called with or without parentheses.                *)
CallMissing ==
  /\ AtMember /\ IsMissing /\ UNCHANGED Rest
  /\ Taking("method_missing", <<Receiver, VoidVar, VoidVar>>) = {}
  /\ LET o == Val(Receiver)
         isObject == o.type = "object"
         sets == isObject /\ MemberName = "set_explicit" /\ Len(Arguments) = 1
         refuses == o.explicit /\ MemberName \notin DOMAIN o.attrs
     IN \/ /\ sets /\ End(VoidVar) /\ UNCHANGED data
           /\ objs' = [objs EXCEPT ![data[Receiver].obj].explicit = Val(Arguments[1]) = Truth(TRUE)]
        \/ isObject /\ ~sets /\ ~refuses /\ CallAttribute(GetAttr(Receiver, MemberName))
        \/ isObject /\ ~sets /\ refuses /\ RaiseError
        \/ ~isObject /\ RaiseError

ObjectsNext ==
  \/ Next
  \/ EvalClass \/ CallDeclaredAttribute \/ CallMethod \/ CallMethodMissing \/ CallMissing

ObjectsSpec == Init /\ [][ObjectsNext]_vars

-----------------------------------------------------------------------------
(* Properties *)

Dynamic == {i \in DOMAIN objs : objs[i].type = "object"}

(* An attribute belongs to one object, and so does what is in it: cloning an  *)
(* object clones its attributes, and assigning to one copies, in a program    *)
(* that does not use := or references on attributes.                          *)
AttributesApart ==
  \A i, j \in Dynamic : \A n \in DOMAIN objs[i].attrs, m \in DOMAIN objs[j].attrs :
    LET d == objs[i].attrs[n]  e == objs[j].attrs[m] IN
    <<i, n>> # <<j, m>> => d # e /\ (data[d].obj = data[e].obj => data[d].obj = 0)
===============================================================================
