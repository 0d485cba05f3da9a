-------------------------------- MODULE Heaps --------------------------------
(* What the evaluator keeps of its heap, the Data and objects of all values,  *)
(* so that a constant of the program stays what it is: an object that a const *)
(* Data holds is held by const Data only, unless it is a function, which is   *)
(* never written, or an object of a class, which its methods write. Also what *)
(* it takes for granted: the shape of the program's nodes, and that copying   *)
(* does the heap no harm.                                                     *)
EXTENDS Objects

(* The handles of a heap are the indices of its Data.                         *)
Handles(heap) == 1..Len(heap.data)
DataOf(heap) == [obj : 0..Len(heap.objs), const : BOOLEAN, temp : BOOLEAN]

ValueFits(v, handles) ==
  /\ v = [x \in DOMAIN v |-> v[x]] /\ {"type", "v", "elems"} \subseteq DOMAIN v
  /\ v.elems \in Seq(handles)
  /\ v.type = "object" =>
       /\ {"class", "attrs", "explicit"} \subseteq DOMAIN v
       /\ \A n \in DOMAIN v.attrs : v.attrs[n] \in handles

(* Written through any Data that holds them. *)
Shared == {"fun", "object"}
ConstObjects(heap) ==
  {i \in 1..Len(heap.objs) : /\ heap.objs[i].type \notin Shared
                             /\ \E d \in Handles(heap) : heap.data[d].const /\ heap.data[d].obj = i}

SoundHeap(heap) ==
  /\ heap.data \in Seq(DataOf(heap)) /\ heap.data # <<>>
  /\ heap.objs \in Seq(Range(heap.objs))
  /\ \A i \in 1..Len(heap.objs) : ValueFits(heap.objs[i], Handles(heap))
  /\ \A d \in Handles(heap) : heap.data[d].obj \in ConstObjects(heap) => heap.data[d].const

(* What a step may do to a heap.                                              *)
Keeps(heap, new) ==
  /\ SoundHeap(new) /\ Len(heap.data) <= Len(new.data) /\ Len(heap.objs) <= Len(new.objs)
  /\ \A d \in Handles(heap) :
       heap.data[d].const => new.data[d].const /\ new.data[d].obj = heap.data[d].obj
  /\ \A i \in ConstObjects(heap) : new.objs[i] = heap.objs[i]
  /\ \A i \in 1..Len(heap.objs) : i \in ConstObjects(new) => i \in ConstObjects(heap)

(* Cloning, and assigning to an object that may be written, do no more.       *)
CopyingKeeps(heap) ==
  /\ \A d \in Handles(heap) :
       ~heap.data[d].temp /\ CanCopy(heap, d) =>
         Keeps(heap, Copy(heap, d)) /\ Copy(heap, d).d \in Handles(Copy(heap, d))
  /\ \A l, r \in Handles(heap) :
       /\ ~heap.data[l].const /\ ~heap.data[l].temp /\ ValIn(heap, l).type = "object"
       /\ CanOverwrite(heap, l, r)
       => Keeps(heap, Overwrite(heap, l, r))
CopyingSound == CopyingKeeps(Here)
-----------------------------------------------------------------------------
(* The nodes of a program: they have the children that are evaluated, and a   *)
(* Constant is const, as the parser makes it.                                 *)
Defining == {"Def", "Method", "Attr_Decl", "Lambda"}
LeastChildren(kind) ==
  CASE kind \in {"Block", "Scopeless_Block", "File", "Class", "Case", "Default", "Catch", "Finally",
                 "Switch", "Try", "Compiled", "Prefix", "Fold_Right", "Dot_Access"} -> 1
    [] kind \in {"Equation", "Assign_Decl", "Binary", "Array_Call", "Logical_And", "Logical_Or", "While"} -> 2
    [] kind \in {"If", "Ranged_For"} -> 3
    [] kind = "For" -> 4
    [] OTHER -> 0

WellFormed(nodes) ==
  \A n \in nodes :
    /\ n.children \in Seq(nodes) /\ Len(n.children) >= LeastChildren(n.kind)
    /\ n.kind \in Defining => n.body \in nodes
    /\ n.kind \in {"Binary", "Fold_Right"} => n.text \in {"+", "<", "=="}
    /\ n.kind = "Constant" => n.const = TRUE /\ n.val.type \notin Shared /\ ValueFits(n.val, {})
===============================================================================
