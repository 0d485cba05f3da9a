-------------------------------- MODULE Copying --------------------------------
(* What cloning and assigning the value of a Data do to the heap, object in   *)
(* object: the operators that Evaluator takes as constants.                   *)
EXTENDS Evaluator

(* A temporary is not cloned. An object is cloned attribute by attribute, an  *)
(* array and a function by their C++ copies, which share elements and         *)
(* captures.                                                                  *)
RECURSIVE CanDeepCopy(_, _)
CanDeepCopy(heap, d) ==
  LET v == ValIn(heap, d) IN
  \/ heap.data[d].temp
  \/ v.type \in {"int", "bool", "array", "fun"}
  \/ v.type = "object" /\ \A n \in DOMAIN v.attrs : CanDeepCopy(heap, v.attrs[n])

ObjectCopy(heap, v) ==
  [data |-> Append(heap.data, [obj |-> Len(heap.objs) + 1, const |-> FALSE, temp |-> FALSE]),
   objs |-> Append(heap.objs, v), d |-> Len(heap.data) + 1]
ShallowCopy(heap, d) == ObjectCopy(heap, ValIn(heap, d))
RECURSIVE DeepCopy(_, _)
DeepCopy(heap, d) ==
  LET v == ValIn(heap, d)
      new == ObjectCopy(heap, Object(v.class))
      CopyAttr(h, n) ==
        LET c == DeepCopy(h, v.attrs[n])
        IN [c EXCEPT !.objs[Len(heap.objs) + 1].attrs = (n :> c.d) @@ @, !.d = new.d]
  IN IF v.type = "object" THEN FoldLeft(CopyAttr, new, SetToSeq(DOMAIN v.attrs)) ELSE ShallowCopy(heap, d)

(* The script function that assigns objects of one class: one attribute of    *)
(* the right side's after the other is cloned and assigned, and what else the *)
(* left side has it keeps. It fails at an attribute that has no clone, or     *)
(* whose like on the left is const, a temporary, or of another type.          *)
Fails(heap) == [heap EXCEPT !.fails = TRUE]
RECURSIVE Assigned(_, _, _)
Assigned(heap, l, r) ==
  LET old == ValIn(heap, l)  new == ValIn(heap, r)  object == heap.data[l].obj
      AssignAttr(h, n) ==
        LET c == DeepCopy(h, new.attrs[n])
            copied == [h EXCEPT !.data = c.data, !.objs = c.objs]
        IN CASE h.fails \/ ~CanDeepCopy(h, new.attrs[n]) -> Fails(h)
             [] n \in DOMAIN old.attrs ->
                  IF h.data[old.attrs[n]].const \/ h.data[old.attrs[n]].temp THEN Fails(h)
                  ELSE Assigned(copied, old.attrs[n], c.d)
             [] OTHER -> [copied EXCEPT !.objs[object].attrs = With(@, n, c.d)]
  IN CASE old = Nothing \/ (old.type = "fun" /\ new.type = "fun") -> [heap EXCEPT !.data[l] = heap.data[r]]
       [] old.type = new.type /\ old.type \in {"int", "bool", "array"} -> [heap EXCEPT !.objs[object] = new]
       [] old.type = "object" /\ new.type = "object" /\ old.class = new.class ->
            FoldLeft(AssignAttr, heap, SetToSeq(DOMAIN new.attrs))
       [] OTHER -> Fails(heap)

DeepAssign(heap, l, r) == Assigned([data |-> heap.data, objs |-> heap.objs, fails |-> FALSE], l, r)
CanDeepAssign(heap, l, r) == ~DeepAssign(heap, l, r).fails
================================================================================
