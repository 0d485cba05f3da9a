----------------------------- MODULE ScopedLookup -----------------------------
(***************************************************************************)
(* The discipline under which get_object's cached positions are right:     *)
(* every program point is always reached with the same names in the same   *)
(* places of the current stack.  Shape annotates each point with those     *)
(* names, and WellScoped checks the annotation locally, edge by edge, as a *)
(* bytecode verifier does.  Blocks of the language keep it; a function     *)
(* without parameters that is called both directly and as an attribute     *)
(* does not (see MCLookupAttr), nor does a variable declared by eval()     *)
(* inside a conditional (see MCLookupEval).                                *)
(***************************************************************************)
EXTENDS LookupCache

CONSTANT Shape   (* [Points -> Seq(Seq(Names))], innermost scope last *)

ShapeAfter(p) ==
  CASE Code[p].op = "var"  -> ReplaceLast(Shape[p], Append(Last(Shape[p]), Code[p].name))
    [] Code[p].op = "push" -> Append(Shape[p], <<>>)
    [] Code[p].op = "pop"  -> Front(Shape[p])
    [] OTHER               -> Shape[p]

(* No point is reached with a scope whose newest entry is "__this": only   *)
(* the scope This_Foist pushes on the caller looks like that.              *)
ASSUME ShapeAssumption ==
  /\ Shape \in [Points -> Seq(Seq(Names))]
  /\ \A p \in Points :
       /\ Len(Shape[p]) \in 1..MaxDist
       /\ ~Foisted(Shape[p])

ASSUME WellScopedAssumption ==
  /\ \A f \in Functions : Shape[Fun[f].entry] = << EntryScope(f, FALSE) >>
  /\ \A p \in Points : Code[p].op = "attr" =>
       EntryScope(Code[p].fun, TRUE) = EntryScope(Code[p].fun, FALSE)
  /\ \A p \in Points : \A q \in Code[p].succ : Shape[q] = ShapeAfter(p)
-----------------------------------------------------------------------------
(* Names of a stack of the thread: its point's shape, and below an         *)
(* attribute call the foisted scope too.                                   *)
FrameShape(fr, isTop) ==
  IF ~isTop /\ Code[fr.point].op = "attr"
  THEN Append(Shape[fr.point], <<"__this">>)
  ELSE Shape[fr.point]

(* Whatever way a function is left - the end, an exception, a name         *)
(* conflict, an attribute call with its foisted scope - the stacks of the  *)
(* thread are as the point it goes on at needs them (eval_function,        *)
(* call_member, the guards of chaiscript_common.hpp).                      *)
FramesFollowShape ==
  \A t \in Threads :
    /\ Len(frames[t]) > 0
    /\ frames[t][1] = BaseFrame
    /\ \A k \in 2..Len(frames[t]) :
         /\ frames[t][k].point \in Points
         /\ frames[t][k].scopes = FrameShape(frames[t][k], k = Len(frames[t]))
         /\ k < Len(frames[t]) => Code[frames[t][k].point].op \in CallOps

(* The values m_loc may hold at a node, given what a search of its shape   *)
(* finds.                                                                  *)
SoundLoc(p, l) ==
  IF Hits(Shape[p], Code[p].name) # {}
  THEN l \in {Unset, Encoded(Shape[p], Code[p].name)}
  ELSE l.kind \in {"unset", "located", "hint"}

CacheSound == \A p \in Points : SoundLoc(p, loc[p])

LookupSound ==
  \A t \in Threads : look[t].phase # "idle" =>
    /\ Top(t).point \in Points
    /\ Instr(t).op = "id"
    /\ SoundLoc(Top(t).point, look[t].loc)
    /\ look[t].phase = "shared" => Hits(Top(t).scopes, Instr(t).name) = {}

(* The inductive invariant behind LookupAgrees.                            *)
IInv == TypeOK /\ FramesFollowShape /\ CacheSound /\ LookupSound /\ LookupAgrees
===============================================================================
