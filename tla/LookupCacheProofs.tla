--------------------------- MODULE LookupCacheProofs ---------------------------
(***************************************************************************)
(* For every program that is well scoped, every number of threads and      *)
(* every interleaving of their lookups, declarations and calls with the    *)
(* host's get_state and set_state, get_object answers what an uncached     *)
(* search of the calling thread's stack would.                             *)
(***************************************************************************)
EXTENDS ScopedLookup, SequenceFacts

FramesOK == frames \in [Threads -> Seq(Frame)] /\ FramesFollowShape

(* What holds of the stack a thread is executing in.                       *)
LEMMA TopFacts ==
  ASSUME FramesOK, NEW t \in Threads
  PROVE  /\ frames[t] \in Seq(Frame) /\ frames[t] # <<>> /\ Len(frames[t]) \in Nat
         /\ Top(t) = frames[t][Len(frames[t])]
         /\ Top(t) \in Frame
         /\ Top(t).point # NoPoint =>
              /\ Len(frames[t]) >= 2
              /\ Top(t).point \in Points
              /\ Top(t).scopes = Shape[Top(t).point]
         /\ Top(t).point = NoPoint =>
              /\ Len(frames[t]) < 2
              /\ Top(t) = BaseFrame
<1>1. /\ frames[t] \in Seq(Frame) /\ frames[t] # <<>> /\ Len(frames[t]) \in Nat
      /\ Len(frames[t]) > 0
  BY DEF FramesOK, FramesFollowShape
<1>2. Top(t) = frames[t][Len(frames[t])] /\ Top(t) \in Frame
  BY <1>1, LastFacts DEF Top, Last
<1>3. ASSUME Len(frames[t]) >= 2
      PROVE  Top(t).point \in Points /\ Top(t).scopes = Shape[Top(t).point]
  <2>1. Len(frames[t]) \in 2..Len(frames[t])
    BY <1>1, <1>3
  <2>2. QED
    BY <2>1, <1>2 DEF FramesOK, FramesFollowShape, FrameShape
<1>4. ASSUME Len(frames[t]) < 2
      PROVE  Top(t) = BaseFrame
  <2>1. PICK n \in Nat : n = Len(frames[t])
    BY <1>1
  <2>2. n > 0 /\ n < 2
    BY <2>1, <1>1, <1>4
  <2>3. n = 1
    BY <2>2
  <2>4. QED
    BY <2>1, <2>3, <1>2 DEF FramesOK, FramesFollowShape
<1>5. BaseFrame.point = NoPoint /\ NoPoint \notin Points
  BY ProgramAssumption DEF BaseFrame
<1>6. Len(frames[t]) < 2 \/ Len(frames[t]) >= 2
  BY <1>1
<1>7. QED
  BY <1>1, <1>2, <1>3, <1>4, <1>5, <1>6

(* A stack of stacks whose members all follow their shapes.                *)
Suspended(base) ==
  /\ base \in Seq(Frame)
  /\ Len(base) > 0
  /\ base[1] = BaseFrame
  /\ \A k \in 2..Len(base) :
       /\ base[k].point \in Points
       /\ base[k].scopes = FrameShape(base[k], FALSE)
       /\ Code[base[k].point].op \in CallOps

(* Any stack whose top follows its point's shape, above suspended ones, is *)
(* one FramesFollowShape allows.                                           *)
LEMMA NewStackFacts ==
  ASSUME FramesOK, NEW t \in Threads,
         NEW st \in Seq(Frame), frames' = [frames EXCEPT ![t] = st],
         Len(st) > 0, st[1] = BaseFrame,
         \A k \in 2..Len(st) :
           /\ st[k].point \in Points
           /\ st[k].scopes = FrameShape(st[k], k = Len(st))
           /\ k < Len(st) => Code[st[k].point].op \in CallOps
  PROVE  FramesOK' /\ \A u \in Threads \ {t} : frames'[u] = frames[u]
<1>1. frames' \in [Threads -> Seq(Frame)] /\ frames'[t] = st
  BY DEF FramesOK
<1>2. \A u \in Threads \ {t} : frames'[u] = frames[u]
  BY DEF FramesOK
<1>3. FramesFollowShape'
  <2> SUFFICES ASSUME NEW u \in Threads
               PROVE  /\ Len(frames'[u]) > 0
                      /\ frames'[u][1] = BaseFrame
                      /\ \A k \in 2..Len(frames'[u]) :
                           /\ frames'[u][k].point \in Points
                           /\ frames'[u][k].scopes = FrameShape(frames'[u][k], k = Len(frames'[u]))
                           /\ k < Len(frames'[u]) => Code[frames'[u][k].point].op \in CallOps
    BY DEF FramesFollowShape
  <2>1. CASE u = t
    BY <2>1, <1>1
  <2>2. CASE u # t
    BY <2>2, <1>2 DEF FramesOK, FramesFollowShape
  <2>3. QED
    BY <2>1, <2>2
<1>4. QED
  BY <1>1, <1>2, <1>3 DEF FramesOK

(* Replacing the top of a thread's stacks by one that follows its point's  *)
(* shape: every step that stays inside the current call.                   *)
LEMMA MoveTop ==
  ASSUME FramesOK, NEW t \in Threads, Top(t).point # NoPoint,
         NEW q \in Points,
         frames' = [frames EXCEPT ![t] = ReplaceLast(@, [point |-> q, scopes |-> Shape[q]])]
  PROVE  FramesOK' /\ \A u \in Threads \ {t} : frames'[u] = frames[u]
<1> DEFINE fr == [point |-> q, scopes |-> Shape[q]]
           s  == frames[t]
           st == ReplaceLast(s, fr)
<1>1. fr \in Frame
  BY ShapeAssumption DEF Frame
<1>2. s \in Seq(Frame) /\ s # <<>> /\ Len(s) \in Nat /\ Len(s) >= 2
  BY TopFacts
<1>3. /\ st \in Seq(Frame) /\ Len(st) = Len(s) /\ st[Len(s)] = fr
      /\ \A i \in 1..(Len(s) - 1) : st[i] = s[i]
  <2> HIDE DEF fr, s
  <2>1. QED
    BY <1>1, <1>2, ReplaceTopFacts DEF ReplaceLast
<1>4. Len(st) > 0 /\ st[1] = BaseFrame
  BY <1>2, <1>3 DEF FramesOK, FramesFollowShape
<1>5. ASSUME NEW k \in 2..Len(st)
      PROVE  /\ st[k].point \in Points
             /\ st[k].scopes = FrameShape(st[k], k = Len(st))
             /\ k < Len(st) => Code[st[k].point].op \in CallOps
  <2>1. CASE k = Len(st)
    <3>1. st[k] = fr
      BY <2>1, <1>3
    <3>2. QED
      BY <2>1, <3>1 DEF FrameShape
  <2>2. CASE k # Len(st)
    <3>1. k \in 2..Len(s) /\ k \in 1..(Len(s) - 1) /\ k < Len(s) /\ k # Len(s)
      BY <1>2, <1>3, <2>2
    <3>2. st[k] = s[k]
      BY <3>1, <1>3
    <3>3. s[k].scopes = FrameShape(s[k], FALSE) /\ Code[s[k].point].op \in CallOps
          /\ s[k].point \in Points
      BY <3>1 DEF FramesOK, FramesFollowShape, FrameShape
    <3>4. QED
      BY <2>2, <3>2, <3>3
  <2>3. QED
    BY <2>1, <2>2
<1>6. frames' = [frames EXCEPT ![t] = st]
  OBVIOUS
<1>7. QED
  <2> HIDE DEF st
  <2>1. QED
    BY <1>3, <1>4, <1>5, <1>6, NewStackFacts

(* The stacks below a running call, and with the running one too once it   *)
(* stands at a call.                                                       *)
LEMMA SuspendedFacts ==
  ASSUME FramesOK, NEW t \in Threads
  PROVE  /\ Top(t).point # NoPoint => Suspended(Front(frames[t]))
         /\ Top(t).point = NoPoint => Suspended(frames[t])
         /\ (Top(t).point # NoPoint /\ Instr(t).op = "call") => Suspended(frames[t])
<1> DEFINE s == frames[t]
<1>1. s \in Seq(Frame) /\ s # <<>> /\ Len(s) \in Nat /\ Len(s) > 0 /\ s[1] = BaseFrame
  BY TopFacts DEF FramesOK, FramesFollowShape
<1>2. ASSUME NEW k \in 2..Len(s), k < Len(s)
      PROVE  /\ s[k].point \in Points
             /\ s[k].scopes = FrameShape(s[k], FALSE)
             /\ Code[s[k].point].op \in CallOps
  BY <1>1, <1>2 DEF FramesOK, FramesFollowShape, FrameShape
<1>3. ASSUME Top(t).point # NoPoint
      PROVE  Suspended(Front(s))
  <2>1. Len(s) >= 2
    BY <1>3, TopFacts
  <2>2. /\ Front(s) \in Seq(Frame) /\ Len(Front(s)) = Len(s) - 1
        /\ \A i \in 1..(Len(s) - 1) : Front(s)[i] = s[i]
    BY <1>1, FrontFacts
  <2>3. Len(Front(s)) > 0 /\ Front(s)[1] = BaseFrame
    BY <1>1, <2>1, <2>2
  <2>4. ASSUME NEW k \in 2..Len(Front(s))
        PROVE  Front(s)[k] = s[k] /\ k \in 2..Len(s) /\ k < Len(s)
    BY <1>1, <2>2
  <2>5. QED
    BY <2>2, <2>3, <2>4, <1>2 DEF Suspended
<1>4. ASSUME Top(t).point = NoPoint
      PROVE  Suspended(s)
  <2>1. Len(s) < 2
    BY <1>4, TopFacts
  <2>2. \A k \in 2..Len(s) : FALSE
    BY <1>1, <2>1
  <2>3. QED
    BY <1>1, <2>2 DEF Suspended
<1>5. ASSUME Top(t).point # NoPoint, Instr(t).op = "call"
      PROVE  Suspended(s)
  <2>1. ASSUME NEW k \in 2..Len(s)
        PROVE  /\ s[k].point \in Points
               /\ s[k].scopes = FrameShape(s[k], FALSE)
               /\ Code[s[k].point].op \in CallOps
    <3>1. CASE k < Len(s)
      BY <3>1, <1>2
    <3>2. CASE ~(k < Len(s))
      <4>1. k = Len(s)
        BY <3>2, <1>1
      <4>2. s[k] = Top(t)
        BY <4>1, TopFacts
      <4>3. QED
        BY <4>2, <1>5, TopFacts DEF Instr, FrameShape, CallOps
    <3>3. QED
      BY <3>1, <3>2
  <2>2. QED
    BY <1>1, <2>1 DEF Suspended
<1>6. QED
  BY <1>3, <1>4, <1>5

(* Pushing the stack of a new call on suspended ones: Start, Call and      *)
(* CallAttribute.                                                          *)
LEMMA PushCall ==
  ASSUME FramesOK, NEW t \in Threads, NEW base, Suspended(base),
         NEW f \in Functions, NEW foisted \in BOOLEAN,
         EntryScope(f, foisted) = EntryScope(f, FALSE),
         frames' = [frames EXCEPT ![t] = Append(base, Activation(f, foisted))]
  PROVE  FramesOK' /\ \A u \in Threads \ {t} : frames'[u] = frames[u]
<1> DEFINE fr == Activation(f, foisted)
           st == Append(base, fr)
<1>1. /\ Fun[f].entry \in Points
      /\ fr.point = Fun[f].entry
      /\ fr.scopes = Shape[fr.point]
  BY ProgramAssumption, WellScopedAssumption DEF FunctionRecord, Activation
<1>2. fr \in Frame
  <2>1. fr = [point |-> fr.point, scopes |-> fr.scopes]
    BY DEF Activation
  <2>2. fr.point \in Points /\ fr.scopes \in Seq(Seq(Names))
    BY <1>1, ShapeAssumption
  <2>3. QED
    BY <2>1, <2>2 DEF Frame
<1>3. base \in Seq(Frame) /\ Len(base) > 0 /\ Len(base) \in Nat
  BY DEF Suspended
<1>4. /\ st \in Seq(Frame) /\ Len(st) = Len(base) + 1
      /\ st[Len(base) + 1] = fr
      /\ \A i \in 1..Len(base) : st[i] = base[i]
  <2> HIDE DEF fr
  <2>1. QED
    BY <1>2, <1>3, PushFacts
<1>5. Len(st) > 0 /\ st[1] = BaseFrame
  BY <1>3, <1>4 DEF Suspended
<1>6. ASSUME NEW k \in 2..Len(st)
      PROVE  /\ st[k].point \in Points
             /\ st[k].scopes = FrameShape(st[k], k = Len(st))
             /\ k < Len(st) => Code[st[k].point].op \in CallOps
  <2>1. CASE k = Len(st)
    <3>1. st[k] = fr
      BY <2>1, <1>4
    <3>2. QED
      BY <2>1, <3>1, <1>1 DEF FrameShape
  <2>2. CASE k # Len(st)
    <3>1. k \in 2..Len(base) /\ k \in 1..Len(base)
      BY <1>3, <1>4, <2>2
    <3>2. st[k] = base[k]
      BY <3>1, <1>4
    <3>3. QED
      BY <2>2, <3>1, <3>2 DEF Suspended
  <2>3. QED
    BY <2>1, <2>2
<1>7. frames' = [frames EXCEPT ![t] = st]
  OBVIOUS
<1>8. QED
  <2> HIDE DEF st
  <2>1. QED
    BY <1>4, <1>5, <1>6, <1>7, NewStackFacts

LEMMA SuccessorFacts ==
  ASSUME NEW p \in Points, NEW q \in Code[p].succ
  PROVE  q \in Points /\ Shape[q] = ShapeAfter(p)
BY ProgramAssumption, WellScopedAssumption DEF Instruction

(* Control moving on inside the current call.                              *)
LEMMA GotoFacts ==
  ASSUME FramesOK, NEW t \in Threads, Top(t).point # NoPoint,
         NEW scopes, scopes = ShapeAfter(Top(t).point), Goto(t, scopes)
  PROVE  FramesOK' /\ \A u \in Threads \ {t} : frames'[u] = frames[u]
<1>1. Top(t).point \in Points
  BY TopFacts
<1>2. PICK q \in Code[Top(t).point].succ :
        frames' = [frames EXCEPT ![t] = ReplaceLast(@, [point |-> q, scopes |-> scopes])]
  BY DEF Goto, Instr
<1>3. q \in Points /\ Shape[q] = scopes
  BY <1>1, SuccessorFacts
<1>4. QED
  BY <1>2, <1>3, MoveTop

(* An exception that leaves the evaluation.                                *)
LEMMA AbandonFacts ==
  ASSUME FramesOK, NEW t \in Threads, Abandon(t)
  PROVE  FramesOK' /\ \A u \in Threads \ {t} : frames'[u] = frames[u]
<1> DEFINE st == << BaseFrame >>
<1>1. BaseFrame \in Frame
  BY DEF BaseFrame, Frame
<1>2. st \in Seq(Frame) /\ Len(st) > 0 /\ st[1] = BaseFrame /\ Len(st) = 1
  <2> HIDE DEF BaseFrame
  <2>1. QED
    BY <1>1
<1>3. \A k \in 2..Len(st) : FALSE
  BY <1>2
<1>4. frames' = [frames EXCEPT ![t] = st]
  BY DEF Abandon
<1>5. QED
  <2> HIDE DEF st
  <2>1. QED
    BY <1>2, <1>3, <1>4, NewStackFacts

LEMMA ModSmall ==
  ASSUME NEW m \in Nat \ {0}, NEW x \in 0..(m - 1)
  PROVE  x % m = x
OBVIOUS

(* A hit is a position of the stack.                                       *)
LEMMA HitFacts ==
  ASSUME NEW scopes, NEW n, NEW pos \in Hits(scopes, n)
  PROVE  /\ pos.s \in 1..Len(scopes)
         /\ pos.i \in 1..Len(scopes[pos.s])
         /\ pos = [s |-> pos.s, i |-> pos.i]
<1>1. pos \in Positions(scopes)
  BY DEF Hits
<1>2. PICK s \in 1..Len(scopes) : pos \in { [s |-> s, i |-> i] : i \in 1..Len(scopes[s]) }
  BY <1>1 DEF Positions
<1>3. PICK i \in 1..Len(scopes[s]) : pos = [s |-> s, i |-> i]
  BY <1>2
<1>4. QED
  BY <1>3

(* The position m_loc encodes decodes to the binding the search found.     *)
LEMMA CachedPositionFacts ==
  ASSUME NEW p \in Points, NEW n, Hits(Shape[p], n) # {}
  PROVE  /\ FirstHit(Shape[p], n) \in Hits(Shape[p], n)
         /\ Encoded(Shape[p], n) \in LocValue
         /\ Encoded(Shape[p], n).kind = "local"
         /\ AtCached(Shape[p], Encoded(Shape[p], n))
              = LocalAnswer(FirstHit(Shape[p], n).s, FirstHit(Shape[p], n).i)
         /\ LocalAnswer(FirstHit(Shape[p], n).s, FirstHit(Shape[p], n).i) \in Answer
         /\ [s |-> FirstHit(Shape[p], n).s, i |-> FirstHit(Shape[p], n).i] \in Hits(Shape[p], n)
<1> DEFINE sc  == Shape[p]
           pos == FirstHit(sc, n)
<1>1. sc \in Seq(Seq(Names)) /\ Len(sc) \in 1..MaxDist /\ MaxDist \in Nat \ {0}
  BY ShapeAssumption, ProgramAssumption
<1>2. pos \in Hits(sc, n)
  BY DEF FirstHit
<1>3. /\ pos.s \in 1..Len(sc)
      /\ pos.i \in 1..Len(sc[pos.s])
      /\ pos = [s |-> pos.s, i |-> pos.i]
  BY <1>2, HitFacts
<1>4. Len(sc[pos.s]) \in Nat
  BY <1>1, <1>3
<1> HIDE DEF pos, sc
<1>5. (Len(sc) - pos.s) % MaxDist = Len(sc) - pos.s
  <2>1. Len(sc) - pos.s \in 0..(MaxDist - 1)
    BY <1>1, <1>3
  <2>2. QED
    BY <2>1, <1>1, ModSmall
<1>6. Encoded(sc, n) = [kind |-> "local", d |-> Len(sc) - pos.s, i |-> pos.i - 1]
  BY <1>5 DEF Encoded, LocalAt, pos
<1>7. Len(sc) - pos.s \in Nat /\ pos.i - 1 \in Nat /\ pos.s \in Int /\ pos.i \in Nat
  BY <1>1, <1>3, <1>4
<1>8. Encoded(sc, n) \in LocValue /\ Encoded(sc, n).kind = "local"
  BY <1>6, <1>7 DEF LocValue
<1>9. AtCached(sc, Encoded(sc, n)) = LocalAnswer(pos.s, pos.i)
  <2>1. Len(sc) - (Len(sc) - pos.s) = pos.s /\ pos.i - 1 + 1 = pos.i
    BY <1>1, <1>3, <1>7
  <2>2. pos.i - 1 < Len(sc[pos.s])
    BY <1>3, <1>4
  <2>3. QED
    BY <1>3, <1>6, <2>1, <2>2 DEF AtCached
<1>10. LocalAnswer(pos.s, pos.i) \in Answer
  BY <1>7 DEF LocalAnswer, Answer
<1>11. QED
  BY <1>2, <1>3, <1>8, <1>9, <1>10 DEF pos, sc

(* A step that only moves one thread's stacks leaves every lookup as it    *)
(* was: the lookups in progress are other threads', on their own stacks.   *)
LEMMA StackStepFacts ==
  ASSUME CacheSound, LookupSound, LookupAgrees,
         NEW t \in Threads, look[t].phase = "idle",
         UNCHANGED <<look, loc>>,
         \A u \in Threads \ {t} : frames'[u] = frames[u]
  PROVE  CacheSound' /\ LookupSound' /\ LookupAgrees'
<1>1. CacheSound'
  BY DEF CacheSound
<1>2. ASSUME NEW u \in Threads, look'[u].phase # "idle"
      PROVE  Top(u)' = Top(u) /\ look'[u] = look[u]
  <2>1. u # t
    BY <1>2
  <2>2. QED
    BY <2>1 DEF Top
<1>3. LookupSound'
  <2>1. ASSUME NEW u \in Threads, look'[u].phase # "idle"
        PROVE  /\ Top(u)'.point \in Points
               /\ Code[Top(u)'.point].op = "id"
               /\ SoundLoc(Top(u)'.point, look'[u].loc)
               /\ look'[u].phase = "shared" => Hits(Top(u)'.scopes, Code[Top(u)'.point].name) = {}
    BY <2>1, <1>2 DEF LookupSound, Instr
  <2>2. QED
    BY <2>1 DEF LookupSound, Instr
<1>4. LookupAgrees'
  <2>1. ASSUME NEW u \in Threads, look'[u].phase = "done"
        PROVE  Top(u)' = Top(u) /\ look'[u] = look[u] /\ Instr(u)' = Instr(u)
    BY <2>1, <1>2 DEF Instr
  <2>2. QED
    BY <2>1 DEF LookupAgrees
<1>5. QED
  BY <1>1, <1>3, <1>4

(* A step of a thread outside any lookup preserves the invariant, once its *)
(* effect on the stacks is known.                                          *)
LEMMA StackStep ==
  ASSUME IInv, NEW t \in Threads, look[t].phase = "idle",
         FramesOK', \A u \in Threads \ {t} : frames'[u] = frames[u],
         UNCHANGED <<loc, look, saved>>,
         globals' \in SUBSET Names, funs' \in Seq(Names)
  PROVE  IInv'
<1>1. CacheSound' /\ LookupSound' /\ LookupAgrees'
  BY StackStepFacts DEF IInv
<1>2. TypeOK'
  BY DEF IInv, TypeOK, FramesOK
<1>3. QED
  BY <1>1, <1>2 DEF IInv, FramesOK

(* What an answered lookup must have answered.                             *)
Agrees(scopes, n, ans) ==
  IF Hits(scopes, n) # {}
  THEN ans.kind = "local" /\ [s |-> ans.s, i |-> ans.i] \in Hits(scopes, n)
  ELSE ans.kind \in {"global", "function", "error"}

(* A step of a lookup preserves the invariant if what it leaves in look    *)
(* and in the node's m_loc is sound for the node's shape.                  *)
LEMMA LookupStep ==
  ASSUME IInv, NEW t \in Threads, NEW p \in Points,
         p = Top(t).point, Code[p].op = "id",
         NEW e \in Lookup, look' = [look EXCEPT ![t] = e],
         SoundLoc(p, e.loc),
         e.phase = "shared" => Hits(Shape[p], Code[p].name) = {},
         e.phase = "done" => Agrees(Shape[p], Code[p].name, e.answer),
         NEW l \in LocValue, SoundLoc(p, l), loc' = [loc EXCEPT ![p] = l],
         UNCHANGED <<frames, globals, funs, saved>>
  PROVE  IInv'
<1>1. FramesOK /\ FramesOK'
  BY DEF IInv, TypeOK, FramesOK, FramesFollowShape
<1>2. Top(t).scopes = Shape[p]
  BY <1>1, TopFacts, ProgramAssumption
<1>3. \A u \in Threads : Top(u)' = Top(u) /\ Instr(u)' = Instr(u)
  BY DEF Top, Instr
<1>4. look'[t] = e /\ \A u \in Threads : u # t => look'[u] = look[u]
  BY DEF IInv, TypeOK
<1>5. TypeOK'
  BY DEF IInv, TypeOK
<1>6. CacheSound'
  BY DEF IInv, TypeOK, CacheSound
<1>7. LookupSound'
  <2> SUFFICES ASSUME NEW u \in Threads, look'[u].phase # "idle"
               PROVE  /\ Top(u).point \in Points
                      /\ Instr(u).op = "id"
                      /\ SoundLoc(Top(u).point, look'[u].loc)
                      /\ look'[u].phase = "shared" => Hits(Top(u).scopes, Instr(u).name) = {}
    BY <1>3 DEF LookupSound
  <2>1. CASE u = t
    BY <2>1, <1>2, <1>4 DEF Instr
  <2>2. CASE u # t
    BY <2>2, <1>4 DEF IInv, LookupSound
  <2>3. QED
    BY <2>1, <2>2
<1>8. LookupAgrees'
  <2> SUFFICES ASSUME NEW u \in Threads, look'[u].phase = "done"
               PROVE  Agrees(Top(u).scopes, Instr(u).name, look'[u].answer)
    BY <1>3 DEF LookupAgrees, Agrees
  <2>1. CASE u = t
    BY <2>1, <1>2, <1>4 DEF Instr
  <2>2. CASE u # t
    BY <2>2, <1>4 DEF IInv, LookupAgrees, Agrees
  <2>3. QED
    BY <2>1, <2>2
<1>9. QED
  BY <1>1, <1>5, <1>6, <1>7, <1>8 DEF IInv, FramesOK

(* The operations that push, pop and declare.                              *)
LEMMA ProgramStepPreserves ==
  ASSUME IInv, NEW t \in Threads,
         \/ \E f \in Functions : Start(t, f)
         \/ DeclareVar(t) \/ PushScope(t) \/ PopScope(t) \/ Branch(t)
         \/ Call(t) \/ CallAttribute(t) \/ Return(t)
         \/ DeclareGlobal(t) \/ DefineFunction(t)
  PROVE  IInv'
<1> DEFINE p == Top(t).point
           Moved == FramesOK' /\ \A u \in Threads \ {t} : frames'[u] = frames[u]
<1>1. FramesOK
  BY DEF IInv, TypeOK, FramesOK
<1>2. globals \in SUBSET Names /\ funs \in Seq(Names)
  BY DEF IInv, TypeOK
<1>3. ASSUME NEW op, At(t, op)
      PROVE  /\ p # NoPoint /\ p \in Points /\ Code[p].op = op /\ look[t].phase = "idle"
             /\ Code[p] \in Instruction /\ Instr(t) = Code[p]
             /\ Top(t).scopes = Shape[p] /\ ~Foisted(Shape[p])
  BY <1>1, <1>3, TopFacts, ShapeAssumption, ProgramAssumption DEF At, Instr
<1>4. ASSUME NEW f \in Functions, Start(t, f)
      PROVE  IInv'
  <2>1. Top(t) = BaseFrame /\ Suspended(frames[t])
    BY <1>1, <1>4, TopFacts, SuspendedFacts DEF Start
  <2>2. Foisted(Top(t).scopes) = FALSE
    BY <2>1 DEF Foisted, BaseFrame, Last
  <2>3. Moved
    BY <1>1, <1>4, <2>1, <2>2, PushCall DEF Start
  <2>4. look[t].phase = "idle"
    BY <1>4, ProgramAssumption DEF IInv, LookupSound, Start
  <2>5. QED
    BY <1>2, <1>4, <2>3, <2>4, StackStep DEF Start
<1>5. CASE DeclareVar(t)
  <2>1. At(t, "var")
    BY <1>5 DEF DeclareVar
  <2>2. CASE Abandon(t)
    <3>1. Moved
      BY <1>1, <2>2, AbandonFacts
    <3>2. QED
      BY <1>2, <1>3, <1>5, <2>1, <3>1, StackStep DEF DeclareVar
  <2>3. CASE Goto(t, ReplaceLast(Top(t).scopes, Append(Last(Top(t).scopes), Instr(t).name)))
    <3>1. ReplaceLast(Top(t).scopes, Append(Last(Top(t).scopes), Instr(t).name)) = ShapeAfter(p)
      BY <1>3, <2>1 DEF ShapeAfter
    <3>2. Moved
      BY <1>1, <1>3, <2>1, <2>3, <3>1, GotoFacts
    <3>3. QED
      BY <1>2, <1>3, <1>5, <2>1, <3>2, StackStep DEF DeclareVar
  <2>4. QED
    BY <1>5, <2>2, <2>3 DEF DeclareVar
<1>6. CASE PushScope(t)
  <2>1. At(t, "push")
    BY <1>6 DEF PushScope
  <2>2. Append(Top(t).scopes, <<>>) = ShapeAfter(p)
    BY <1>3, <2>1 DEF ShapeAfter
  <2>3. Moved
    BY <1>1, <1>3, <1>6, <2>1, <2>2, GotoFacts DEF PushScope
  <2>4. QED
    BY <1>2, <1>3, <1>6, <2>1, <2>3, StackStep DEF PushScope
<1>7. CASE PopScope(t)
  <2>1. At(t, "pop")
    BY <1>7 DEF PopScope
  <2>2. Front(Top(t).scopes) = ShapeAfter(p)
    BY <1>3, <2>1 DEF ShapeAfter
  <2>3. Moved
    BY <1>1, <1>3, <1>7, <2>1, <2>2, GotoFacts DEF PopScope
  <2>4. QED
    BY <1>2, <1>3, <1>7, <2>1, <2>3, StackStep DEF PopScope
<1>8. CASE Branch(t)
  <2>1. At(t, "skip")
    BY <1>8 DEF Branch
  <2>2. Top(t).scopes = ShapeAfter(p)
    BY <1>3, <2>1 DEF ShapeAfter
  <2>3. Moved
    BY <1>1, <1>3, <1>8, <2>1, <2>2, GotoFacts DEF Branch
  <2>4. QED
    BY <1>2, <1>3, <1>8, <2>1, <2>3, StackStep DEF Branch
<1>9. CASE Call(t)
  <2>1. At(t, "call")
    BY <1>9 DEF Call
  <2>2. Instr(t).fun \in Functions /\ Foisted(Top(t).scopes) = FALSE
    BY <1>3, <2>1 DEF Instruction
  <2>3. Suspended(frames[t])
    BY <1>1, <1>3, <2>1, SuspendedFacts
  <2>4. Moved
    BY <1>1, <1>9, <2>2, <2>3, PushCall DEF Call
  <2>5. QED
    BY <1>2, <1>3, <1>9, <2>1, <2>4, StackStep DEF Call
<1>10. CASE DeclareGlobal(t)
  <2>1. At(t, "global")
    BY <1>10 DEF DeclareGlobal
  <2>2. Top(t).scopes = ShapeAfter(p)
    BY <1>3, <2>1 DEF ShapeAfter
  <2>3. Moved
    BY <1>1, <1>3, <1>10, <2>1, <2>2, GotoFacts DEF DeclareGlobal
  <2>4. globals' \in SUBSET Names
    BY <1>2, <1>3, <1>10, <2>1 DEF DeclareGlobal, Instruction
  <2>5. QED
    BY <1>2, <1>3, <1>10, <2>1, <2>3, <2>4, StackStep DEF DeclareGlobal
<1>11. CASE DefineFunction(t)
  <2>1. At(t, "def")
    BY <1>11 DEF DefineFunction
  <2>2. Top(t).scopes = ShapeAfter(p)
    BY <1>3, <2>1 DEF ShapeAfter
  <2>3. Moved
    <3>1. CASE Goto(t, Top(t).scopes)
      BY <1>1, <1>3, <2>1, <2>2, <3>1, GotoFacts
    <3>2. CASE Abandon(t)
      BY <1>1, <3>2, AbandonFacts
    <3>3. QED
      BY <1>11, <3>1, <3>2 DEF DefineFunction
  <2>4. funs' \in Seq(Names)
    BY <1>2, <1>3, <1>11, <2>1 DEF DefineFunction, Instruction
  <2>5. QED
    BY <1>2, <1>3, <1>11, <2>1, <2>3, <2>4, StackStep DEF DefineFunction
<1>12. CASE CallAttribute(t)
  <2>1. At(t, "attr")
    BY <1>12 DEF CallAttribute
  <2>2. Moved
    <3> DEFINE s  == frames[t]
               fr == [Top(t) EXCEPT !.scopes = Append(@, <<"__this">>)]
               base == ReplaceLast(s, fr)
    <3>1. /\ s \in Seq(Frame) /\ s # <<>> /\ Len(s) \in Nat /\ Len(s) >= 2
          /\ Top(t) \in Frame /\ Top(t).scopes = Shape[p] /\ Suspended(Front(s))
      BY <1>1, <1>3, <2>1, TopFacts, SuspendedFacts
    <3>2. fr = [point |-> p, scopes |-> FrameShape(fr, FALSE)]
      <4>1. PICK pt, sc : Top(t) = [point |-> pt, scopes |-> sc]
        BY <3>1 DEF Frame
      <4>2. pt = p /\ sc = Shape[p]
        BY <4>1, <3>1
      <4>3. fr = [point |-> pt, scopes |-> Append(sc, <<"__this">>)]
        BY <4>1
      <4>4. fr = [point |-> p, scopes |-> Append(Shape[p], <<"__this">>)]
        BY <4>2, <4>3
      <4>8. Code[p].op = "attr"
        BY <1>3, <2>1
      <4>5. FrameShape(fr, FALSE) = Append(Shape[p], <<"__this">>)
        BY <4>4, <4>8 DEF FrameShape
      <4>6. QED
        BY <4>4, <4>5
    <3>3. fr \in Frame
      <4>1. <<"__this">> \in Seq(Names)
        BY ProgramAssumption
      <4>2. Append(Shape[p], <<"__this">>) \in Seq(Seq(Names))
        BY <4>1, <1>3, <2>1, ShapeAssumption
      <4>3. QED
        BY <3>1, <4>2 DEF Frame
    <3>4. /\ base \in Seq(Frame) /\ Len(base) = Len(s) /\ base[Len(s)] = fr
          /\ \A i \in 1..(Len(s) - 1) : base[i] = s[i]
      <4> HIDE DEF fr, s
      <4>1. QED
        BY <3>1, <3>3, ReplaceTopFacts DEF ReplaceLast
    <3>5. /\ Len(Front(s)) = Len(s) - 1
          /\ \A i \in 1..(Len(s) - 1) : Front(s)[i] = s[i]
      BY <3>1, FrontFacts
    <3>6. Len(base) > 0 /\ base[1] = BaseFrame
      <4>1. s[1] = BaseFrame
        BY <1>1 DEF FramesOK, FramesFollowShape
      <4>2. 1 \in 1..(Len(s) - 1)
        BY <3>1
      <4> HIDE DEF base, s
      <4>3. QED
        BY <3>1, <3>4, <4>1, <4>2
    <3>7. ASSUME NEW k \in 2..Len(base)
          PROVE  /\ base[k].point \in Points
                 /\ base[k].scopes = FrameShape(base[k], FALSE)
                 /\ Code[base[k].point].op \in CallOps
      <4>1. CASE k = Len(s)
        BY <4>1, <1>3, <2>1, <3>2, <3>4 DEF CallOps
      <4>2. CASE k # Len(s)
        <5>1. k \in 2..Len(Front(s)) /\ k \in 1..(Len(s) - 1)
          BY <3>1, <3>4, <3>5, <4>2
        <5>2. base[k] = Front(s)[k]
          BY <5>1, <3>4, <3>5
        <5>3. QED
          BY <5>1, <5>2, <3>1 DEF Suspended
      <4>3. QED
        BY <4>1, <4>2
    <3>8. Suspended(base)
      BY <3>4, <3>6, <3>7 DEF Suspended
    <3>9. Instr(t).fun \in Functions /\ EntryScope(Instr(t).fun, TRUE) = EntryScope(Instr(t).fun, FALSE)
      BY <1>3, <2>1, WellScopedAssumption DEF Instruction
    <3>10. frames' = [frames EXCEPT ![t] = Append(base, Activation(Instr(t).fun, TRUE))]
      BY <1>12 DEF CallAttribute
    <3>11. QED
      <4> HIDE DEF base
      <4>1. QED
        BY <1>1, <3>8, <3>9, <3>10, PushCall
  <2>3. QED
    BY <1>2, <1>3, <1>12, <2>1, <2>2, StackStep DEF CallAttribute
<1>13. CASE Return(t)
  <2> DEFINE s      == frames[t]
             below  == Front(s)
             caller == Last(below)
  <2>1. At(t, "ret")
    BY <1>13 DEF Return
  <2>2. /\ s \in Seq(Frame) /\ s # <<>> /\ Len(s) \in Nat /\ Len(s) >= 2
        /\ Suspended(below)
    BY <1>1, <1>3, <2>1, TopFacts, SuspendedFacts
  <2>3. below \in Seq(Frame) /\ Len(below) \in Nat /\ Len(below) > 0 /\ caller = below[Len(below)]
    BY <2>2 DEF Suspended, Last
  <2>4. CASE caller.point = NoPoint /\ frames' = [frames EXCEPT ![t] = below]
    <3>1. ~(Len(below) >= 2)
      <4>1. SUFFICES ASSUME Len(below) >= 2 PROVE FALSE
        OBVIOUS
      <4>2. Len(below) \in 2..Len(below)
        BY <4>1, <2>3
      <4>3. QED
        BY <4>2, <2>2, <2>3, <2>4, ProgramAssumption DEF Suspended
    <3>2. \A k \in 2..Len(below) : FALSE
      BY <3>1, <2>3
    <3>3. Moved
      <4>1. below[1] = BaseFrame
        BY <2>2 DEF Suspended
      <4> HIDE DEF below
      <4>2. QED
        BY <1>1, <2>3, <2>4, <3>2, <4>1, NewStackFacts
    <3>4. QED
      BY <1>2, <1>3, <1>13, <2>1, <3>3, StackStep DEF Return
  <2>5. CASE caller.point # NoPoint
    <3>1. PICK q \in Code[caller.point].succ :
            frames' = [frames EXCEPT ![t] = ReplaceLast(below,
                  [point  |-> q,
                   scopes |-> IF Code[caller.point].op = "attr"
                              THEN Front(caller.scopes) ELSE caller.scopes])]
      BY <1>13, <2>5 DEF Return
    <3>2. /\ caller.point \in Points
          /\ caller.scopes = FrameShape(caller, FALSE)
          /\ Code[caller.point].op \in CallOps
          /\ Len(below) >= 2
      <4>1. Len(below) >= 2
        <5>1. SUFFICES ASSUME Len(below) < 2 PROVE FALSE
          BY <2>3
        <5>2. Last(below) = below[1]
          <6>1. PICK n \in Nat : n = Len(below)
            BY <2>3
          <6>2. n > 0 /\ n < 2
            BY <6>1, <5>1, <2>3
          <6>3. n = 1
            BY <6>2
          <6>4. QED
            BY <6>1, <6>3 DEF Last
        <5>3. QED
          BY <5>2, <2>2, <2>5 DEF Suspended, BaseFrame
      <4>2. Len(below) \in 2..Len(below)
        BY <4>1, <2>3
      <4>3. QED
        BY <4>1, <4>2, <2>2, <2>3 DEF Suspended
    <3>3. q \in Points /\ Shape[q] = Shape[caller.point]
      BY <3>1, <3>2, SuccessorFacts DEF ShapeAfter, CallOps
    <3>4. (IF Code[caller.point].op = "attr" THEN Front(caller.scopes) ELSE caller.scopes) = Shape[q]
      <4>1. Shape[caller.point] \in Seq(Seq(Names)) /\ <<"__this">> \in Seq(Names)
        BY <3>2, ShapeAssumption, ProgramAssumption
      <4>2. Front(Append(Shape[caller.point], <<"__this">>)) = Shape[caller.point]
        <5> DEFINE sh == Shape[caller.point]
                   e  == <<"__this">>
        <5>1. sh \in Seq(Seq(Names)) /\ e \in Seq(Names)
          BY <4>1
        <5> HIDE DEF sh, e
        <5>2. Front(Append(sh, e)) = sh
          BY <5>1, PushFacts
        <5>3. QED
          BY <5>2 DEF sh, e
      <4>3. QED
        BY <3>2, <3>3, <4>2 DEF FrameShape
    <3> DEFINE fr == [point |-> q, scopes |-> Shape[q]]
               st == ReplaceLast(below, fr)
    <3>5. frames' = [frames EXCEPT ![t] = st]
      BY <3>1, <3>4
    <3>6. fr \in Frame
      BY <3>3, ShapeAssumption DEF Frame
    <3>7. /\ st \in Seq(Frame) /\ Len(st) = Len(below) /\ st[Len(below)] = fr
          /\ \A i \in 1..(Len(below) - 1) : st[i] = below[i]
      <4>1. below # <<>>
        BY <2>3
      <4> HIDE DEF fr, below
      <4>2. QED
        BY <2>3, <3>6, <4>1, ReplaceTopFacts DEF ReplaceLast
    <3>8. Len(st) > 0 /\ st[1] = BaseFrame
      BY <2>2, <2>3, <3>2, <3>7 DEF Suspended
    <3>9. ASSUME NEW k \in 2..Len(st)
          PROVE  /\ st[k].point \in Points
                 /\ st[k].scopes = FrameShape(st[k], k = Len(st))
                 /\ k < Len(st) => Code[st[k].point].op \in CallOps
      <4>1. CASE k = Len(st)
        <5>1. st[k].point = q /\ st[k].scopes = Shape[q]
          BY <4>1, <3>7
        <5> HIDE DEF st
        <5>2. QED
          BY <4>1, <5>1, <3>3 DEF FrameShape
      <4>2. CASE k # Len(st)
        <5>1. k \in 2..Len(below) /\ k \in 1..(Len(below) - 1)
          BY <2>3, <3>7, <4>2
        <5>2. st[k] = below[k]
          BY <5>1, <3>7
        <5>3. QED
          BY <4>2, <5>1, <5>2, <2>2 DEF Suspended
      <4>3. QED
        BY <4>1, <4>2
    <3>10. Moved
      <4> HIDE DEF st
      <4>1. QED
        BY <1>1, <3>5, <3>7, <3>8, <3>9, NewStackFacts
    <3>11. QED
      BY <1>2, <1>3, <1>13, <2>1, <3>10, StackStep DEF Return
  <2>6. QED
    BY <1>13, <2>4, <2>5 DEF Return
<1>14. QED
  BY <1>4, <1>5, <1>6, <1>7, <1>8, <1>9, <1>10, <1>11, <1>12, <1>13

(* LookupStep for the steps that leave the loaded m_loc alone.             *)
LEMMA EnterStep ==
  ASSUME IInv, NEW t \in Threads, look[t].phase # "idle",
         NEW p \in Points, p = Top(t).point, Code[p].op = "id", SoundLoc(p, look[t].loc),
         NEW ph \in {"shared", "done"}, NEW a \in Answer, Enter(t, ph, a),
         ph = "shared" => Hits(Shape[p], Code[p].name) = {},
         ph = "done" => Agrees(Shape[p], Code[p].name, a),
         NEW l \in LocValue, SoundLoc(p, l), loc' = [loc EXCEPT ![p] = l],
         UNCHANGED <<frames, globals, funs, saved>>
  PROVE  IInv'
<1> DEFINE e == [phase |-> ph, loc |-> look[t].loc, answer |-> a]
<1>1. e \in Lookup /\ e.phase = ph /\ e.loc = look[t].loc /\ e.answer = a
  BY DEF IInv, TypeOK, Lookup
<1>2. look' = [look EXCEPT ![t] = e]
  BY DEF Enter
<1> HIDE DEF e
<1>3. QED
  BY <1>1, <1>2, LookupStep

(* The index of a function that exists, found by hint or by search.        *)
LEMMA HintedIndexFacts ==
  ASSUME NEW fs \in Seq(Names), NEW n, Binds(fs, n), NEW l \in LocValue
  PROVE  /\ FindHinted(fs, n, l) \in Nat
         /\ FindHinted(fs, n, l) < Len(fs)
         /\ fs[FindHinted(fs, n, l) + 1] = n
<1>1. \E k \in 0..(Len(fs) - 1) : fs[k + 1] = n
  <2>1. PICK i \in 1..Len(fs) : fs[i] = n
    BY DEF Binds
  <2>2. i - 1 \in 0..(Len(fs) - 1) /\ i - 1 + 1 = i
    OBVIOUS
  <2>3. QED
    BY <2>1, <2>2
<1>2. FunctionIndex(fs, n) \in 0..(Len(fs) - 1) /\ fs[FunctionIndex(fs, n) + 1] = n
  BY <1>1 DEF FunctionIndex
<1>3. l.i \in Nat
  BY DEF LocValue
<1>4. QED
  BY <1>2, <1>3 DEF FindHinted

(* The end of a lookup: the thread is idle again, its stacks have moved.   *)
LEMMA FinishStep ==
  ASSUME IInv, NEW t \in Threads, look' = [look EXCEPT ![t] = NotLooking],
         FramesOK', \A u \in Threads \ {t} : frames'[u] = frames[u],
         UNCHANGED <<loc, globals, funs, saved>>
  PROVE  IInv'
<1>1. look'[t].phase = "idle" /\ \A u \in Threads \ {t} : look'[u] = look[u]
  BY DEF IInv, TypeOK, NotLooking
<1>2. ASSUME NEW u \in Threads, look'[u].phase # "idle"
      PROVE  Top(u)' = Top(u) /\ look'[u] = look[u] /\ Instr(u)' = Instr(u)
  <2>1. u # t
    BY <1>1, <1>2
  <2>2. QED
    BY <2>1, <1>1 DEF Top, Instr
<1>3. NotLooking \in Lookup
  BY DEF NotLooking, Lookup, Unset, NoAnswer, LocValue, Answer
<1>4. TypeOK'
  BY <1>3 DEF IInv, TypeOK, FramesOK
<1>5. CacheSound'
  BY DEF IInv, CacheSound
<1>6. LookupSound'
  <2> SUFFICES ASSUME NEW u \in Threads, look'[u].phase # "idle"
               PROVE  /\ Top(u).point \in Points
                      /\ Instr(u).op = "id"
                      /\ SoundLoc(Top(u).point, look[u].loc)
                      /\ look[u].phase = "shared" => Hits(Top(u).scopes, Instr(u).name) = {}
    BY <1>2 DEF LookupSound
  <2>1. QED
    BY <1>2 DEF IInv, LookupSound
<1>7. LookupAgrees'
  <2> SUFFICES ASSUME NEW u \in Threads, look'[u].phase = "done"
               PROVE  Agrees(Top(u).scopes, Instr(u).name, look[u].answer)
    BY <1>2 DEF LookupAgrees, Agrees
  <2>1. QED
    BY <1>2 DEF IInv, LookupAgrees, Agrees
<1>8. QED
  BY <1>4, <1>5, <1>6, <1>7 DEF IInv, FramesOK

(* The three steps of get_object and what follows them.                    *)
LEMMA LookupStepPreserves ==
  ASSUME IInv, NEW t \in Threads,
         LoadLoc(t) \/ ResolveLocal(t) \/ ResolveShared(t) \/ FinishLookup(t)
  PROVE  IInv'
<1> DEFINE p  == Top(t).point
           n  == Code[p].name
           sc == Shape[p]
<1>1. FramesOK
  BY DEF IInv, TypeOK, FramesOK
<1>2. /\ look[t] \in Lookup /\ look[t].loc \in LocValue /\ look[t].answer \in Answer
      /\ look[t] = [phase |-> look[t].phase, loc |-> look[t].loc, answer |-> look[t].answer]
  BY DEF IInv, TypeOK, Lookup
<1>3. ASSUME NEW q \in Points
      PROVE  loc[q] \in LocValue /\ SoundLoc(q, loc[q]) /\ [loc EXCEPT ![q] = loc[q]] = loc
  BY DEF IInv, TypeOK, CacheSound
<1>4. ASSUME look[t].phase # "idle"
      PROVE  /\ p \in Points /\ p # NoPoint /\ Code[p].op = "id" /\ Instr(t) = Code[p]
             /\ SoundLoc(p, look[t].loc)
             /\ Top(t).scopes = sc
             /\ look[t].phase = "shared" => Hits(sc, n) = {}
  BY <1>1, <1>4, TopFacts, ProgramAssumption DEF IInv, LookupSound, Instr
<1>5. Unset \in LocValue /\ NoAnswer \in Answer /\ Located \in LocValue
  BY DEF Unset, NoAnswer, Located, LocValue, Answer
<1>6. CASE LoadLoc(t)
  <2>1. /\ p \in Points /\ Code[p].op = "id"
    BY <1>1, <1>6, TopFacts DEF LoadLoc, At, Instr
  <2> DEFINE e == [phase |-> "loaded", loc |-> loc[p], answer |-> NoAnswer]
  <2>2. e \in Lookup
    BY <1>3, <1>5, <2>1 DEF Lookup
  <2>3. look' = [look EXCEPT ![t] = e] /\ loc' = [loc EXCEPT ![p] = loc[p]]
        /\ UNCHANGED <<frames, globals, funs, saved>>
    BY <1>3, <1>6, <2>1 DEF LoadLoc
  <2>4. e.loc = loc[p] /\ e.phase # "shared" /\ e.phase # "done"
    OBVIOUS
  <2> HIDE DEF e
  <2>5. QED
    BY <1>3, <2>1, <2>2, <2>3, <2>4, LookupStep
<1>7. CASE ResolveLocal(t)
  <2>1. look[t].phase = "loaded" /\ UNCHANGED <<frames, globals, funs, saved>>
    BY <1>7 DEF ResolveLocal
  <2>2. /\ p \in Points /\ Code[p].op = "id" /\ Instr(t) = Code[p] /\ Top(t).scopes = sc
        /\ SoundLoc(p, look[t].loc)
    BY <1>4, <2>1
  <2>3. CASE /\ Hits(sc, n) # {}
             /\ loc' = [loc EXCEPT ![p] = Encoded(sc, n)]
             /\ Enter(t, "done", LocalAnswer(FirstHit(sc, n).s, FirstHit(sc, n).i))
    <3> DEFINE a == LocalAnswer(FirstHit(sc, n).s, FirstHit(sc, n).i)
    <3>1. /\ Encoded(sc, n) \in LocValue /\ SoundLoc(p, Encoded(sc, n))
          /\ a \in Answer /\ Agrees(sc, n, a)
      BY <2>2, <2>3, CachedPositionFacts DEF SoundLoc, Agrees, LocalAnswer
    <3> HIDE DEF a
    <3>2. Enter(t, "done", a)
      BY <2>3 DEF a
    <3>3. QED
      BY <2>1, <2>2, <2>3, <3>1, <3>2, EnterStep
  <2>4. CASE /\ Hits(sc, n) = {}
             /\ loc' = [loc EXCEPT ![p] = Located]
             /\ Enter(t, "shared", NoAnswer)
    <3>1. SoundLoc(p, Located)
      BY <2>4 DEF SoundLoc, Located
    <3>2. QED
      BY <1>5, <2>1, <2>2, <2>4, <3>1, EnterStep
  <2>5. CASE /\ look[t].loc.kind = "local"
             /\ Enter(t, "done", AtCached(sc, look[t].loc))
             /\ UNCHANGED loc
    <3> DEFINE a == AtCached(sc, look[t].loc)
    <3>1. Hits(sc, n) # {} /\ look[t].loc = Encoded(sc, n)
      BY <2>2, <2>5 DEF SoundLoc, Unset
    <3>2. a = LocalAnswer(FirstHit(sc, n).s, FirstHit(sc, n).i)
      BY <2>2, <3>1, CachedPositionFacts
    <3>3. a \in Answer /\ Agrees(sc, n, a)
      BY <2>2, <3>1, <3>2, CachedPositionFacts DEF Agrees, LocalAnswer
    <3>4. loc' = [loc EXCEPT ![p] = loc[p]]
      BY <1>3, <2>2, <2>5
    <3> HIDE DEF a
    <3>5. Enter(t, "done", a)
      BY <2>5 DEF a
    <3>6. QED
      BY <1>3, <2>1, <2>2, <3>3, <3>4, <3>5, EnterStep
  <2>6. CASE /\ look[t].loc.kind \in {"located", "hint"}
             /\ Enter(t, "shared", NoAnswer)
             /\ UNCHANGED loc
    <3>1. Hits(sc, n) = {}
      <4>1. ASSUME Hits(sc, n) # {} PROVE FALSE
        <5>1. look[t].loc \in {Unset, Encoded(sc, n)}
          BY <2>2, <4>1 DEF SoundLoc
        <5>2. Encoded(sc, n).kind = "local" /\ Unset.kind = "unset"
          BY <2>2, <4>1, CachedPositionFacts DEF Unset
        <5>3. QED
          BY <2>6, <5>1, <5>2
      <4>2. QED
        BY <4>1
    <3>2. loc' = [loc EXCEPT ![p] = loc[p]]
      BY <1>3, <2>2, <2>6
    <3>3. QED
      BY <1>3, <1>5, <2>1, <2>2, <2>6, <3>1, <3>2, EnterStep
  <2>7. QED
    BY <1>7, <2>2, <2>3, <2>4, <2>5, <2>6 DEF ResolveLocal
<1>8. CASE ResolveShared(t)
  <2> DEFINE k == FindHinted(funs, n, look[t].loc)
  <2>1. look[t].phase = "shared" /\ UNCHANGED <<frames, globals, funs, saved>>
    BY <1>8 DEF ResolveShared
  <2>2. /\ p \in Points /\ Code[p].op = "id" /\ Instr(t) = Code[p] /\ Top(t).scopes = sc
        /\ SoundLoc(p, look[t].loc) /\ Hits(sc, n) = {}
    BY <1>4, <2>1
  <2>3. CASE (Enter(t, "done", GlobalAnswer) \/ Enter(t, "done", ErrorAnswer)) /\ UNCHANGED loc
    <3>1. /\ GlobalAnswer \in Answer /\ Agrees(sc, n, GlobalAnswer)
          /\ ErrorAnswer \in Answer /\ Agrees(sc, n, ErrorAnswer)
      BY <2>2 DEF GlobalAnswer, ErrorAnswer, Answer, Agrees
    <3>2. loc' = [loc EXCEPT ![p] = loc[p]]
      BY <1>3, <2>2, <2>3
    <3>3. QED
      BY <1>3, <2>1, <2>2, <2>3, <3>1, <3>2, EnterStep
  <2>4. CASE /\ Binds(funs, n)
             /\ Enter(t, "done", FunctionAnswer(k))
             /\ loc' = IF look[t].loc = Hint(k) THEN loc ELSE [loc EXCEPT ![p] = Hint(k)]
    <3>1. k \in Nat
      BY <1>2, <2>4, HintedIndexFacts DEF IInv, TypeOK
    <3> HIDE DEF k
    <3>2. FunctionAnswer(k) \in Answer /\ Agrees(sc, n, FunctionAnswer(k))
      BY <2>2, <3>1 DEF FunctionAnswer, Answer, Agrees
    <3>3. Hint(k) \in LocValue /\ SoundLoc(p, Hint(k))
      BY <2>2, <3>1 DEF Hint, Unset, LocValue, SoundLoc
    <3>4. CASE loc' = loc
      <4>1. loc' = [loc EXCEPT ![p] = loc[p]]
        BY <1>3, <2>2, <3>4
      <4>2. QED
        BY <1>3, <2>1, <2>2, <2>4, <3>2, <4>1, EnterStep
    <3>5. CASE loc' = [loc EXCEPT ![p] = Hint(k)]
      BY <2>1, <2>2, <2>4, <3>2, <3>3, <3>5, EnterStep
    <3>6. QED
      BY <2>4, <3>4, <3>5
  <2>5. QED
    BY <1>8, <2>2, <2>3, <2>4 DEF ResolveShared
<1>9. CASE FinishLookup(t)
  <2>1. look[t].phase = "done" /\ look' = [look EXCEPT ![t] = NotLooking]
        /\ UNCHANGED <<loc, globals, funs, saved>>
    BY <1>9 DEF FinishLookup
  <2>2. p # NoPoint /\ Top(t).scopes = ShapeAfter(p)
    BY <1>4, <2>1 DEF ShapeAfter
  <2>3. FramesOK' /\ \A u \in Threads \ {t} : frames'[u] = frames[u]
    BY <1>1, <1>9, <2>2, AbandonFacts, GotoFacts DEF FinishLookup
  <2>4. QED
    BY <2>1, <2>3, FinishStep
<1>10. QED
  BY <1>6, <1>7, <1>8, <1>9

LEMMA InitInvariant == Init => IInv
<1> SUFFICES ASSUME Init PROVE IInv
  OBVIOUS
<1>1. BaseFrame \in Frame /\ << BaseFrame >> \in Seq(Frame)
  <2>1. BaseFrame \in Frame
    BY DEF BaseFrame, Frame
  <2> HIDE DEF BaseFrame
  <2>2. QED
    BY <2>1
<1>2. NotLooking \in Lookup /\ NotLooking.phase = "idle" /\ Unset \in LocValue
  BY DEF NotLooking, Lookup, Unset, NoAnswer, LocValue, Answer
<1>3. TypeOK
  BY <1>1, <1>2 DEF Init, TypeOK
<1>4. ASSUME NEW t \in Threads
      PROVE  /\ frames[t] = << BaseFrame >> /\ Len(frames[t]) > 0 /\ frames[t][1] = BaseFrame
             /\ \A k \in 2..Len(frames[t]) : FALSE
  <2> DEFINE st == << BaseFrame >>
  <2>1. Len(st) = 1 /\ st[1] = BaseFrame /\ \A k \in 2..1 : FALSE
    OBVIOUS
  <2>2. frames[t] = st
    BY DEF Init
  <2> HIDE DEF st
  <2>3. QED
    BY <2>1, <2>2 DEF st
<1>5. FramesFollowShape
  BY <1>4 DEF FramesFollowShape
<1>6. CacheSound
  <2>1. ASSUME NEW p \in Points PROVE SoundLoc(p, loc[p])
    <3>1. loc[p] = Unset /\ Unset.kind = "unset"
      BY DEF Init, Unset
    <3>2. QED
      BY <3>1 DEF SoundLoc
  <2>2. QED
    BY <2>1 DEF CacheSound
<1>7. LookupSound /\ LookupAgrees
  BY <1>2 DEF Init, LookupSound, LookupAgrees
<1>8. QED
  BY <1>3, <1>5, <1>6, <1>7 DEF IInv

(* The host's get_state and set_state move neither stacks nor lookups.     *)
LEMMA HostStepPreserves ==
  ASSUME IInv, UNCHANGED <<frames, loc, look>>,
         GetState \/ SetState \/ UNCHANGED <<globals, funs, saved>>
  PROVE  IInv'
<1>1. TypeOK'
  BY DEF IInv, TypeOK, GetState, SetState
<1>2. FramesFollowShape' /\ CacheSound'
  BY DEF IInv, FramesFollowShape, CacheSound
<1>3. \A t \in Threads : Top(t)' = Top(t) /\ Instr(t)' = Instr(t)
  BY DEF Top, Instr
<1>4. LookupSound' /\ LookupAgrees'
  BY <1>3 DEF IInv, LookupSound, LookupAgrees
<1>5. QED
  BY <1>1, <1>2, <1>4 DEF IInv

LEMMA NextInvariant == IInv /\ [Next]_vars => IInv'
<1> SUFFICES ASSUME IInv, [Next]_vars PROVE IInv'
  OBVIOUS
<1>1. CASE \E t \in Threads : ThreadStep(t)
  <2>1. PICK t \in Threads : ThreadStep(t)
    BY <1>1
  <2>2. QED
    BY <2>1, ProgramStepPreserves, LookupStepPreserves DEF ThreadStep
<1>2. CASE GetState \/ SetState
  BY <1>2, HostStepPreserves DEF GetState, SetState
<1>3. CASE UNCHANGED vars
  BY <1>3, HostStepPreserves DEF vars
<1>4. QED
  BY <1>1, <1>2, <1>3 DEF Next

(* Stacks, cached positions and lookups in progress always follow the      *)
(* program's shapes (Stack_Holder, Id_AST_Node::m_loc, get_object).        *)
THEOREM InvariantHolds == Spec => []IInv
<1>1. QED
  BY InitInvariant, NextInvariant, PTL DEF Spec

(* Every variable keeps its type: the stack a scope is pushed on, popped   *)
(* from or searched in is never empty (the assert of pop_scope).           *)
THEOREM TypeCorrect == Spec => []TypeOK
<1>1. IInv => TypeOK
  BY DEF IInv
<1>2. QED
  BY <1>1, InvariantHolds, PTL

(* However a function is left, with a foisted __this or not, the guards    *)
(* leave the thread the stacks its next point needs.                       *)
THEOREM FramesKeepShape == Spec => []FramesFollowShape
<1>1. IInv => FramesFollowShape
  BY DEF IInv
<1>2. QED
  BY <1>1, InvariantHolds, PTL

(* get_object never trusts a stale m_loc: on a well-scoped program it      *)
(* answers what searching the calling thread's stack would.                *)
THEOREM LookupCorrect == Spec => []LookupAgrees
<1>1. IInv => LookupAgrees
  BY DEF IInv
<1>2. QED
  BY <1>1, InvariantHolds, PTL

(* Threads racing on the first lookup of a node store the same position,   *)
(* and nothing ever moves it.                                              *)
THEOREM CachedPositionNeverMoves == Spec => CachedPositionStable
<1>1. ASSUME IInv, [Next]_vars
      PROVE  [\A p \in Points : loc[p].kind = "local" => loc'[p] = loc[p]]_vars
  <2> SUFFICES ASSUME NEW p \in Points, loc[p].kind = "local"
               PROVE  loc'[p] = loc[p]
    OBVIOUS
  <2>1. IInv'
    BY <1>1, NextInvariant
  <2>2. loc[p] = Encoded(Shape[p], Code[p].name) /\ Hits(Shape[p], Code[p].name) # {}
    BY <1>1 DEF IInv, CacheSound, SoundLoc, Unset
  <2>3. loc'[p] \in {Unset, Encoded(Shape[p], Code[p].name)}
    BY <2>1, <2>2 DEF IInv, CacheSound, SoundLoc
  <2>4. loc'[p] # loc[p] => loc'[p].kind # "unset"
    <3>1. CASE \E t \in Threads : ThreadStep(t)
      <4>1. PICK t \in Threads : ThreadStep(t)
        BY <3>1
      <4>2. CASE ResolveLocal(t)
        <5>1. loc'[p] \in {loc[p], Encoded(Top(t).scopes, Instr(t).name), Located}
          BY <1>1, <4>2 DEF ResolveLocal, IInv, TypeOK
        <5>2. QED
          BY <5>1 DEF Encoded, LocalAt, Located
      <4>3. CASE ResolveShared(t)
        <5>1. SUFFICES ASSUME loc'[p] # loc[p] PROVE FALSE
          OBVIOUS
        <5>2. p = Top(t).point /\ Instr(t) = Code[p]
          BY <1>1, <4>3, <5>1 DEF ResolveShared, IInv, TypeOK, Instr
        <5>3. Top(t).scopes = Shape[p]
          <6>1. FramesOK
            BY <1>1 DEF IInv, TypeOK, FramesOK
          <6>2. QED
            BY <5>2, <6>1, TopFacts, ProgramAssumption
        <5>4. Hits(Shape[p], Code[p].name) = {}
          BY <1>1, <4>3, <5>2, <5>3 DEF IInv, LookupSound, ResolveShared
        <5>5. QED
          BY <5>4, <2>2
      <4>4. CASE ~ResolveLocal(t) /\ ~ResolveShared(t)
        BY <4>1, <4>4 DEF ThreadStep, Start, DeclareVar, PushScope, PopScope, Branch,
             Call, CallAttribute, Return, DeclareGlobal, DefineFunction, LoadLoc, FinishLookup
      <4>5. QED
        BY <4>2, <4>3, <4>4
    <3>2. CASE GetState \/ SetState \/ UNCHANGED vars
      BY <3>2 DEF GetState, SetState, vars
    <3>3. QED
      BY <1>1, <3>1, <3>2 DEF Next
  <2>5. QED
    BY <2>2, <2>3, <2>4 DEF Unset
<1>2. QED
  BY <1>1, InvariantHolds, PTL DEF Spec, CachedPositionStable

(* A lookup that leaves the stack answers from the current tables: the     *)
(* hint QuickFlatMap::find gets is only a hint.                            *)
THEOREM SharedAnswersAreFresh == Spec => SharedAnswerFresh
<1> DEFINE Fresh ==
      \A t \in Threads : (look[t].phase = "shared" /\ look'[t].phase = "done") =>
       LET n == Instr(t).name  ans == look'[t].answer IN
       CASE n \in globals -> ans.kind = "global"
         [] n \notin globals /\ Binds(funs, n) ->
              ans.kind = "function" /\ ans.i < Len(funs) /\ funs[ans.i + 1] = n
         [] OTHER -> ans.kind = "error"
<1>1. ASSUME IInv, [Next]_vars
      PROVE  [Fresh]_vars
  <2> SUFFICES ASSUME NEW t \in Threads, look[t].phase = "shared", look'[t].phase = "done"
               PROVE  LET n == Instr(t).name  ans == look'[t].answer IN
                      CASE n \in globals -> ans.kind = "global"
                        [] n \notin globals /\ Binds(funs, n) ->
                             ans.kind = "function" /\ ans.i < Len(funs) /\ funs[ans.i + 1] = n
                        [] OTHER -> ans.kind = "error"
    OBVIOUS
  <2>1. look[t] \in Lookup /\ look[t].loc \in LocValue /\ funs \in Seq(Names)
    BY <1>1 DEF IInv, TypeOK, Lookup
  <2>2. look' # look
    OBVIOUS
  <2>3. ResolveShared(t)
    <3>1. PICK u \in Threads : ThreadStep(u)
      <4>1. ~GetState /\ ~SetState /\ ~UNCHANGED vars
        BY <2>2 DEF GetState, SetState, vars
      <4>2. QED
        BY <1>1, <4>1 DEF Next
    <3>2. look \in [Threads -> Lookup]
      BY <1>1 DEF IInv, TypeOK
    <3>3. ~(\E f \in Functions : Start(u, f))
      BY <2>2 DEF Start
    <3>4. /\ ~DeclareVar(u) /\ ~PushScope(u) /\ ~PopScope(u) /\ ~Branch(u) /\ ~Call(u)
          /\ ~CallAttribute(u) /\ ~Return(u) /\ ~DeclareGlobal(u) /\ ~DefineFunction(u)
      BY <2>2 DEF DeclareVar, PushScope, PopScope, Branch, Call, CallAttribute, Return,
           DeclareGlobal, DefineFunction
    <3>5. ~LoadLoc(u)
      BY <3>2 DEF LoadLoc, At
    <3>6. ~FinishLookup(u)
      BY <3>2 DEF FinishLookup, NotLooking
    <3>7. ~ResolveLocal(u)
      BY <3>2 DEF ResolveLocal, Enter
    <3>8. ResolveShared(u)
      BY <3>1, <3>3, <3>4, <3>5, <3>6, <3>7 DEF ThreadStep
    <3>9. u = t
      BY <3>2, <3>8 DEF ResolveShared, Enter
    <3>10. QED
      BY <3>8, <3>9
  <2>4. QED
    BY <1>1, <2>1, <2>3, HintedIndexFacts
       DEF ResolveShared, Enter, GlobalAnswer, FunctionAnswer, ErrorAnswer, IInv, TypeOK
<1>2. QED
  BY <1>1, InvariantHolds, PTL DEF Spec, SharedAnswerFresh
===============================================================================
