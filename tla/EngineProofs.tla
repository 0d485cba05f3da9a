----------------------------- MODULE EngineProofs -----------------------------
(***************************************************************************)
(* Theorems about CallLifetime and EngineTables.                           *)
(*                                                                         *)
(* However deep the calls, scopes and operators nest, and wherever an      *)
(* exception leaves them, what an argument, a variable or a result refers  *)
(* to stays in call_params or with its owner as long as the reference, and *)
(* no longer than the outermost call.                                      *)
(*                                                                         *)
(* Whatever calls the host's threads make, and however they interleave, a  *)
(* global is replaced by set_global and set_state only, and a module that  *)
(* is found loaded is all there.                                           *)
(***************************************************************************)
EXTENDS CallLifetime, EngineTables, SequenceTheorems, TLAPS

(* The fields that the nesting is made of.                                 *)
Same(f, g) ==
  /\ f.kind = g.kind /\ f.depth = g.depth /\ f.level = g.level /\ f.since = g.since
  /\ Counted(f) <=> Counted(g)

LEMMA HeldFacts == ASSUME NEW f \in Frame PROVE Held(f) \subseteq Obj
<1>1. f.args \subseteq Value /\ f.result \subseteq Value /\ f.conv \subseteq Obj
  BY DEF Frame
<1>2. \A v \in Value : v.obj \in Obj
  BY DEF Value
<1>3. QED
  BY <1>1, <1>2 DEF Held

(* The node at work is the last one.                                       *)
LEMMA TopFacts ==
  ASSUME TypeOK, work # <<>>
  PROVE  /\ Len(work) \in Nat /\ Len(work) >= 1
         /\ Len(work) \in 1..Len(work)
         /\ Top = work[Len(work)] /\ Top \in Frame
<1>1. Len(work) \in Nat /\ Len(work) >= 1
  BY DEF TypeOK
<1>2. Len(work) \in 1..Len(work)
  BY <1>1
<1>3. QED
  BY <1>1, <1>2 DEF Top, TypeOK

(* The nodes under the top.                                                *)
LEMMA UnderFacts ==
  ASSUME TypeOK, work # <<>>
  PROVE  /\ Under \in Seq(Frame)
         /\ Len(Under) = Len(work) - 1
         /\ \A i \in 1..Len(Under) : Under[i] = work[i]
<1>1. PICK n \in Int : n = Len(work) - 1 /\ n >= 0
  BY TopFacts
<1>2. \A i \in 1..n : work[i] \in Frame
  BY <1>1 DEF TypeOK
<1>3. /\ SubSeq(work, 1, n) \in Seq(Frame)
      /\ Len(SubSeq(work, 1, n)) = IF 1 <= n THEN n - 1 + 1 ELSE 0
      /\ \A i \in 1..(n - 1 + 1) : SubSeq(work, 1, n)[i] = work[1 + i - 1]
  BY <1>2, SubSeqProperties DEF TypeOK
<1>4. Len(SubSeq(work, 1, n)) = n
  BY <1>1, <1>3
<1>5. \A i \in 1..n : SubSeq(work, 1, n)[i] = work[i]
  BY <1>3
<1>6. QED
  BY <1>1, <1>3, <1>4, <1>5 DEF Under

(* Nodes that went, or changed nothing of the nesting, leave it as it is;  *)
(* the last one may hold more.                                             *)
LEMMA SameShape ==
  ASSUME TypeOK, Nested, Ordered, work' \in Seq(Frame), Len(work') <= Len(work), made <= made', made' \in Nat,
         \A i \in 1..Len(work') : Same(work'[i], work[i]) /\ \A o \in Held(work'[i]) : o <= made',
         \A i \in 1..Len(work') : i # Len(work') => Held(work'[i]) \subseteq Held(work[i])
  PROVE  Nested' /\ Ordered'
<1>0. PICK n \in Nat : n = Len(work')
  OBVIOUS
<1>1. PICK m \in Nat : m = Len(work) /\ n <= m
  BY <1>0 DEF TypeOK
<1>2. \A i \in 1..n : i \in 1..m /\ Same(work'[i], work[i]) /\ work[i] \in Frame
  BY <1>0, <1>1 DEF TypeOK
<1>3. Nested'
  <2> SUFFICES ASSUME NEW i \in 1..n
               PROVE  /\ work'[i].depth = DepthBelow(i)' + (IF Counted(work'[i]) THEN 1 ELSE 0)
                      /\ work'[i].level = LevelBelow(i)' + (IF work'[i].kind = "scope" THEN 1 ELSE 0)
                      /\ work'[i].level >= 1
                      /\ work'[i].depth >= 1 => \E j \in 1..i : Counted(work'[j])
                      /\ \A j \in 1..i : work'[i].level > LevelBelow(j)' =>
                           \E k \in j..i : work'[k].kind = "scope"
                      /\ work'[i].since <= made'
    BY <1>0 DEF Nested
  <2>2. \A j \in 1..i : DepthBelow(j)' = DepthBelow(j) /\ LevelBelow(j)' = LevelBelow(j)
    <3>1. \A j \in 1..i : j = 1 \/ j - 1 \in 1..n
      OBVIOUS
    <3>2. QED
      BY <3>1, <1>2 DEF DepthBelow, LevelBelow, Same
  <2>3. \A j \in 1..i : /\ Counted(work'[j]) <=> Counted(work[j])
                        /\ work'[j].kind = work[j].kind
    BY <1>2 DEF Same
  <2>4. i \in 1..Len(work) /\ i \in 1..i
    BY <1>1
  <2>5. Same(work'[i], work[i]) /\ work[i].since \in Nat
    BY <1>2 DEF Frame
  <2>6. /\ work'[i].depth = DepthBelow(i)' + (IF Counted(work'[i]) THEN 1 ELSE 0)
        /\ work'[i].level = LevelBelow(i)' + (IF work'[i].kind = "scope" THEN 1 ELSE 0)
        /\ work'[i].level >= 1
        /\ work'[i].depth >= 1 => \E j \in 1..i : Counted(work'[j])
    BY <2>2, <2>3, <2>4, <2>5 DEF Nested, Same
  <2>7. ASSUME NEW j \in 1..i, work'[i].level > LevelBelow(j)'
        PROVE  \E k \in j..i : work'[k].kind = "scope"
    <3>1. PICK k \in j..i : work[k].kind = "scope"
      BY <2>2, <2>4, <2>5, <2>7 DEF Nested, Same
    <3>2. k \in 1..i
      OBVIOUS
    <3>3. QED
      BY <3>1, <3>2, <2>3
  <2>8. work'[i].since <= made'
    <3>1. work[i].since <= made /\ work'[i].since = work[i].since
      BY <2>4, <2>5 DEF Nested, Same
    <3>2. QED
      BY <2>5, <3>1 DEF TypeOK
  <2>9. QED
    BY <2>6, <2>7, <2>8
<1>4. Ordered'
  <2> SUFFICES ASSUME NEW i \in 1..n, NEW j \in 1..n, i < j
               PROVE  /\ work'[i].depth <= work'[j].depth
                      /\ work'[i].level <= work'[j].level
                      /\ work'[i].since <= work'[j].since
                      /\ \A o \in Held(work'[i]) : o <= work'[j].since
                      /\ Counted(work'[j]) => work'[i].depth < work'[j].depth
                      /\ work'[j].kind = "scope" => work'[i].level < work'[j].level
    BY <1>0 DEF Ordered
  <2>1. i \in 1..Len(work) /\ j \in 1..Len(work) /\ i # n
    BY <1>1
  <2>2. Same(work'[i], work[i]) /\ Same(work'[j], work[j]) /\ Held(work'[i]) \subseteq Held(work[i])
    BY <2>1, <1>0, <1>2
  <2>3. QED
    BY <2>1, <2>2 DEF Ordered, Same
<1>5. QED
  BY <1>3, <1>4

(* A node on top of nodes that nest nests if it counts from theirs and     *)
(* began after what they hold was there.                                   *)
LEMMA NewTop ==
  ASSUME TypeOK, Nested, Ordered, work' \in Seq(Frame), made <= made', made' \in Nat,
         NEW n \in Nat, n <= Len(work), Len(work') = n + 1,
         \A i \in 1..n : Same(work'[i], work[i]) /\ Held(work'[i]) \subseteq Held(work[i]),
         NEW f \in Frame, work'[n + 1] = f,
         f.depth = (IF n = 0 THEN 0 ELSE work[n].depth) + (IF Counted(f) THEN 1 ELSE 0),
         f.level = (IF n = 0 THEN 1 ELSE work[n].level) + (IF f.kind = "scope" THEN 1 ELSE 0),
         f.since <= made', \A o \in Held(f) : o <= made',
         \A i \in 1..n : work[i].since <= f.since /\ \A o \in Held(work[i]) : o <= f.since
  PROVE  Nested' /\ Ordered'
<1>1. PICK m \in Nat : m = Len(work) /\ n <= m
  BY DEF TypeOK
<1>2. \A i \in 1..n : i \in 1..m /\ Same(work'[i], work[i]) /\ work[i] \in Frame
  BY <1>1 DEF TypeOK
<1>c. \A i \in 1..n : Held(work'[i]) \subseteq Held(work[i])
  OBVIOUS
<1>3. n = 0 \/ n \in 1..m
  BY <1>1
<1>4. n # 0 => work[n] \in Frame /\ work[n].depth \in Nat /\ work[n].level \in Nat /\ work[n].level >= 1
  <2> SUFFICES ASSUME n # 0
               PROVE  work[n] \in Frame /\ work[n].depth \in Nat /\ work[n].level \in Nat /\ work[n].level >= 1
    OBVIOUS
  <2>1. work[n] \in Frame
    BY <1>2, <1>3
  <2>2. work[n].level >= 1
    BY <1>1, <1>3 DEF Nested
  <2>3. QED
    BY <2>1, <2>2 DEF Frame
<1>5. f.depth \in Nat /\ f.level \in Nat
  BY DEF Frame
<1>b. \A j \in 1..(n + 1) : DepthBelow(j)' = DepthBelow(j) /\ LevelBelow(j)' = LevelBelow(j)
  <2>1. \A j \in 1..(n + 1) : j = 1 \/ j - 1 \in 1..n
    OBVIOUS
  <2>2. QED
    BY <2>1, <1>2 DEF DepthBelow, LevelBelow, Same
<1>6. Nested'
  <2> SUFFICES ASSUME NEW i \in 1..(n + 1)
               PROVE  /\ work'[i].depth = DepthBelow(i)' + (IF Counted(work'[i]) THEN 1 ELSE 0)
                      /\ work'[i].level = LevelBelow(i)' + (IF work'[i].kind = "scope" THEN 1 ELSE 0)
                      /\ work'[i].level >= 1
                      /\ work'[i].depth >= 1 => \E j \in 1..i : Counted(work'[j])
                      /\ \A j \in 1..i : work'[i].level > LevelBelow(j)' =>
                           \E k \in j..i : work'[k].kind = "scope"
                      /\ work'[i].since <= made'
                      /\ \A o \in Held(work'[i]) : o <= made'
    BY DEF Nested
  <2>3. CASE i \in 1..n
    <3>1. i \in 1..Len(work) /\ Same(work'[i], work[i]) /\ work[i] \in Frame /\ work[i].since \in Nat
      BY <1>1, <1>2, <2>3 DEF Frame
    <3>2. \A j \in 1..i : (Counted(work'[j]) <=> Counted(work[j])) /\ work'[j].kind = work[j].kind
      BY <1>2, <2>3 DEF Same
    <3>3. /\ work'[i].depth = DepthBelow(i)' + (IF Counted(work'[i]) THEN 1 ELSE 0)
          /\ work'[i].level = LevelBelow(i)' + (IF work'[i].kind = "scope" THEN 1 ELSE 0)
          /\ work'[i].level >= 1
          /\ work'[i].depth >= 1 => \E j \in 1..i : Counted(work'[j])
      BY <1>b, <3>1, <3>2 DEF Nested, Same
    <3>4. ASSUME NEW j \in 1..i, work'[i].level > LevelBelow(j)'
          PROVE  \E k \in j..i : work'[k].kind = "scope"
      <4>1. PICK k \in j..i : work[k].kind = "scope"
        BY <1>b, <3>1, <3>4 DEF Nested, Same
      <4>2. k \in 1..i
        OBVIOUS
      <4>3. QED
        BY <4>1, <4>2, <3>2
    <3>5. work'[i].since <= made' /\ \A o \in Held(work'[i]) : o <= made'
      <4>1. work[i].since <= made /\ work'[i].since = work[i].since /\ Held(work'[i]) \subseteq Held(work[i])
            /\ \A o \in Held(work[i]) : o <= made
        BY <2>3, <3>1, <1>c DEF Nested, Same
      <4>2. Held(work[i]) \subseteq Int
        <5>1. Held(work[i]) \subseteq Obj
          BY <3>1, HeldFacts
        <5>2. Obj \subseteq Int
          BY DEF Obj
        <5>3. QED
          BY <5>1, <5>2
      <4>3. made \in Nat
        BY DEF TypeOK
      <4>4. QED
        BY <3>1, <4>1, <4>2, <4>3
    <3>6. QED
      BY <3>3, <3>4, <3>5
  <2>4. CASE i = n + 1
    <3>1. DepthBelow(i) = (IF n = 0 THEN 0 ELSE work[n].depth)
          /\ LevelBelow(i) = (IF n = 0 THEN 1 ELSE work[n].level)
      BY <2>4 DEF DepthBelow, LevelBelow
    <3>2. work'[i] = f
      BY <2>4
    <3>3. f.level >= 1
      BY <1>4, <1>5
    <3>4. f.depth >= 1 => \E j \in 1..i : Counted(work'[j])
      <4>1. CASE Counted(f)
        BY <4>1, <2>4, <3>2
      <4>2. CASE ~Counted(f) /\ f.depth >= 1
        <5>1. n # 0 /\ work[n].depth >= 1
          BY <4>2, <1>4
        <5>2. PICK j \in 1..n : Counted(work[j])
          BY <5>1, <1>3, <1>1 DEF Nested
        <5>3. Counted(work'[j]) /\ j \in 1..i
          BY <5>2, <1>2, <2>4 DEF Same
        <5>4. QED
          BY <5>3
      <4>3. QED
        BY <4>1, <4>2
    <3>5. ASSUME NEW j \in 1..i, f.level > LevelBelow(j)
          PROVE  \E k \in j..i : work'[k].kind = "scope"
      <4>1. CASE f.kind = "scope"
        BY <4>1, <2>4, <3>2
      <4>2. CASE f.kind # "scope"
        <5>1. n # 0 /\ j # i
          <6>1. f.level = LevelBelow(i)
            BY <1>4, <1>5, <3>1, <4>2
          <6>2. LevelBelow(1) = 1
            BY DEF LevelBelow
          <6>3. j # i
            BY <1>5, <3>5, <6>1
          <6>4. QED
            BY <6>3, <2>4
        <5>2. work[n].level > LevelBelow(j) /\ j \in 1..n /\ n \in 1..Len(work)
          BY <5>1, <1>1, <1>3, <1>4, <2>4, <3>5, <4>2
        <5>3. PICK k \in j..n : work[k].kind = "scope"
          BY <5>2 DEF Nested
        <5>4. k \in 1..n /\ k \in j..i
          BY <2>4
        <5>5. QED
          BY <5>3, <5>4, <1>2 DEF Same
      <4>3. QED
        BY <4>1, <4>2
    <3>6. QED
      BY <1>b, <3>1, <3>2, <3>3, <3>4, <3>5
  <2>5. QED
    BY <2>3, <2>4
<1>7. Ordered'
  <2> SUFFICES ASSUME NEW i \in 1..(n + 1), NEW j \in 1..(n + 1), i < j
               PROVE  /\ work'[i].depth <= work'[j].depth
                      /\ work'[i].level <= work'[j].level
                      /\ work'[i].since <= work'[j].since
                      /\ \A o \in Held(work'[i]) : o <= work'[j].since
                      /\ Counted(work'[j]) => work'[i].depth < work'[j].depth
                      /\ work'[j].kind = "scope" => work'[i].level < work'[j].level
    BY DEF Ordered
  <2>1. i \in 1..n /\ i \in 1..Len(work) /\ Same(work'[i], work[i]) /\ work[i] \in Frame
        /\ Held(work'[i]) \subseteq Held(work[i])
    <3>1. i \in 1..n
      OBVIOUS
    <3>2. QED
      BY <3>1, <1>1, <1>2, <1>c
  <2>2. CASE j \in 1..n
    <3>1. j \in 1..Len(work) /\ Same(work'[j], work[j])
      BY <2>2, <1>1, <1>2
    <3>2. QED
      BY <2>1, <3>1 DEF Ordered, Same
  <2>3. CASE j = n + 1
    <3>1. work[i].depth <= work[n].depth /\ work[i].level <= work[n].level
      <4>1. n \in 1..Len(work) /\ n # 0
        BY <2>1, <1>1
      <4>2. CASE i = n
        BY <4>2, <1>4, <4>1
      <4>3. CASE i < n
        BY <4>3, <4>1, <2>1 DEF Ordered
      <4>4. QED
        BY <4>2, <4>3, <2>1
    <3>2. work'[j] = f /\ n # 0
      BY <2>1, <2>3
    <3>3. work[i].depth \in Nat /\ work[i].level \in Nat
      BY <2>1 DEF Frame
    <3>4. work[n].depth \in Nat /\ work[n].level \in Nat
      BY <3>2, <1>4
    <3>5. work'[i].depth = work[i].depth /\ work'[i].level = work[i].level /\ work'[i].since = work[i].since
      BY <2>1 DEF Same
    <3>6. /\ f.depth = work[n].depth + (IF Counted(f) THEN 1 ELSE 0)
          /\ f.level = work[n].level + (IF f.kind = "scope" THEN 1 ELSE 0)
      BY <3>2
    <3>7. work[i].depth <= f.depth /\ (Counted(f) => work[i].depth < f.depth)
      BY <3>1, <3>3, <3>4, <3>6
    <3>8. work[i].level <= f.level /\ (f.kind = "scope" => work[i].level < f.level)
      BY <3>1, <3>3, <3>4, <3>6
    <3>9. work[i].since <= f.since /\ \A o \in Held(work'[i]) : o <= f.since
      BY <2>1
    <3>10. QED
      BY <3>2, <3>5, <3>7, <3>8, <3>9
  <2>4. QED
    BY <2>2, <2>3
<1>8. QED
  BY <1>6, <1>7
-----------------------------------------------------------------------------
(* What Balanced says of the node at work.                                 *)
LEMMA HereFacts ==
  ASSUME IInv
  PROVE  /\ Here \in Nat /\ Here >= 1 /\ Here \in 1..Here
         /\ depth \in Nat
         /\ work # <<>> => depth = Top.depth /\ Here = Top.level
         /\ depth = (IF Len(work) = 0 THEN 0 ELSE work[Len(work)].depth)
         /\ Here = (IF Len(work) = 0 THEN 1 ELSE work[Len(work)].level)
<1>1. Here \in Nat /\ depth \in Nat
  BY DEF IInv, TypeOK, Here
<1>2. CASE work = <<>>
  <2>1. Len(work) = 0 /\ depth = 0 /\ Here = 1
    BY <1>2 DEF IInv, Balanced
  <2>2. QED
    BY <2>1, <1>2
<1>3. CASE work # <<>>
  <2>1. /\ Len(work) \in 1..Len(work) /\ Len(work) # 0
        /\ Top = work[Len(work)] /\ depth = Top.depth /\ Here = Top.level
    BY <1>3, TopFacts DEF IInv, Balanced
  <2>2. Top.level >= 1
    BY <2>1 DEF IInv, Nested
  <2>3. QED
    BY <1>1, <2>1, <2>2
<1>4. QED
  BY <1>2, <1>3

(* Every node's counts lie between the outermost's and the top's.          *)
LEMMA Bounds ==
  ASSUME IInv, NEW i \in 1..Len(work)
  PROVE  /\ work[i] \in Frame
         /\ work[i].depth \in Nat /\ work[i].depth <= depth
         /\ work[i].level \in 1..Here
         /\ Counted(work[i]) => work[i].depth >= 1
         /\ work[i].since \in Nat /\ work[i].since <= made
         /\ Held(work[i]) \subseteq 1..made
<1>0. \A j \in 1..Len(work) : work[j] \in Frame
  BY DEF IInv, TypeOK
<1>1. work[i] \in Frame /\ work[i].depth \in Nat /\ work[i].level \in Nat /\ work[i].since \in Nat
  BY <1>0 DEF Frame
<1>2. work # <<>>
  BY DEF IInv, TypeOK
<1>3. PICK n \in Nat : n = Len(work) /\ n \in 1..n
  BY <1>2, TopFacts DEF IInv
<1>4. depth = work[n].depth /\ Here = work[n].level /\ work[i].level >= 1
  BY <1>2, <1>3, TopFacts, HereFacts DEF IInv, Nested
<1>5. i = n \/ i < n
  BY <1>3
<1>6. work[i].depth <= depth /\ work[i].level <= Here
  <2>1. CASE i = n
    BY <2>1, <1>1, <1>4
  <2>2. CASE i < n
    BY <2>2, <1>3, <1>4 DEF IInv, Ordered
  <2>3. QED
    BY <1>5, <2>1, <2>2
<1>7. Counted(work[i]) => work[i].depth >= 1
  <2>1. work[i].depth = DepthBelow(i) + (IF Counted(work[i]) THEN 1 ELSE 0)
    BY DEF IInv, Nested
  <2>2. DepthBelow(i) \in Nat
    <3>1. i = 1 \/ i - 1 \in 1..Len(work)
      BY <1>3
    <3>2. \A j \in 1..Len(work) : work[j].depth \in Nat
      BY <1>0 DEF Frame
    <3>3. QED
      BY <3>1, <3>2 DEF DepthBelow
  <2>3. QED
    BY <2>1, <2>2
<1>8. work[i].since <= made /\ Held(work[i]) \subseteq 1..made
  <2>1. work[i].since <= made /\ \A o \in Held(work[i]) : o <= made
    BY DEF IInv, Nested
  <2>2. Held(work[i]) \subseteq Obj
    BY <1>1, HeldFacts
  <2>3. made \in Nat
    BY DEF IInv, TypeOK
  <2>4. \A o \in Obj : o \in Nat /\ o >= 1
    BY LifetimeAssumption DEF Obj
  <2>5. QED
    BY <2>1, <2>2, <2>3, <2>4
<1>9. QED
  BY <1>1, <1>4, <1>6, <1>7, <1>8, HereFacts

(* What is under the place of a node that is there, or would come next.    *)
LEMMA BelowFacts ==
  ASSUME IInv, NEW j \in 1..(Len(work) + 1)
  PROVE  /\ DepthBelow(j) \in Nat /\ DepthBelow(j) <= depth
         /\ LevelBelow(j) \in 1..Here
         /\ j = Len(work) + 1 => DepthBelow(j) = depth /\ LevelBelow(j) = Here
         /\ \A m \in 1..(Len(work) + 1) : j <= m =>
              DepthBelow(j) <= DepthBelow(m) /\ LevelBelow(j) <= LevelBelow(m)
         /\ \A i \in 1..Len(work) : j <= i => DepthBelow(j) <= work[i].depth /\ LevelBelow(j) <= work[i].level
<1>1. PICK n \in Nat : n = Len(work)
  BY DEF IInv, TypeOK
<1>2. j = 1 \/ j - 1 \in 1..n
  BY <1>1
<1>3. \A i \in 1..n : work[i].depth \in Nat /\ work[i].depth <= depth /\ work[i].level \in 1..Here
  BY <1>1, Bounds
<1>4. /\ DepthBelow(j) \in Nat /\ DepthBelow(j) <= depth
      /\ LevelBelow(j) \in 1..Here
  BY <1>2, <1>3, HereFacts DEF DepthBelow, LevelBelow
<1>5. j = n + 1 => DepthBelow(j) = depth /\ LevelBelow(j) = Here
  BY <1>1, <1>2, HereFacts DEF DepthBelow, LevelBelow
<1>6. \A i \in 1..n : j <= i => DepthBelow(j) <= work[i].depth /\ LevelBelow(j) <= work[i].level
  <2> SUFFICES ASSUME NEW i \in 1..n, j <= i
               PROVE  DepthBelow(j) <= work[i].depth /\ LevelBelow(j) <= work[i].level
    OBVIOUS
  <2>1. CASE j = 1
    BY <2>1, <1>3 DEF DepthBelow, LevelBelow
  <2>2. CASE j # 1
    <3>1. j - 1 \in 1..n /\ j - 1 < i
      BY <1>2, <2>2
    <3>2. QED
      BY <1>1, <2>2, <3>1 DEF DepthBelow, LevelBelow, IInv, Ordered
  <2>3. QED
    BY <2>1, <2>2
<1>7. \A m \in 1..(n + 1) : j <= m => DepthBelow(j) <= DepthBelow(m) /\ LevelBelow(j) <= LevelBelow(m)
  <2> SUFFICES ASSUME NEW m \in 1..(n + 1), j <= m
               PROVE  DepthBelow(j) <= DepthBelow(m) /\ LevelBelow(j) <= LevelBelow(m)
    OBVIOUS
  <2>1. CASE j = m
    BY <1>4, <2>1, HereFacts
  <2>2. CASE j # m
    <3>1. m - 1 \in 1..n /\ j <= m - 1 /\ m # 1
      BY <2>2
    <3>2. QED
      BY <1>6, <3>1 DEF DepthBelow, LevelBelow
  <2>3. QED
    BY <2>1, <2>2
<1>8. QED
  BY <1>1, <1>4, <1>5, <1>6, <1>7

(* Where no scope is open at or above a place, the list in use is the same.*)
LEMMA NoScopeAbove ==
  ASSUME IInv, NEW j \in 1..(Len(work) + 1),
         \A k \in 1..Len(work) : k >= j => work[k].kind # "scope"
  PROVE  LevelBelow(j) = Here
<1>1. PICK n \in Nat : n = Len(work)
  BY DEF IInv, TypeOK
<1>2. CASE j = n + 1
  BY <1>1, <1>2, BelowFacts
<1>3. CASE j \in 1..n
  <2>1. n \in 1..n /\ work[n].level = Here
    BY <1>1, <1>3, HereFacts
  <2>2. ~(work[n].level > LevelBelow(j))
    <3>1. \A k \in j..n : work[k].kind # "scope"
      BY <1>1, <1>3
    <3>2. QED
      BY <1>1, <1>3, <2>1, <3>1 DEF IInv, Nested
  <2>3. LevelBelow(j) \in 1..Here /\ Here \in Nat
    BY BelowFacts, HereFacts
  <2>4. QED
    BY <2>1, <2>2, <2>3
<1>4. QED
  BY <1>1, <1>2, <1>3

(* What is kept below a node is kept below the nodes above it too.         *)
LEMMA KeptAbove ==
  ASSUME IInv, NEW o, NEW j \in 1..(Len(work) + 1), NEW m \in 1..(Len(work) + 1), j <= m, KeptBelow(o, j)
  PROVE  KeptBelow(o, m)
<1>1. CASE \E i \in 1..(j - 1) : o \in Owned(work[i])
  BY <1>1 DEF KeptBelow
<1>2. CASE DepthBelow(j) > 0 /\ (o \in saves \/ \E k \in 1..LevelBelow(j) : o \in params[k])
  <2>1. /\ DepthBelow(j) \in Nat /\ DepthBelow(m) \in Nat /\ DepthBelow(j) <= DepthBelow(m)
        /\ LevelBelow(j) \in Nat /\ LevelBelow(m) \in Nat /\ LevelBelow(j) <= LevelBelow(m)
    BY BelowFacts, HereFacts
  <2>2. QED
    BY <1>2, <2>1 DEF KeptBelow
<1>3. QED
  BY <1>1, <1>2 DEF KeptBelow

(* A step that only adds to the lists, or moves the saves to the current   *)
(* one, loses nothing that a node relies on: the saves belong to nodes     *)
(* above the innermost scope.                                              *)
LEMMA GrowKept ==
  ASSUME IInv, NEW n \in Nat, n = Len(work), Len(work') \in Nat, n <= Len(work'),
         \A i \in 1..n : /\ Owned(work[i]) \subseteq Owned(work'[i])
                         /\ work'[i].level = work[i].level /\ work'[i].since = work[i].since
                         /\ work'[i].depth \in Nat /\ work[i].depth <= work'[i].depth,
         \A k \in 1..Here : params[k] \subseteq params'[k],
         saves \subseteq saves' \/ saves \subseteq params'[Here],
         exposed \subseteq exposed', escaped' = escaped,
         NEW i \in 1..n
  PROVE  /\ \A v \in work[i].args \cup work[i].result : KeptValue(v, i)'
         /\ \A o \in work[i].conv \ exposed' : o > work'[i].since /\ KeptBelow(o, i + 1)'
<1>1. \A j \in 1..(n + 1) : LevelBelow(j)' = LevelBelow(j) /\ DepthBelow(j)' \in Nat /\ DepthBelow(j) <= DepthBelow(j)'
  <2>1. \A j \in 1..(n + 1) : j = 1 \/ j - 1 \in 1..n
    OBVIOUS
  <2>2. QED
    BY <2>1 DEF LevelBelow, DepthBelow
<1>2. ASSUME NEW o, NEW j \in 1..(n + 1), KeptBelow(o, j), o \in saves => LevelBelow(j) = Here
      PROVE  KeptBelow(o, j)'
  <2>1. CASE \E k \in 1..(j - 1) : o \in Owned(work[k])
    <3>1. \A k \in 1..(j - 1) : k \in 1..n
      OBVIOUS
    <3>2. QED
      BY <2>1, <3>1 DEF KeptBelow
  <2>2. CASE DepthBelow(j) > 0 /\ (o \in saves \/ \E k \in 1..LevelBelow(j) : o \in params[k])
    <3>1. DepthBelow(j)' > 0 /\ LevelBelow(j)' = LevelBelow(j) /\ LevelBelow(j) \in 1..Here /\ Here \in 1..Here
      <4>1. DepthBelow(j) \in Nat /\ LevelBelow(j) \in 1..Here
        BY BelowFacts
      <4>2. QED
        BY <1>1, <2>2, <4>1, HereFacts
    <3>2. CASE o \in saves
      BY <1>2, <3>1, <3>2 DEF KeptBelow
    <3>3. CASE \E k \in 1..LevelBelow(j) : o \in params[k]
      <4>1. \A k \in 1..LevelBelow(j) : k \in 1..Here
        BY <3>1, HereFacts
      <4>2. QED
        BY <3>1, <3>3, <4>1 DEF KeptBelow
    <3>4. QED
      BY <2>2, <3>2, <3>3
  <2>3. QED
    BY <1>2, <2>1, <2>2 DEF KeptBelow
<1>3. \A o \in Held(work[i]) : o \in Int
  BY Bounds
<1>4. \A k \in 1..n : work[k].since \in Nat
  BY Bounds
<1>5. \A k \in 1..n : k > i => \A o \in Held(work[i]) : o <= work[k].since
  BY DEF IInv, Ordered
<1>6. ASSUME NEW o \in Held(work[i]) \ exposed, o \in saves
      PROVE  LevelBelow(i + 1) = Here
  <2>1. \A k \in 1..n : k >= i + 1 => work[k].kind # "scope"
    BY <1>3, <1>4, <1>5, <1>6 DEF IInv, Waiting
  <2>2. i + 1 \in 1..(n + 1)
    OBVIOUS
  <2>3. QED
    BY <2>1, <2>2, NoScopeAbove
<1>7. ASSUME NEW o \in Held(work[i]) \ exposed, o \in saves, NEW j \in 1..i, o <= work[j].since
      PROVE  LevelBelow(j) = Here
  <2>1. \A k \in 1..n : k >= j => work[j].since <= work[k].since
    <3>1. \A k \in 1..n : k > j => work[j].since <= work[k].since
      BY DEF IInv, Ordered
    <3>2. QED
      BY <3>1, <1>4
  <2>2. \A k \in 1..n : k >= j => work[k].kind # "scope"
    <3> SUFFICES ASSUME NEW k \in 1..n, k >= j, work[k].kind = "scope"
                 PROVE  FALSE
      OBVIOUS
    <3>1. o > work[k].since
      BY <1>7 DEF IInv, Waiting
    <3>2. work[j].since <= work[k].since /\ o <= work[j].since /\ o \in Int
      BY <1>3, <1>7, <2>1
    <3>3. work[j].since \in Nat /\ work[k].since \in Nat
      BY <1>4
    <3>4. QED
      BY <3>1, <3>2, <3>3
  <2>3. j \in 1..(n + 1)
    OBVIOUS
  <2>4. QED
    BY <2>2, <2>3, NoScopeAbove
<1>8. ASSUME NEW v \in work[i].args \cup work[i].result
      PROVE  KeptValue(v, i)'
  <2>1. v.obj \in Held(work[i])
    BY DEF Held
  <2>2. CASE v.obj \in exposed \cup escaped
    BY <2>2 DEF KeptValue
  <2>3. CASE v.obj \notin exposed \cup escaped
    <3>1. /\ \A j \in 1..i : v.obj <= work[j].since => KeptBelow(v.obj, j)
          /\ v.of = "ref" => KeptBelow(v.obj, i + 1)
      BY <2>3 DEF IInv, Kept, KeptValue
    <3>2. ASSUME NEW j \in 1..i, v.obj <= work[j].since
          PROVE  KeptBelow(v.obj, j)'
      <4>1. j \in 1..(n + 1)
        OBVIOUS
      <4>2. v.obj \in saves => LevelBelow(j) = Here
        BY <1>7, <2>1, <2>3, <3>2
      <4>3. QED
        BY <1>2, <3>1, <3>2, <4>1, <4>2
    <3>3. v.of = "ref" => KeptBelow(v.obj, i + 1)'
      <4>1. i + 1 \in 1..(n + 1)
        OBVIOUS
      <4>2. v.obj \in saves => LevelBelow(i + 1) = Here
        BY <1>6, <2>1, <2>3
      <4>3. QED
        BY <1>2, <3>1, <4>1, <4>2
    <3>4. \A j \in 1..i : j \in 1..n
      OBVIOUS
    <3>5. \A j \in 1..i : v.obj <= work'[j].since => KeptBelow(v.obj, j)'
      BY <3>2, <3>4
    <3>6. QED
      BY <3>3, <3>5 DEF KeptValue
  <2>4. QED
    BY <2>2, <2>3
<1>9. ASSUME NEW o \in work[i].conv \ exposed'
      PROVE  o > work'[i].since /\ KeptBelow(o, i + 1)'
  <2>1. o \in Held(work[i]) \ exposed /\ o > work[i].since /\ KeptBelow(o, i + 1)
    BY <1>9 DEF IInv, Kept, KeptConv, Held
  <2>2. i + 1 \in 1..(n + 1) /\ (o \in saves => LevelBelow(i + 1) = Here)
    BY <1>6, <2>1
  <2>3. QED
    BY <1>2, <2>1, <2>2
<1>10. QED
  BY <1>8, <1>9
-----------------------------------------------------------------------------
(* A node pushed on top: what the actions that push have in common.        *)
LEMMA PushNode ==
  ASSUME IInv, NEW f \in Frame, Push(f), made <= made', made' \in Nat,
         f.depth = depth + (IF Counted(f) THEN 1 ELSE 0),
         f.level = Here + (IF f.kind = "scope" THEN 1 ELSE 0),
         f.since = made, f.args = {}, f.result = {}, f.conv \subseteq 1..made',
         f.conv \subseteq exposed', ~f.saved,
         \A k \in 1..Here : params[k] \subseteq params'[k],
         saves \subseteq saves' \/ saves \subseteq params'[Here],
         exposed \subseteq exposed', escaped' = escaped
  PROVE  /\ Nested' /\ Ordered' /\ Kept'
         /\ work' \in Seq(Frame) /\ work' # <<>> /\ Len(work') = Len(work) + 1
         /\ Top' = f /\ work'[Len(work) + 1] = f
         /\ \A i \in 1..Len(work) : work'[i] = work[i] /\ i \in 1..Len(work')
         /\ \A i \in 1..Len(work') : i \in 1..Len(work) \/ i = Len(work) + 1
<1>1. PICK n \in Nat : n = Len(work)
  BY DEF IInv, TypeOK
<1>2. /\ work' = Append(work, f) /\ work' \in Seq(Frame) /\ Len(work') = n + 1
      /\ work'[n + 1] = f
      /\ \A i \in 1..n : work'[i] = work[i]
  BY <1>1 DEF Push, IInv, TypeOK
<1>3. \A i \in 1..n : Same(work'[i], work[i]) /\ Held(work'[i]) \subseteq Held(work[i])
  BY <1>2 DEF Same
<1>4. Nested' /\ Ordered'
  <2>1. /\ f.depth = (IF n = 0 THEN 0 ELSE work[n].depth) + (IF Counted(f) THEN 1 ELSE 0)
        /\ f.level = (IF n = 0 THEN 1 ELSE work[n].level) + (IF f.kind = "scope" THEN 1 ELSE 0)
    BY <1>1, HereFacts
  <2>2. TypeOK /\ Nested /\ Ordered
    BY DEF IInv
  <2>3. n <= Len(work)
    BY <1>1
  <2>4. \A i \in 1..n : work[i].since <= f.since /\ \A o \in Held(work[i]) : o <= f.since
    <3>1. \A i \in 1..n : work[i].since <= made /\ \A o \in Held(work[i]) : o <= made
      BY <1>1 DEF IInv, Nested
    <3>2. QED
      BY <3>1
  <2>5. f.since <= made' /\ \A o \in Held(f) : o <= made'
    BY DEF Held
  <2>6. QED
    BY <1>2, <1>3, <2>1, <2>2, <2>3, <2>4, <2>5, NewTop
<1>5. Kept'
  <2> SUFFICES ASSUME NEW i \in 1..(n + 1)
               PROVE  /\ \A v \in work'[i].args \cup work'[i].result : KeptValue(v, i)'
                      /\ KeptConv(i)' /\ KeptOwned(i)'
    BY <1>2 DEF Kept
  <2>1. CASE i \in 1..n
    <3>1. \A k \in 1..n : work[k].depth \in Nat
      BY <1>1, Bounds
    <3>2. /\ \A v \in work[i].args \cup work[i].result : KeptValue(v, i)'
          /\ \A o \in work[i].conv \ exposed' : o > work'[i].since /\ KeptBelow(o, i + 1)'
      BY <1>1, <1>2, <2>1, <3>1, GrowKept
    <3>3. params[work[i].level] \subseteq params'[work[i].level]
      BY <1>1, <2>1, Bounds
    <3>4. KeptOwned(i)
      BY <1>1, <2>1 DEF IInv, Kept
    <3>5. KeptOwned(i)'
      BY <1>2, <2>1, <3>3, <3>4 DEF KeptOwned
    <3>6. QED
      BY <1>2, <2>1, <3>2, <3>5 DEF KeptConv
  <2>2. CASE i = n + 1
    BY <1>2, <2>2 DEF KeptConv, KeptOwned
  <2>3. QED
    BY <2>1, <2>2
<1>6. QED
  BY <1>1, <1>2, <1>4, <1>5 DEF Top

LEMMA EnterScopeStep == ASSUME IInv, EnterScope PROVE IInv'
<1> DEFINE f == New("scope", "run", {}, depth, Here + 1)
<1>1. /\ f \in Frame /\ ~Counted(f) /\ f.kind = "scope" /\ f.depth = depth /\ f.level = Here + 1
      /\ f.since = made /\ f.args = {} /\ f.result = {} /\ f.conv = {} /\ ~f.saved
  <2>1. depth \in Nat /\ Here + 1 \in Nat /\ {} \in SUBSET Obj /\ {} \in SUBSET Value /\ made \in Nat
    BY HereFacts DEF IInv, TypeOK
  <2>2. f \in Frame
    BY <2>1 DEF f, New, Frame
  <2>3. QED
    BY <2>2 DEF f, New, Counted
<1> HIDE DEF f
<1>2. /\ Push(f) /\ params' = Append(params, {})
      /\ UNCHANGED <<depth, enabled, saves, unwinding, made, escaped>>
      /\ exposed' = exposed \cup saves \cup UNION { work[i].conv : i \in 1..Len(work) }
  BY DEF EnterScope, f
<1>4. /\ params' \in Seq(SUBSET Obj) /\ Here' = Here + 1 /\ params'[Here + 1] = {}
      /\ \A k \in 1..Here : params'[k] = params[k]
  BY <1>2, HereFacts DEF Here, IInv, TypeOK
<1>3. /\ Nested' /\ Ordered' /\ Kept'
      /\ work' \in Seq(Frame) /\ work' # <<>> /\ Len(work') = Len(work) + 1
      /\ Top' = f /\ work'[Len(work) + 1] = f
      /\ \A i \in 1..Len(work) : work'[i] = work[i] /\ i \in 1..Len(work')
      /\ \A i \in 1..Len(work') : i \in 1..Len(work) \/ i = Len(work) + 1
  <2>1. made \in Nat /\ made <= made
    BY DEF IInv, TypeOK
  <2>2. /\ \A k \in 1..Here : params[k] \subseteq params'[k]
        /\ saves \subseteq saves'
        /\ exposed \subseteq exposed' /\ escaped' = escaped
        /\ f.conv \subseteq 1..made' /\ f.conv \subseteq exposed' /\ made' = made
    BY <1>1, <1>2, <1>4
  <2>3. /\ f.depth = depth + (IF Counted(f) THEN 1 ELSE 0)
        /\ f.level = Here + (IF f.kind = "scope" THEN 1 ELSE 0)
    BY <1>1, HereFacts
  <2>4. QED
    BY <1>1, <1>2, <2>1, <2>2, <2>3, PushNode
<1>5. TypeOK'
  <2>1. \A i \in 1..Len(work) : work[i].conv \subseteq Obj
    <3>1. \A i \in 1..Len(work) : work[i] \in Frame
      BY DEF IInv, TypeOK
    <3>2. QED
      BY <3>1 DEF Frame
  <2>2. exposed' \subseteq Obj
    BY <1>2, <2>1 DEF IInv, TypeOK
  <2>3. QED
    BY <1>2, <1>3, <1>4, <2>2 DEF IInv, TypeOK
<1>6. Balanced'
  BY <1>1, <1>2, <1>3, <1>4 DEF IInv, Balanced
<1>7. Waiting'
  BY <1>2 DEF Waiting
<1>9. EmptyBelow'
  <2> SUFFICES ASSUME NEW k \in 1..Here', \A i \in 1..Len(work') : Counted(work'[i]) => work'[i].level > k
               PROVE  params'[k] = {}
    BY DEF EmptyBelow
  <2>1. k \in 1..Here \/ k = Here + 1
    BY <1>4, HereFacts
  <2>2. \A i \in 1..Len(work) : Counted(work[i]) => work[i].level > k
    BY <1>3
  <2>3. QED
    BY <2>1, <2>2, <1>4 DEF IInv, EmptyBelow
<1>10. QED
  BY <1>3, <1>5, <1>6, <1>7, <1>9 DEF IInv

LEMMA BeginOperatorStep == ASSUME IInv, BeginOperator PROVE IInv'
<1> DEFINE f == New("operator", "args", {}, depth, Here)
<1>1. /\ f \in Frame /\ ~Counted(f) /\ f.kind = "operator"
      /\ f.depth = depth /\ f.level = Here
      /\ f.since = made /\ f.args = {} /\ f.result = {} /\ f.conv = {} /\ ~f.saved
  <2>1. depth \in Nat /\ Here \in Nat /\ {} \in SUBSET Obj /\ {} \in SUBSET Value /\ made \in Nat
    BY HereFacts DEF IInv, TypeOK
  <2>2. f \in Frame
    BY <2>1 DEF f, New, Frame
  <2>3. QED
    BY <2>2 DEF f, New, Counted
<1> HIDE DEF f
<1>2. Push(f) /\ UNCHANGED <<depth, params, enabled, saves, unwinding, made, exposed, escaped>>
  BY DEF BeginOperator, f
<1>3. /\ Nested' /\ Ordered' /\ Kept'
      /\ work' \in Seq(Frame) /\ work' # <<>> /\ Len(work') = Len(work) + 1
      /\ Top' = f /\ work'[Len(work) + 1] = f
      /\ \A i \in 1..Len(work) : work'[i] = work[i] /\ i \in 1..Len(work')
      /\ \A i \in 1..Len(work') : i \in 1..Len(work) \/ i = Len(work) + 1
  <2>1. made \in Nat /\ made <= made /\ made' = made
    BY <1>2 DEF IInv, TypeOK
  <2>2. /\ \A k \in 1..Here : params[k] \subseteq params'[k]
        /\ saves \subseteq saves'
        /\ exposed \subseteq exposed' /\ escaped' = escaped
        /\ f.conv \subseteq 1..made' /\ f.conv \subseteq exposed'
    BY <1>1, <1>2
  <2>3. /\ f.depth = depth + (IF Counted(f) THEN 1 ELSE 0)
        /\ f.level = Here + (IF f.kind = "scope" THEN 1 ELSE 0)
    BY <1>1, HereFacts
  <2>4. QED
    BY <1>1, <1>2, <2>1, <2>2, <2>3, PushNode
<1>4. Here' = Here
  BY <1>2 DEF Here
<1>5. TypeOK' /\ Balanced'
  BY <1>1, <1>2, <1>3, <1>4 DEF IInv, TypeOK, Balanced
<1>6. Waiting'
  BY <1>1, <1>2, <1>3 DEF IInv, Waiting
<1>8. EmptyBelow'
  BY <1>2, <1>3, <1>4 DEF IInv, EmptyBelow
<1>9. QED
  BY <1>3, <1>5, <1>6, <1>8 DEF IInv

(* The list of the current scope replaced.                                 *)
LEMMA ReplaceList ==
  ASSUME IInv, NEW x \in SUBSET Obj, params' = [params EXCEPT ![Here] = x]
  PROVE  /\ params' \in Seq(SUBSET Obj) /\ Here' = Here
         /\ params'[Here] = x
         /\ \A k \in 1..Here : k # Here => params'[k] = params[k]
<1>1. params \in Seq(SUBSET Obj) /\ Len(params) \in 1..Len(params)
  BY HereFacts DEF IInv, TypeOK, Here
<1>2. /\ params' \in Seq(SUBSET Obj) /\ Len(params') = Len(params)
      /\ params'[Len(params)] = x
      /\ \A k \in 1..Len(params) : k # Len(params) => params'[k] = params[k]
  BY <1>1 DEF Here
<1>3. QED
  BY <1>2 DEF Here

(* new_function_call and save_params only add to the current list.         *)
LEMMA NewFunctionCallFacts ==
  ASSUME IInv, NEW keep \in SUBSET Obj, NewFunctionCall(keep)
  PROVE  /\ params' \in Seq(SUBSET Obj) /\ Here' = Here
         /\ depth' = depth + 1 /\ depth' \in Nat /\ depth' > 0 /\ enabled' = TRUE
         /\ keep \subseteq params'[Here]
         /\ saves \subseteq params'[Here]
         /\ \A k \in 1..Here : params[k] \subseteq params'[k]
         /\ \A k \in 1..Here : k # Here => params'[k] = params[k]
<1> DEFINE x == params[Here] \cup saves \cup keep
<1>1. x \in SUBSET Obj /\ params[Here] \subseteq x
  <2>1. params[Here] \in SUBSET Obj
    BY HereFacts DEF IInv, TypeOK, Here
  <2>2. QED
    BY <2>1 DEF IInv, TypeOK
<1>2. params' = [params EXCEPT ![Here] = x]
  BY DEF NewFunctionCall
<1>3. keep \subseteq x /\ saves \subseteq x
  OBVIOUS
<1> HIDE DEF x
<1>4. /\ params' \in Seq(SUBSET Obj) /\ Here' = Here /\ params'[Here] = x
      /\ \A k \in 1..Here : k # Here => params'[k] = params[k]
  BY <1>1, <1>2, ReplaceList
<1>5. \A k \in 1..Here : params[k] \subseteq params'[k]
  BY <1>1, <1>4
<1>6. depth' = depth + 1 /\ depth' \in Nat /\ depth' > 0 /\ enabled' = TRUE
  <2>1. depth \in Nat /\ depth' = depth + 1 /\ (enabled = (depth > 0))
    BY DEF IInv, TypeOK, Balanced, NewFunctionCall
  <2>2. depth = 0 \/ (depth > 0) = TRUE
    BY <2>1
  <2>3. enabled' = (enabled \/ depth = 0)
    BY DEF NewFunctionCall
  <2>4. enabled' = TRUE
    BY <2>1, <2>2, <2>3, Zenon
  <2>5. QED
    BY <2>1, <2>4
<1>7. QED
  BY <1>3, <1>4, <1>5, <1>6

LEMMA BeginCallStep == ASSUME IInv, BeginCall PROVE IInv'
<1> DEFINE f == New("call", "args", {}, depth + 1, Here)
<1>1. /\ f \in Frame /\ Counted(f) /\ f.kind = "call" /\ f.depth = depth + 1 /\ f.level = Here
      /\ f.since = made /\ f.args = {} /\ f.result = {} /\ f.conv = {} /\ ~f.saved
  <2>1. /\ depth + 1 \in Nat /\ Here \in Nat /\ {} \in SUBSET Obj /\ {} \in SUBSET Value /\ made \in Nat
    BY HereFacts DEF IInv, TypeOK
  <2>2. f \in Frame
    BY <2>1 DEF f, New, Frame
  <2>3. QED
    BY <2>2 DEF f, New, Counted
<1> HIDE DEF f
<1>2. Push(f) /\ NewFunctionCall({}) /\ saves' = {} /\ UNCHANGED <<unwinding, made, exposed, escaped>>
  BY DEF BeginCall, f
<1>4. /\ params' \in Seq(SUBSET Obj) /\ Here' = Here
      /\ depth' = depth + 1 /\ depth' \in Nat /\ depth' > 0 /\ enabled' = TRUE
      /\ saves \subseteq params'[Here]
      /\ \A k \in 1..Here : params[k] \subseteq params'[k]
      /\ \A k \in 1..Here : k # Here => params'[k] = params[k]
  <2>1. {} \in SUBSET Obj
    OBVIOUS
  <2>2. QED
    BY <1>2, <2>1, NewFunctionCallFacts
<1>3. /\ Nested' /\ Ordered' /\ Kept'
      /\ work' \in Seq(Frame) /\ work' # <<>> /\ Len(work') = Len(work) + 1
      /\ Top' = f /\ work'[Len(work) + 1] = f
      /\ \A i \in 1..Len(work) : work'[i] = work[i] /\ i \in 1..Len(work')
      /\ \A i \in 1..Len(work') : i \in 1..Len(work) \/ i = Len(work) + 1
  <2>1. made \in Nat /\ made <= made /\ made' = made
    BY <1>2 DEF IInv, TypeOK
  <2>2. /\ exposed \subseteq exposed' /\ escaped' = escaped
        /\ f.conv \subseteq 1..made' /\ f.conv \subseteq exposed'
    BY <1>1, <1>2
  <2>3. /\ f.depth = depth + (IF Counted(f) THEN 1 ELSE 0)
        /\ f.level = Here + (IF f.kind = "scope" THEN 1 ELSE 0)
    BY <1>1, HereFacts
  <2>4. QED
    BY <1>1, <1>2, <1>4, <2>1, <2>2, <2>3, PushNode
<1>5. TypeOK' /\ Balanced'
  BY <1>1, <1>2, <1>3, <1>4 DEF IInv, TypeOK, Balanced
<1>6. Waiting'
  BY <1>2 DEF Waiting
<1>8. EmptyBelow'
  <2> SUFFICES ASSUME NEW k \in 1..Here', \A i \in 1..Len(work') : Counted(work'[i]) => work'[i].level > k
               PROVE  params'[k] = {}
    BY DEF EmptyBelow
  <2>1. Len(work) + 1 \in 1..Len(work')
    BY <1>3 DEF IInv, TypeOK
  <2>2. Here > k
    BY <2>1, <1>1, <1>3
  <2>3. k \in 1..Here /\ k # Here
    BY <2>2, <1>4, HereFacts
  <2>4. \A i \in 1..Len(work) : Counted(work[i]) => work[i].level > k
    BY <1>3
  <2>5. QED
    BY <2>3, <2>4, <1>4 DEF IInv, EmptyBelow
<1>9. QED
  BY <1>3, <1>5, <1>6, <1>8 DEF IInv
-----------------------------------------------------------------------------
(* The node at work replaced: what the actions that work on it have in     *)
(* common.                                                                 *)
LEMMA ChangeTop ==
  ASSUME IInv, work # <<>>, NEW n \in Nat, n = Len(work),
         NEW f \in Frame, work' = [work EXCEPT ![n] = f],
         f.kind = Top.kind, f.level = Top.level, f.since = Top.since,
         Top.depth <= f.depth, Counted(Top) => Counted(f),
         f.depth = Top.depth + (IF Counted(f) /\ ~Counted(Top) THEN 1 ELSE 0),
         made <= made', made' \in Nat, Held(f) \subseteq 1..made',
         Owned(Top) \subseteq Owned(f),
         \A k \in 1..Here : params[k] \subseteq params'[k],
         saves \subseteq saves' \/ saves \subseteq params'[Here],
         exposed' = exposed, escaped' = escaped,
         \A v \in f.args \cup f.result : v \in Top.args \cup Top.result \/ KeptValue(v, n)',
         \A o \in f.conv \ exposed :
           o \in Top.conv \/ (o > f.since /\ KeptBelow(o, n + 1)'),
         Counted(f) /\ f.phase = "run" /\ f.saved => Owned(f) \subseteq params'[f.level]
  PROVE  /\ Nested' /\ Ordered' /\ Kept'
         /\ work' \in Seq(Frame) /\ work' # <<>> /\ Len(work') = Len(work)
         /\ Top' = f /\ work'[Len(work)] = f
         /\ \A i \in 1..Len(work) : i # Len(work) => work'[i] = work[i]
<1>1. n = Len(work) /\ n >= 1 /\ n \in 1..n
  BY TopFacts DEF IInv
<1>2. /\ Top = work[n] /\ Top \in Frame /\ depth = Top.depth /\ Here = Top.level
  BY <1>1, TopFacts, HereFacts DEF IInv
<1>3. /\ work' \in Seq(Frame) /\ Len(work') = n /\ work'[n] = f
      /\ \A i \in 1..n : i # n => work'[i] = work[i]
  BY <1>1 DEF IInv, TypeOK
<1>4. PICK m \in Nat : m = n - 1 /\ m + 1 = n
  BY <1>1
<1>5. \A i \in 1..m : i \in 1..n /\ i # n /\ Same(work'[i], work[i]) /\ Held(work'[i]) \subseteq Held(work[i])
  BY <1>3, <1>4 DEF Same
<1>6. Nested' /\ Ordered'
  <2>1. /\ DepthBelow(n) = (IF m = 0 THEN 0 ELSE work[m].depth)
        /\ LevelBelow(n) = (IF m = 0 THEN 1 ELSE work[m].level)
    BY <1>4 DEF DepthBelow, LevelBelow
  <2>2. /\ Top.depth = DepthBelow(n) + (IF Counted(Top) THEN 1 ELSE 0)
        /\ Top.level = LevelBelow(n) + (IF Top.kind = "scope" THEN 1 ELSE 0)
    BY <1>1, <1>2 DEF IInv, Nested
  <2>3. DepthBelow(n) \in Nat
    BY <1>1, BelowFacts
  <2>4. f.depth = DepthBelow(n) + (IF Counted(f) THEN 1 ELSE 0)
    <3>1. CASE Counted(Top)
      BY <2>2, <2>3, <3>1
    <3>2. CASE ~Counted(Top)
      BY <2>2, <2>3, <3>2
    <3>3. QED
      BY <3>1, <3>2
  <2>5. \A i \in 1..m : work[i].since <= f.since /\ \A o \in Held(work[i]) : o <= f.since
    <3>1. \A i \in 1..m : i \in 1..n /\ i < n
      BY <1>4
    <3>2. QED
      BY <1>1, <1>2, <3>1 DEF IInv, Ordered
  <2>6. f.since <= made' /\ \A o \in Held(f) : o <= made'
    <3>1. work[n].since \in Nat /\ work[n].since <= made /\ made \in Nat
      BY <1>1, Bounds DEF IInv, TypeOK
    <3>2. QED
      BY <1>2, <3>1
  <2>7. /\ f.depth = (IF m = 0 THEN 0 ELSE work[m].depth) + (IF Counted(f) THEN 1 ELSE 0)
        /\ f.level = (IF m = 0 THEN 1 ELSE work[m].level) + (IF f.kind = "scope" THEN 1 ELSE 0)
    BY <2>1, <2>2, <2>4
  <2>8. TypeOK /\ Nested /\ Ordered /\ m <= Len(work) /\ Len(work') = m + 1 /\ work'[m + 1] = f
    BY <1>1, <1>3, <1>4 DEF IInv
  <2>9. \A i \in 1..m : Same(work'[i], work[i]) /\ Held(work'[i]) \subseteq Held(work[i])
    BY <1>5
  <2>10. QED
    BY <1>3, <2>5, <2>6, <2>7, <2>8, <2>9, NewTop
<1>7. \A i \in 1..n : /\ Owned(work[i]) \subseteq Owned(work'[i])
                      /\ work'[i].level = work[i].level /\ work'[i].since = work[i].since
                      /\ work'[i].depth \in Nat /\ work[i].depth <= work'[i].depth
  <2> SUFFICES ASSUME NEW i \in 1..n
               PROVE  /\ Owned(work[i]) \subseteq Owned(work'[i])
                      /\ work'[i].level = work[i].level /\ work'[i].since = work[i].since
                      /\ work'[i].depth \in Nat /\ work[i].depth <= work'[i].depth
    OBVIOUS
  <2>1. CASE i = n
    <3>1. f.depth \in Nat
      BY DEF Frame
    <3>2. QED
      BY <1>2, <1>3, <2>1, <3>1
  <2>2. CASE i # n
    <3>1. work[i].depth \in Nat
      BY <1>1, Bounds
    <3>2. QED
      BY <1>3, <2>2, <3>1
  <2>3. QED
    BY <2>1, <2>2
<1>8. Kept'
  <2> SUFFICES ASSUME NEW i \in 1..n
               PROVE  /\ \A v \in work'[i].args \cup work'[i].result : KeptValue(v, i)'
                      /\ KeptConv(i)' /\ KeptOwned(i)'
    BY <1>3 DEF Kept
  <2>1. /\ \A v \in work[i].args \cup work[i].result : KeptValue(v, i)'
        /\ \A o \in work[i].conv \ exposed' : o > work'[i].since /\ KeptBelow(o, i + 1)'
    <3>1. n <= Len(work') /\ Len(work') \in Nat /\ exposed \subseteq exposed'
      BY <1>3
    <3>2. QED
      BY <1>1, <1>7, <3>1, GrowKept
  <2>2. CASE i = n
    <3>1. \A v \in f.args \cup f.result : KeptValue(v, i)'
      BY <1>1, <1>2, <2>1, <2>2
    <3>2. \A o \in f.conv \ exposed' : o > f.since /\ KeptBelow(o, i + 1)'
      BY <1>1, <1>2, <1>3, <2>1, <2>2
    <3>3. QED
      BY <1>3, <2>2, <3>1, <3>2 DEF KeptConv, KeptOwned
  <2>3. CASE i # n
    <3>1. params[work[i].level] \subseteq params'[work[i].level]
      BY <1>1, Bounds
    <3>2. KeptOwned(i)
      BY <1>1 DEF IInv, Kept
    <3>3. KeptOwned(i)'
      BY <1>3, <2>3, <3>1, <3>2 DEF KeptOwned
    <3>4. QED
      BY <1>3, <2>1, <2>3, <3>3 DEF KeptConv
  <2>4. QED
    BY <2>2, <2>3
<1>9. Top' = f /\ work' # <<>>
  BY <1>1, <1>3 DEF Top
<1>10. QED
  BY <1>1, <1>3, <1>6, <1>8, <1>9

LEMMA OperandStep == ASSUME IInv, Operand PROVE IInv'
<1>1. /\ work # <<>> /\ Takes(Top) /\ made' = made + 1 /\ made + 1 <= MaxObjs
      /\ UNCHANGED <<depth, params, enabled, saves, unwinding, exposed, escaped>>
  BY DEF Operand, RoomFor
<1>2. /\ Len(work) \in Nat /\ Len(work) >= 1 /\ Len(work) \in 1..Len(work)
      /\ Top = work[Len(work)] /\ Top \in Frame
  BY <1>1, TopFacts DEF IInv
<1>3. made \in Nat /\ made + 1 \in Obj /\ made' \in 0..MaxObjs /\ made' \in Nat /\ made <= made'
  BY <1>1, LifetimeAssumption DEF IInv, TypeOK, Obj
<1>n. PICK n \in Nat : n = Len(work) /\ n \in 1..n
  BY <1>2
<1>4. PICK v \in Value : v = [of |-> "own", obj |-> made + 1] /\ v.of = "own" /\ v.obj = made + 1
  <2>1. [of |-> "own", obj |-> made + 1] \in Value
    BY <1>3 DEF Value
  <2>2. QED
    BY <2>1
<1> DEFINE f == [Top EXCEPT !.args = @ \cup {v}]
<1>5. /\ f \in Frame /\ f.args = Top.args \cup {v} /\ f.result = Top.result /\ f.conv = Top.conv
      /\ f.kind = Top.kind /\ f.phase = Top.phase /\ f.level = Top.level /\ f.depth = Top.depth
      /\ f.since = Top.since
  BY <1>2, <1>4 DEF Frame
<1>6. work' = [work EXCEPT ![n] = f]
  BY <1>2, <1>n, <1>4 DEF Operand
<1> HIDE DEF f
<1>7. (Counted(f) <=> Counted(Top)) /\ ~(Counted(f) /\ f.phase = "run") /\ Owned(Top) \subseteq Owned(f)
  BY <1>1, <1>5 DEF Counted, Takes, Owned
<1>8. Held(f) \subseteq 1..made'
  <2>1. Held(f) = Held(Top) \cup {made + 1}
    BY <1>4, <1>5 DEF Held
  <2>2. Held(Top) \subseteq 1..made
    BY <1>2, Bounds
  <2>3. QED
    BY <1>1, <1>3, <2>1, <2>2
<1>9. KeptValue(v, n)'
  <2>1. \A j \in 1..n : work'[j].since \in Nat /\ work'[j].since <= made
    <3>1. \A j \in 1..n : work'[j].since = work[j].since
      BY <1>2, <1>n, <1>5, <1>6 DEF IInv, TypeOK
    <3>2. QED
      BY <1>n, <3>1, Bounds
  <2>2. \A j \in 1..n : ~(v.obj <= work'[j].since)
    BY <1>3, <1>4, <2>1
  <2>3. QED
    BY <1>4, <2>2 DEF KeptValue
<1>10. /\ Nested' /\ Ordered' /\ Kept'
       /\ work' \in Seq(Frame) /\ work' # <<>> /\ Len(work') = Len(work)
       /\ Top' = f /\ work'[Len(work)] = f
       /\ \A i \in 1..Len(work) : i # Len(work) => work'[i] = work[i]
  <2>1. /\ Top.depth <= f.depth /\ f.depth = Top.depth + (IF Counted(f) /\ ~Counted(Top) THEN 1 ELSE 0)
    <3>1. Top.depth \in Nat
      BY <1>2 DEF Frame
    <3>2. QED
      BY <1>5, <1>7, <3>1
  <2>2. /\ \A k \in 1..Here : params[k] \subseteq params'[k]
        /\ saves \subseteq saves' /\ exposed' = exposed /\ escaped' = escaped
    BY <1>1
  <2>3. /\ \A a \in f.args \cup f.result : a \in Top.args \cup Top.result \/ KeptValue(a, n)'
        /\ \A o \in f.conv \ exposed : o \in Top.conv
    BY <1>5, <1>9
  <2>4. QED
    BY <1>1, <1>n, <1>3, <1>5, <1>6, <1>7, <1>8, <2>1, <2>2, <2>3, ChangeTop
<1>11. Here' = Here
  BY <1>1 DEF Here
<1>12. TypeOK' /\ Balanced'
  BY <1>1, <1>3, <1>5, <1>10, <1>11 DEF IInv, TypeOK, Balanced
<1>13. \A i \in 1..Len(work) : /\ work'[i].kind = work[i].kind /\ work'[i].since = work[i].since
                               /\ work'[i].level = work[i].level
                               /\ Counted(work'[i]) <=> Counted(work[i])
  BY <1>2, <1>5, <1>7, <1>10
<1>14. Waiting'
  BY <1>1, <1>10, <1>13 DEF IInv, Waiting
<1>15. EmptyBelow'
  BY <1>1, <1>10, <1>11, <1>13 DEF IInv, EmptyBelow
<1>16. QED
  BY <1>10, <1>12, <1>14, <1>15 DEF IInv

(* What can be known of a variable's value where the function runs.        *)
LEMMA VariableFacts ==
  ASSUME IInv, NEW v \in Variables, NEW m \in 1..Len(work)
  PROVE  /\ v \in Value /\ v.obj \in 1..made
         /\ \A j \in 1..m : v.obj \in exposed \cup escaped \/ v.obj > work[j].since \/ KeptBelow(v.obj, j)
         /\ Top.phase = "args" /\ v.of = "ref" => v.obj \in exposed \cup escaped \/ KeptBelow(v.obj, Len(work) + 1)
<1>1. PICK s \in 1..Len(work) : v \in work[s].args /\ work[s].phase = "run"
  BY DEF Variables
<1>2. v \in Value /\ v.obj \in Held(work[s]) /\ KeptValue(v, s) /\ work[s] \in Frame
  <2>1. work[s] \in Frame
    BY DEF IInv, TypeOK
  <2>2. QED
    BY <1>1, <2>1 DEF Held, IInv, Kept, Frame
<1>3. v.obj \in 1..made /\ v.obj \in Int
  BY <1>2, Bounds
<1>n. PICK n \in Nat : n = Len(work)
  BY DEF IInv, TypeOK
<1>4. ASSUME NEW j \in 1..m, v.obj \notin exposed \cup escaped, ~(v.obj > work[j].since)
      PROVE  KeptBelow(v.obj, j)
  <2>0. j \in 1..n /\ work[j].since \in Nat
    BY <1>n, Bounds
  <2>1. v.obj <= work[j].since
    BY <1>3, <1>4, <2>0
  <2>2. CASE j <= s
    BY <1>2, <1>4, <2>1, <2>2 DEF KeptValue
  <2>3. CASE j > s /\ v.of = "own"
    <3>1. v.obj \in Owned(work[s])
      BY <1>1, <2>3 DEF Owned
    <3>2. s \in 1..(j - 1)
      BY <2>0, <2>3
    <3>3. QED
      BY <3>1, <3>2 DEF KeptBelow
  <2>4. CASE j > s /\ v.of = "ref"
    <3>1. KeptBelow(v.obj, s + 1)
      BY <1>2, <1>4, <2>4 DEF KeptValue
    <3>2. s + 1 \in 1..(n + 1) /\ j \in 1..(n + 1) /\ s + 1 <= j
      BY <1>n, <2>0, <2>4
    <3>3. QED
      BY <1>n, <3>1, <3>2, KeptAbove
  <2>5. v.of \in {"own", "ref"}
    BY <1>2 DEF Value
  <2>6. QED
    BY <1>n, <2>0, <2>2, <2>3, <2>4, <2>5
<1>5. ASSUME v.of = "ref", v.obj \notin exposed \cup escaped
      PROVE  KeptBelow(v.obj, Len(work) + 1)
  <2>1. KeptBelow(v.obj, s + 1)
    BY <1>2, <1>5 DEF KeptValue
  <2>2. s + 1 \in 1..(n + 1) /\ n + 1 \in 1..(n + 1) /\ s + 1 <= n + 1
    BY <1>n
  <2>3. QED
    BY <1>n, <2>1, <2>2, KeptAbove
<1>6. QED
  BY <1>2, <1>3, <1>4, <1>5

LEMMA NameStep == ASSUME IInv, Name PROVE IInv'
<1>1. /\ work # <<>> /\ Top.phase = "args" /\ Takes(Top)
      /\ UNCHANGED <<depth, params, enabled, saves, unwinding, made, exposed, escaped>>
  BY DEF Name, InArgs
<1>2. PICK v \in Variables : work' = [work EXCEPT ![Len(work)].args = @ \cup {v}]
  BY DEF Name
<1>3. /\ Len(work) \in Nat /\ Len(work) >= 1 /\ Len(work) \in 1..Len(work)
      /\ Top = work[Len(work)] /\ Top \in Frame
  BY <1>1, TopFacts DEF IInv
<1>4. /\ v \in Value /\ v.obj \in 1..made
      /\ \A j \in 1..Len(work) : v.obj \in exposed \cup escaped \/ v.obj > work[j].since \/ KeptBelow(v.obj, j)
      /\ v.of = "ref" => v.obj \in exposed \cup escaped \/ KeptBelow(v.obj, Len(work) + 1)
  BY <1>1, <1>3, VariableFacts
<1> DEFINE f == [Top EXCEPT !.args = @ \cup {v}]
<1>5. /\ f \in Frame /\ f.args = Top.args \cup {v} /\ f.result = Top.result /\ f.conv = Top.conv
      /\ f.kind = Top.kind /\ f.phase = Top.phase /\ f.level = Top.level /\ f.depth = Top.depth
      /\ f.since = Top.since
  BY <1>3, <1>4 DEF Frame
<1>n. PICK n \in Nat : n = Len(work) /\ n \in 1..n
  BY <1>3
<1>6. work' = [work EXCEPT ![n] = f]
  BY <1>2, <1>3, <1>n
<1> HIDE DEF f
<1>7. (Counted(f) <=> Counted(Top)) /\ ~(Counted(f) /\ f.phase = "run") /\ Owned(Top) \subseteq Owned(f)
  BY <1>1, <1>5 DEF Counted, Owned
<1>8. Held(f) \subseteq 1..made'
  <2>1. Held(f) = Held(Top) \cup {v.obj}
    BY <1>5 DEF Held
  <2>2. Held(Top) \subseteq 1..made
    BY <1>3, Bounds
  <2>3. QED
    BY <1>1, <1>4, <2>1, <2>2
<1>9. KeptValue(v, n)'
  <2> SUFFICES ASSUME v.obj \notin exposed \cup escaped
               PROVE  KeptValue(v, n)'
    BY <1>1 DEF KeptValue
  <2>1. \A i \in 1..n : /\ work'[i].since = work[i].since /\ work'[i].depth = work[i].depth
                        /\ work'[i].level = work[i].level /\ Owned(work[i]) \subseteq Owned(work'[i])
    BY <1>n, <1>3, <1>5, <1>6, <1>7 DEF IInv, TypeOK
  <2>2. ASSUME NEW j \in 1..(n + 1), KeptBelow(v.obj, j)
        PROVE  KeptBelow(v.obj, j)'
    <3>1. j = 1 \/ j - 1 \in 1..n
      OBVIOUS
    <3>2. DepthBelow(j)' = DepthBelow(j) /\ LevelBelow(j)' = LevelBelow(j)
      BY <2>1, <3>1 DEF DepthBelow, LevelBelow
    <3>3. \A i \in 1..(j - 1) : i \in 1..n
      OBVIOUS
    <3>4. QED
      BY <1>1, <2>1, <2>2, <3>2, <3>3 DEF KeptBelow
  <2>3. \A j \in 1..n : v.obj <= work'[j].since => KeptBelow(v.obj, j)'
    <3>1. \A j \in 1..n : work[j].since \in Nat /\ j \in 1..(n + 1)
      BY <1>n, Bounds
    <3>2. v.obj \in Int
      BY <1>4
    <3>3. QED
      BY <1>4, <1>n, <2>1, <2>2, <3>1, <3>2
  <2>4. v.of = "ref" => KeptBelow(v.obj, n + 1)'
    <3>1. n + 1 \in 1..(n + 1)
      BY <1>n
    <3>2. QED
      BY <1>4, <1>n, <2>2, <3>1
  <2>5. QED
    BY <1>n, <2>3, <2>4 DEF KeptValue
<1>10. /\ Nested' /\ Ordered' /\ Kept'
       /\ work' \in Seq(Frame) /\ work' # <<>> /\ Len(work') = Len(work)
       /\ Top' = f /\ work'[Len(work)] = f
       /\ \A i \in 1..Len(work) : i # Len(work) => work'[i] = work[i]
  <2>1. /\ Top.depth <= f.depth /\ f.depth = Top.depth + (IF Counted(f) /\ ~Counted(Top) THEN 1 ELSE 0)
    <3>1. Top.depth \in Nat
      BY <1>3 DEF Frame
    <3>2. QED
      BY <1>5, <1>7, <3>1
  <2>2. /\ \A k \in 1..Here : params[k] \subseteq params'[k]
        /\ saves \subseteq saves' /\ exposed' = exposed /\ escaped' = escaped
        /\ made' \in Nat /\ made <= made'
    BY <1>1 DEF IInv, TypeOK
  <2>3. /\ \A a \in f.args \cup f.result : a \in Top.args \cup Top.result \/ KeptValue(a, n)'
        /\ \A o \in f.conv \ exposed : o \in Top.conv
    BY <1>5, <1>9
  <2>4. QED
    BY <1>1, <1>n, <1>5, <1>6, <1>7, <1>8, <2>1, <2>2, <2>3, ChangeTop
<1>11. Here' = Here
  BY <1>1 DEF Here
<1>12. TypeOK' /\ Balanced'
  BY <1>1, <1>5, <1>10, <1>11 DEF IInv, TypeOK, Balanced
<1>13. \A i \in 1..Len(work) : /\ work'[i].kind = work[i].kind /\ work'[i].since = work[i].since
                               /\ work'[i].level = work[i].level
                               /\ Counted(work'[i]) <=> Counted(work[i])
  BY <1>3, <1>5, <1>7, <1>10
<1>14. Waiting'
  BY <1>1, <1>10, <1>13 DEF IInv, Waiting
<1>15. EmptyBelow'
  BY <1>1, <1>10, <1>11, <1>13 DEF IInv, EmptyBelow
<1>16. QED
  BY <1>10, <1>12, <1>14, <1>15 DEF IInv
-----------------------------------------------------------------------------
(* The conversions of a call are named after everything there was.         *)
LEMMA FreshFacts ==
  ASSUME IInv, NEW n \in 0..1, made + n <= MaxObjs, made' = made + n
  PROVE  /\ Fresh(n) \in SUBSET Obj /\ Fresh(n) \subseteq 1..made'
         /\ made' \in 0..MaxObjs /\ made' \in Nat /\ made <= made'
         /\ \A o \in Fresh(n) : o > made
  BY LifetimeAssumption DEF IInv, TypeOK, Obj, Fresh

LEMMA CallStep == ASSUME IInv, NEW save \in BOOLEAN, NEW n \in 0..1, Call(save, n) PROVE IInv'
<1> DEFINE f == [Top EXCEPT !.phase = "run", !.saved = save, !.conv = Fresh(n)]
           x == IF save THEN params[Here] \cup Owned(Top) ELSE params[Here]
<1>1. /\ work # <<>> /\ Top.phase = "args" /\ Top.kind = "call" /\ made' = made + n /\ made + n <= MaxObjs
      /\ UNCHANGED <<depth, enabled, unwinding, exposed, escaped>>
      /\ saves' = IF enabled THEN saves \cup Fresh(n) ELSE saves
  BY DEF Call, InArgs, RoomFor
<1>2. /\ Len(work) \in Nat /\ Len(work) >= 1 /\ Len(work) \in 1..Len(work)
      /\ Top = work[Len(work)] /\ Top \in Frame /\ Top.level = Here /\ Top.depth = depth
      /\ Counted(Top) /\ Top.depth \in Nat /\ Top.depth >= 1 /\ Top.since \in Nat /\ Top.since <= made
  BY <1>1, TopFacts, HereFacts, Bounds DEF IInv, Counted
<1>m. PICK m \in Nat : m = Len(work) /\ m \in 1..m
  BY <1>2
<1>3. /\ Fresh(n) \in SUBSET Obj /\ Fresh(n) \subseteq 1..made'
      /\ made' \in 0..MaxObjs /\ made' \in Nat /\ made <= made'
      /\ \A o \in Fresh(n) : o > made
  BY <1>1, FreshFacts
<1>4. /\ f \in Frame /\ f.args = Top.args /\ f.result = Top.result /\ f.conv = Fresh(n) /\ f.saved = save
      /\ f.kind = Top.kind /\ f.level = Top.level /\ f.depth = Top.depth /\ f.since = Top.since
  BY <1>1, <1>2, <1>3 DEF Frame
<1>5. work' = [work EXCEPT ![m] = f]
  BY <1>2, <1>m DEF Call
<1>6. Owned(f) = Owned(Top) /\ Owned(Top) \in SUBSET Obj /\ Counted(f)
  BY <1>1, <1>2, <1>4 DEF Owned, Frame, Value, Counted
<1>7. /\ x \in SUBSET Obj /\ params[Here] \subseteq x /\ (save => Owned(Top) \subseteq x)
      /\ params' = [params EXCEPT ![Here] = x]
  <2>1. params[Here] \in SUBSET Obj /\ params \in Seq(SUBSET Obj) /\ Here \in 1..Len(params)
    BY HereFacts DEF IInv, TypeOK, Here
  <2>2. params = [params EXCEPT ![Here] = params[Here]]
    BY <2>1
  <2>3. params' = IF save THEN [params EXCEPT ![Here] = params[Here] \cup Owned(Top)] ELSE params
    BY DEF Call
  <2>4. QED
    BY <2>1, <2>2, <2>3, <1>6
<1> HIDE DEF f, x
<1>8. /\ params' \in Seq(SUBSET Obj) /\ Here' = Here /\ params'[Here] = x
      /\ \A k \in 1..Here : k # Here => params'[k] = params[k]
      /\ \A k \in 1..Here : params[k] \subseteq params'[k]
  <2>1. /\ params' \in Seq(SUBSET Obj) /\ Here' = Here /\ params'[Here] = x
        /\ \A k \in 1..Here : k # Here => params'[k] = params[k]
    BY <1>7, ReplaceList
  <2>2. QED
    BY <1>7, <2>1
<1>9. saves' = saves \cup Fresh(n)
  <2>1. (depth > 0) = TRUE
    BY <1>2
  <2>2. QED
    BY <1>1, <2>1 DEF IInv, Balanced
<1>10. Held(f) \subseteq 1..made'
  <2>1. Held(f) \subseteq Held(Top) \cup Fresh(n)
    BY <1>4 DEF Held
  <2>2. Held(Top) \subseteq 1..made /\ made \in Nat
    BY <1>2, Bounds DEF IInv, TypeOK
  <2>3. 1..made \subseteq 1..made'
    BY <1>3, <2>2
  <2>4. QED
    BY <1>3, <2>1, <2>2, <2>3
<1>11. \A o \in f.conv \ exposed : o > f.since /\ KeptBelow(o, m + 1)'
  <2> SUFFICES ASSUME NEW o \in Fresh(n)
               PROVE  o > f.since /\ KeptBelow(o, m + 1)'
    BY <1>4
  <2>1. o > f.since
    BY <1>2, <1>3, <1>4 DEF IInv, TypeOK
  <2>2. DepthBelow(m + 1)' > 0
    <3>1. work'[m] = f /\ m + 1 # 1 /\ (m + 1) - 1 = m
      BY <1>m, <1>5 DEF IInv, TypeOK
    <3>2. QED
      BY <1>2, <1>4, <3>1 DEF DepthBelow
  <2>3. QED
    BY <1>9, <2>1, <2>2 DEF KeptBelow
<1>12. /\ Nested' /\ Ordered' /\ Kept'
       /\ work' \in Seq(Frame) /\ work' # <<>> /\ Len(work') = Len(work)
       /\ Top' = f /\ work'[Len(work)] = f
       /\ \A i \in 1..Len(work) : i # Len(work) => work'[i] = work[i]
  <2>1. /\ Top.depth <= f.depth /\ f.depth = Top.depth + (IF Counted(f) /\ ~Counted(Top) THEN 1 ELSE 0)
    BY <1>2, <1>4
  <2>2. saves \subseteq saves' /\ exposed' = exposed /\ escaped' = escaped
    BY <1>1, <1>9
  <2>3. \A a \in f.args \cup f.result : a \in Top.args \cup Top.result
    BY <1>4
  <2>4. Counted(f) /\ f.phase = "run" /\ f.saved => Owned(f) \subseteq params'[f.level]
    BY <1>2, <1>4, <1>6, <1>7, <1>8
  <2>5. QED
    BY <1>1, <1>m, <1>3, <1>4, <1>5, <1>6, <1>8, <1>10, <1>11, <2>1, <2>2, <2>3, <2>4, ChangeTop
<1>13. TypeOK' /\ Balanced'
  <2>1. saves' \subseteq Obj
    BY <1>3, <1>9 DEF IInv, TypeOK
  <2>2. QED
    BY <1>1, <1>2, <1>3, <1>4, <1>8, <1>12, <2>1 DEF IInv, TypeOK, Balanced
<1>14. \A i \in 1..Len(work) : /\ work'[i].kind = work[i].kind /\ work'[i].since = work[i].since
                               /\ work'[i].level = work[i].level
                               /\ Counted(work'[i]) <=> Counted(work[i])
  BY <1>2, <1>4, <1>6, <1>12
<1>15. Waiting'
  <2> SUFFICES ASSUME NEW o \in saves' \ exposed, NEW i \in 1..Len(work), work[i].kind = "scope"
               PROVE  o > work[i].since
    BY <1>1, <1>12, <1>14 DEF Waiting
  <2>1. CASE o \in saves
    BY <2>1 DEF IInv, Waiting
  <2>2. CASE o \in Fresh(n)
    <3>1. work[i].since \in Nat /\ work[i].since <= made /\ made \in Nat /\ o > made /\ o \in Nat
      BY <1>3, <2>2, Bounds DEF IInv, TypeOK
    <3>2. QED
      BY <3>1
  <2>3. QED
    BY <1>9, <2>1, <2>2
<1>16. EmptyBelow'
  <2> SUFFICES ASSUME NEW k \in 1..Here, \A i \in 1..Len(work) : Counted(work'[i]) => work'[i].level > k
               PROVE  params'[k] = {}
    BY <1>8, <1>12 DEF EmptyBelow
  <2>1. \A i \in 1..Len(work) : Counted(work[i]) => work[i].level > k
    BY <1>14
  <2>2. Here > k
    BY <2>1, <1>2
  <2>3. QED
    BY <2>1, <2>2, <1>8, HereFacts DEF IInv, EmptyBelow
<1>17. QED
  BY <1>12, <1>13, <1>15, <1>16 DEF IInv

LEMMA OperateStep == ASSUME IInv, NEW n \in 0..1, Operate(n) PROVE IInv'
<1> DEFINE f == [Top EXCEPT !.phase = "run", !.saved = TRUE, !.conv = Fresh(n), !.depth = depth + 1]
<1>1. /\ work # <<>> /\ Top.phase = "args" /\ Top.kind = "operator" /\ made' = made + n
      /\ made + n <= MaxObjs /\ saves' = Fresh(n) /\ UNCHANGED <<unwinding, exposed, escaped>>
      /\ NewFunctionCall(Owned(Top))
  BY DEF Operate, InArgs, RoomFor
<1>2. /\ Len(work) \in Nat /\ Len(work) >= 1 /\ Len(work) \in 1..Len(work)
      /\ Top = work[Len(work)] /\ Top \in Frame /\ Top.level = Here /\ Top.depth = depth
      /\ ~Counted(Top) /\ Top.depth \in Nat /\ Top.since \in Nat /\ Top.since <= made
  BY <1>1, TopFacts, HereFacts, Bounds DEF IInv, Counted
<1>m. PICK m \in Nat : m = Len(work) /\ m \in 1..m
  BY <1>2
<1>3. /\ Fresh(n) \in SUBSET Obj /\ Fresh(n) \subseteq 1..made'
      /\ made' \in 0..MaxObjs /\ made' \in Nat /\ made <= made'
      /\ \A o \in Fresh(n) : o > made
  BY <1>1, FreshFacts
<1>4. Owned(Top) \in SUBSET Obj
  BY <1>2 DEF Owned, Frame, Value
<1>5. /\ params' \in Seq(SUBSET Obj) /\ Here' = Here
      /\ depth' = depth + 1 /\ depth' \in Nat /\ depth' > 0 /\ enabled' = TRUE
      /\ Owned(Top) \subseteq params'[Here]
      /\ saves \subseteq params'[Here]
      /\ \A k \in 1..Here : params[k] \subseteq params'[k]
      /\ \A k \in 1..Here : k # Here => params'[k] = params[k]
  BY <1>1, <1>4, NewFunctionCallFacts
<1>6. /\ f \in Frame /\ Counted(f) /\ f.args = Top.args /\ f.result = Top.result /\ f.kind = Top.kind
      /\ f.phase = "run" /\ f.level = Top.level /\ f.depth = depth + 1 /\ f.since = Top.since
      /\ f.conv = Fresh(n)
  BY <1>1, <1>2, <1>3, <1>5 DEF Frame, Counted
<1>7. Owned(f) = Owned(Top)
  BY <1>6 DEF Owned
<1>8. work' = [work EXCEPT ![m] = f]
  BY <1>2, <1>m DEF Operate
<1> HIDE DEF f
<1>10. Held(f) \subseteq 1..made'
  <2>1. Held(f) \subseteq Held(Top) \cup Fresh(n)
    BY <1>6 DEF Held
  <2>2. Held(Top) \subseteq 1..made /\ made \in Nat
    BY <1>2, Bounds DEF IInv, TypeOK
  <2>3. 1..made \subseteq 1..made'
    BY <1>3, <2>2
  <2>4. QED
    BY <1>3, <2>1, <2>2, <2>3
<1>11. \A o \in f.conv \ exposed : o > f.since /\ KeptBelow(o, m + 1)'
  <2> SUFFICES ASSUME NEW o \in Fresh(n)
               PROVE  o > f.since /\ KeptBelow(o, m + 1)'
    BY <1>6
  <2>1. o > f.since
    BY <1>2, <1>3, <1>6 DEF IInv, TypeOK
  <2>2. DepthBelow(m + 1)' > 0
    <3>1. work'[m] = f /\ m + 1 # 1 /\ (m + 1) - 1 = m
      BY <1>m, <1>8 DEF IInv, TypeOK
    <3>2. QED
      BY <1>5, <1>6, <3>1 DEF DepthBelow
  <2>3. QED
    BY <1>1, <2>1, <2>2 DEF KeptBelow
<1>12. /\ Nested' /\ Ordered' /\ Kept'
       /\ work' \in Seq(Frame) /\ work' # <<>> /\ Len(work') = Len(work)
       /\ Top' = f /\ work'[Len(work)] = f
       /\ \A i \in 1..Len(work) : i # Len(work) => work'[i] = work[i]
  <2>1. /\ Top.depth <= f.depth /\ f.depth = Top.depth + (IF Counted(f) /\ ~Counted(Top) THEN 1 ELSE 0)
    BY <1>2, <1>6
  <2>2. saves \subseteq params'[Here] /\ exposed' = exposed /\ escaped' = escaped
    BY <1>1, <1>5
  <2>3. \A a \in f.args \cup f.result : a \in Top.args \cup Top.result
    BY <1>6
  <2>4. Counted(f) /\ f.phase = "run" /\ f.saved => Owned(f) \subseteq params'[f.level]
    BY <1>2, <1>5, <1>6, <1>7
  <2>5. QED
    BY <1>1, <1>2, <1>m, <1>3, <1>5, <1>6, <1>7, <1>8, <1>10, <1>11, <2>1, <2>2, <2>3, <2>4, ChangeTop
<1>13. TypeOK' /\ Balanced'
  <2>1. enabled' = (depth' > 0)
    <3>1. (depth' > 0) = TRUE
      BY <1>5
    <3>2. QED
      BY <3>1, <1>5
  <2>2. QED
    BY <1>1, <1>2, <1>3, <1>5, <1>6, <1>12, <2>1 DEF IInv, TypeOK, Balanced
<1>15. Waiting'
  <2> SUFFICES ASSUME NEW o \in Fresh(n), NEW i \in 1..Len(work)
               PROVE  o > work'[i].since
    BY <1>1, <1>12 DEF Waiting
  <2>1. work'[i].since = work[i].since
    BY <1>2, <1>6, <1>12
  <2>2. work[i].since \in Nat /\ work[i].since <= made /\ made \in Nat /\ o > made /\ o \in Nat
    BY <1>3, Bounds DEF IInv, TypeOK
  <2>3. QED
    BY <2>1, <2>2
<1>16. EmptyBelow'
  <2> SUFFICES ASSUME NEW k \in 1..Here, \A i \in 1..Len(work) : Counted(work'[i]) => work'[i].level > k
               PROVE  params'[k] = {}
    BY <1>5, <1>12 DEF EmptyBelow
  <2>1. Here > k
    BY <1>2, <1>6, <1>12
  <2>2. \A i \in 1..Len(work) : Counted(work[i]) => work[i].level > k
    <3> SUFFICES ASSUME NEW i \in 1..Len(work), Counted(work[i])
                 PROVE  work[i].level > k
      OBVIOUS
    <3>1. i # Len(work)
      BY <1>2
    <3>2. QED
      BY <3>1, <1>12
  <2>3. QED
    BY <2>1, <2>2, <1>5, HereFacts DEF IInv, EmptyBelow
<1>17. QED
  BY <1>12, <1>13, <1>15, <1>16 DEF IInv

LEMMA HostCallStep == ASSUME IInv, NEW n \in 0..1, HostCall(n) PROVE IInv'
<1> DEFINE f == New("host", "run", Fresh(n), 0, Here)
<1>1. /\ work = <<>> /\ Push(f) /\ made' = made + n /\ made + n <= MaxObjs
      /\ UNCHANGED <<depth, params, enabled, saves, unwinding, escaped>> /\ exposed' = exposed \cup Fresh(n)
  BY DEF HostCall, RoomFor
<1>2. /\ Fresh(n) \in SUBSET Obj /\ Fresh(n) \subseteq 1..made'
      /\ made' \in 0..MaxObjs /\ made' \in Nat /\ made <= made'
  BY <1>1, FreshFacts
<1>3. depth = 0 /\ Here = 1
  BY <1>1 DEF IInv, Balanced
<1>4. /\ f \in Frame /\ ~Counted(f) /\ f.kind = "host" /\ f.depth = depth /\ f.level = Here
      /\ f.since = made /\ f.args = {} /\ f.result = {} /\ f.conv = Fresh(n) /\ ~f.saved
  <2>1. {} \in SUBSET Value /\ 0 \in Nat /\ made \in Nat
    BY DEF IInv, TypeOK
  <2>2. f \in Frame
    BY <2>1, <1>2, <1>3 DEF New, Frame
  <2>3. QED
    BY <2>1, <2>2, <1>3 DEF New, Counted
<1> HIDE DEF f
<1>5. /\ Nested' /\ Ordered' /\ Kept'
      /\ work' \in Seq(Frame) /\ work' # <<>> /\ Len(work') = Len(work) + 1
      /\ Top' = f /\ work'[Len(work) + 1] = f
      /\ \A i \in 1..Len(work) : work'[i] = work[i] /\ i \in 1..Len(work')
      /\ \A i \in 1..Len(work') : i \in 1..Len(work) \/ i = Len(work) + 1
  <2>1. /\ \A k \in 1..Here : params[k] \subseteq params'[k]
        /\ saves \subseteq saves'
        /\ exposed \subseteq exposed' /\ escaped' = escaped
        /\ f.conv \subseteq 1..made' /\ f.conv \subseteq exposed'
    BY <1>1, <1>2, <1>4
  <2>2. /\ f.depth = depth + (IF Counted(f) THEN 1 ELSE 0)
        /\ f.level = Here + (IF f.kind = "scope" THEN 1 ELSE 0)
    BY <1>3, <1>4
  <2>3. QED
    BY <1>1, <1>2, <1>4, <2>1, <2>2, PushNode
<1>6. Len(work) = 0 /\ Len(work') = 1 /\ work'[1] = f
  BY <1>1, <1>5
<1>7. Here' = Here
  BY <1>1 DEF Here
<1>8. TypeOK' /\ Balanced'
  <2>1. exposed' \subseteq Obj
    BY <1>1, <1>2 DEF IInv, TypeOK
  <2>2. QED
    BY <1>1, <1>2, <1>4, <1>5, <1>7, <2>1 DEF IInv, TypeOK, Balanced
<1>9. Waiting'
  BY <1>4, <1>6 DEF Waiting
<1>10. EmptyBelow'
  BY <1>1, <1>6, <1>7 DEF IInv, EmptyBelow
<1>11. QED
  BY <1>5, <1>8, <1>9, <1>10 DEF IInv
-----------------------------------------------------------------------------
(* A node that stays under the one that goes, but for what it was handed.  *)
Like(f, g) ==
  /\ Same(f, g)
  /\ f.phase = g.phase /\ f.saved = g.saved /\ f.conv = g.conv
  /\ Owned(g) \subseteq Owned(f)
  /\ Counted(g) /\ g.phase = "run" => Owned(f) = Owned(g)

(* What a value must have to be handed to the n-th node.                   *)
Handed(v, n) ==
  /\ v.obj \in 1..made
  /\ \/ v.obj \in exposed \cup escaped'
     \/ /\ \A j \in 1..n : v.obj <= work[j].since => KeptBelow(v.obj, j)
        /\ v.of = "ref" => KeptBelow(v.obj, n + 1)

LEMMA HandFacts ==
  ASSUME IInv, work # <<>>, NEW n \in Nat, n = Len(work) - 1, NEW v \in Value, Hand(v)
  PROVE  /\ n >= 1 /\ work' \in Seq(Frame) /\ Len(work') = n
         /\ \A i \in 1..n : Like(work'[i], work[i])
         /\ \A i \in 1..n : i # n => work'[i] = work[i]
         /\ \A a \in work'[n].args \cup work'[n].result : a \in work[n].args \cup work[n].result \cup {v}
<1>1. /\ Under \in Seq(Frame) /\ Len(Under) = n /\ \A i \in 1..n : Under[i] = work[i]
  BY UnderFacts DEF IInv
<1>2. n >= 1 /\ n \in 1..n
  BY DEF Hand
<1>3. work[n] \in Frame
  BY <1>1, <1>2
<1>4. \A f : Like(f, f)
  BY DEF Like, Same
<1>5. CASE Takes(work[n]) /\ work' = [Under EXCEPT ![n].args = @ \cup {v}]
  <2> DEFINE g == [work[n] EXCEPT !.args = @ \cup {v}]
  <2>1. /\ g \in Frame /\ g.kind = work[n].kind /\ g.phase = work[n].phase /\ g.depth = work[n].depth
        /\ g.level = work[n].level /\ g.since = work[n].since /\ g.saved = work[n].saved
        /\ g.conv = work[n].conv /\ g.args = work[n].args \cup {v} /\ g.result = work[n].result
    BY <1>3 DEF Frame
  <2>2. work' = [Under EXCEPT ![n] = g]
    BY <1>1, <1>2, <1>5
  <2> HIDE DEF g
  <2>3. work' \in Seq(Frame) /\ Len(work') = n /\ work'[n] = g /\ \A i \in 1..n : i # n => work'[i] = work[i]
    BY <1>1, <1>2, <2>1, <2>2
  <2>4. Like(g, work[n])
    BY <1>5, <2>1 DEF Like, Same, Counted, Owned, Takes
  <2>5. \A i \in 1..n : Like(work'[i], work[i])
    BY <1>4, <2>3, <2>4
  <2>6. QED
    BY <1>2, <2>1, <2>3, <2>5
<1>6. CASE Counted(work[n]) /\ work[n].phase = "run" /\ work' = [Under EXCEPT ![n].result = {v}]
  <2> DEFINE g == [work[n] EXCEPT !.result = {v}]
  <2>1. /\ g \in Frame /\ g.kind = work[n].kind /\ g.phase = work[n].phase /\ g.depth = work[n].depth
        /\ g.level = work[n].level /\ g.since = work[n].since /\ g.saved = work[n].saved
        /\ g.conv = work[n].conv /\ g.args = work[n].args /\ g.result = {v}
    BY <1>3 DEF Frame
  <2>2. work' = [Under EXCEPT ![n] = g]
    BY <1>1, <1>2, <1>6
  <2> HIDE DEF g
  <2>3. work' \in Seq(Frame) /\ Len(work') = n /\ work'[n] = g /\ \A i \in 1..n : i # n => work'[i] = work[i]
    BY <1>1, <1>2, <2>1, <2>2
  <2>4. Like(g, work[n])
    BY <2>1 DEF Like, Same, Counted, Owned
  <2>5. \A i \in 1..n : Like(work'[i], work[i])
    BY <1>4, <2>3, <2>4
  <2>6. QED
    BY <1>2, <2>1, <2>3, <2>5
<1>7. QED
  BY <1>5, <1>6 DEF Hand

(* The top node goes; the others keep their place and what they rely on.   *)
LEMMA PopNode ==
  ASSUME IInv, work # <<>>, NEW n \in Nat, n = Len(work) - 1,
         work' \in Seq(Frame), Len(work') = n,
         \A i \in 1..n : Like(work'[i], work[i]),
         \A i \in 1..n : \A v \in work'[i].args \cup work'[i].result :
           v \in work[i].args \cup work[i].result \/ (i = n /\ Handed(v, n)),
         saves' = saves, exposed' = exposed, escaped \subseteq escaped', made' = made,
         DepthBelow(n + 1) > 0 => \A k \in 1..LevelBelow(n + 1) : params'[k] = params[k]
  PROVE  /\ Nested' /\ Ordered' /\ Kept' /\ Waiting'
         /\ depth = DepthBelow(n + 1) + (IF Counted(Top) THEN 1 ELSE 0)
         /\ Here = LevelBelow(n + 1) + (IF Top.kind = "scope" THEN 1 ELSE 0)
         /\ DepthBelow(n + 1) \in Nat /\ LevelBelow(n + 1) \in Nat /\ LevelBelow(n + 1) >= 1
         /\ work' = <<>> => DepthBelow(n + 1) = 0 /\ LevelBelow(n + 1) = 1
         /\ work' # <<>> => DepthBelow(n + 1) = Top'.depth /\ LevelBelow(n + 1) = Top'.level
<1>1. n + 1 = Len(work) /\ n + 1 \in 1..Len(work) /\ Top = work[n + 1] /\ depth = Top.depth /\ Here = Top.level
  BY TopFacts, HereFacts DEF IInv
<1>2. \A i \in 1..n : /\ i \in 1..Len(work) /\ Same(work'[i], work[i]) /\ work[i] \in Frame
                      /\ Owned(work[i]) \subseteq Owned(work'[i])
                      /\ work'[i].conv = work[i].conv
  <2> SUFFICES ASSUME NEW i \in 1..n
               PROVE  /\ i \in 1..Len(work) /\ Same(work'[i], work[i]) /\ work[i] \in Frame
                      /\ Owned(work[i]) \subseteq Owned(work'[i])
                      /\ work'[i].conv = work[i].conv
    OBVIOUS
  <2>1. i \in 1..Len(work)
    BY <1>1
  <2>2. work[i] \in Frame
    BY <2>1, Bounds
  <2>3. Like(work'[i], work[i])
    OBVIOUS
  <2>4. QED
    BY <2>1, <2>2, <2>3 DEF Like
<1>3. \A i \in 1..n : \A o \in Held(work'[i]) : o \in Held(work[i]) \/ (i = n /\ o \in 1..made)
  BY <1>2 DEF Held, Handed
<1>4. Nested' /\ Ordered'
  <2>1. \A i \in 1..n : \A o \in Held(work'[i]) : o <= made'
    <3>1. \A i \in 1..n : Held(work[i]) \subseteq 1..made
      BY <1>2, Bounds
    <3>2. QED
      BY <1>3, <3>1 DEF IInv, TypeOK
  <2>2. \A i \in 1..n : i # n => Held(work'[i]) \subseteq Held(work[i])
    BY <1>3
  <2>3. /\ TypeOK /\ Nested /\ Ordered /\ Len(work') <= Len(work) /\ made <= made' /\ made' \in Nat
        /\ Len(work') = n
    BY <1>1 DEF IInv, TypeOK
  <2>4. \A i \in 1..Len(work') : Same(work'[i], work[i]) /\ \A o \in Held(work'[i]) : o <= made'
    BY <1>2, <2>1
  <2>5. QED
    BY <2>2, <2>3, <2>4, SameShape
<1>5. /\ depth = DepthBelow(n + 1) + (IF Counted(Top) THEN 1 ELSE 0)
      /\ Here = LevelBelow(n + 1) + (IF Top.kind = "scope" THEN 1 ELSE 0)
      /\ DepthBelow(n + 1) \in Nat /\ LevelBelow(n + 1) \in Nat /\ LevelBelow(n + 1) >= 1
  <2>1. n + 1 \in 1..(Len(work) + 1)
    BY <1>1
  <2>2. DepthBelow(n + 1) \in Nat /\ LevelBelow(n + 1) \in 1..Here
    BY <2>1, BelowFacts
  <2>3. QED
    BY <1>1, <2>2, HereFacts DEF IInv, Nested
<1>6. CASE n = 0
  <2>1. work' = <<>> /\ DepthBelow(n + 1) = 0 /\ LevelBelow(n + 1) = 1
    BY <1>6, EmptySeq DEF DepthBelow, LevelBelow
  <2>2. Kept' /\ Waiting'
    BY <1>6 DEF Kept, Waiting
  <2>3. QED
    BY <1>4, <1>5, <2>1, <2>2
<1>7. CASE n # 0
  <2>1. n \in 1..n /\ n + 1 # 1 /\ (n + 1) - 1 = n
    BY <1>7
  <2>2. Top' = work'[n] /\ Same(work'[n], work[n]) /\ work' # <<>>
    BY <1>2, <1>7, <2>1 DEF Top
  <2>3. DepthBelow(n + 1) = Top'.depth /\ LevelBelow(n + 1) = Top'.level
    BY <2>1, <2>2 DEF DepthBelow, LevelBelow, Same
  <2>4. Waiting'
    <3> SUFFICES ASSUME NEW o \in saves \ exposed, NEW i \in 1..n, work'[i].kind = "scope"
                 PROVE  o > work'[i].since
      BY DEF Waiting
    <3>1. work[i].kind = "scope" /\ work'[i].since = work[i].since /\ i \in 1..Len(work)
      BY <1>2 DEF Same
    <3>2. QED
      BY <3>1 DEF IInv, Waiting
  <2>5. ASSUME NEW o, NEW j \in 1..(n + 1), KeptBelow(o, j)
        PROVE  KeptBelow(o, j)'
    <3>1. j = 1 \/ j - 1 \in 1..n
      OBVIOUS
    <3>2. DepthBelow(j)' = DepthBelow(j) /\ LevelBelow(j)' = LevelBelow(j)
      BY <1>2, <3>1 DEF DepthBelow, LevelBelow, Same
    <3>3. CASE \E i \in 1..(j - 1) : o \in Owned(work[i])
      <4>1. \A i \in 1..(j - 1) : i \in 1..n
        OBVIOUS
      <4>2. QED
        BY <1>2, <3>3, <4>1 DEF KeptBelow
    <3>4. CASE DepthBelow(j) > 0 /\ (o \in saves \/ \E k \in 1..LevelBelow(j) : o \in params[k])
      <4>1. /\ DepthBelow(j) \in Nat /\ DepthBelow(j) <= DepthBelow(n + 1)
            /\ LevelBelow(j) \in Nat /\ LevelBelow(j) <= LevelBelow(n + 1)
        <5>1. j \in 1..(Len(work) + 1) /\ n + 1 \in 1..(Len(work) + 1) /\ j <= n + 1
          BY <1>1
        <5>2. QED
          BY <5>1, BelowFacts, HereFacts
      <4>2. \A k \in 1..LevelBelow(j) : params'[k] = params[k]
        BY <1>5, <3>4, <4>1
      <4>3. QED
        BY <3>2, <3>4, <4>2 DEF KeptBelow
    <3>5. QED
      BY <2>5, <3>3, <3>4 DEF KeptBelow
  <2>6. Kept'
    <3> SUFFICES ASSUME NEW i \in 1..n
                 PROVE  /\ \A v \in work'[i].args \cup work'[i].result : KeptValue(v, i)'
                        /\ KeptConv(i)' /\ KeptOwned(i)'
      BY DEF Kept
    <3>0. i \in 1..Len(work) /\ i + 1 \in 1..(n + 1) /\ \A j \in 1..i : j \in 1..(n + 1) /\ j \in 1..n
      BY <1>2
    <3>s. \A j \in 1..i : work'[j].since = work[j].since
      BY <1>2, <3>0 DEF Same
    <3>1. ASSUME NEW v \in work[i].args \cup work[i].result
          PROVE  KeptValue(v, i)'
      <4>1. KeptValue(v, i)
        BY <3>0 DEF IInv, Kept
      <4>2. CASE v.obj \in exposed \cup escaped
        BY <4>2 DEF KeptValue
      <4>3. CASE v.obj \notin exposed \cup escaped
        <5>1. \A j \in 1..i : v.obj <= work'[j].since => KeptBelow(v.obj, j)'
          BY <2>5, <3>0, <3>s, <4>1, <4>3 DEF KeptValue
        <5>2. v.of = "ref" => KeptBelow(v.obj, i + 1)'
          BY <2>5, <3>0, <4>1, <4>3 DEF KeptValue
        <5>3. QED
          BY <5>1, <5>2 DEF KeptValue
      <4>4. QED
        BY <4>2, <4>3
    <3>2. ASSUME NEW v, i = n, Handed(v, n)
          PROVE  KeptValue(v, i)'
      <4>1. CASE v.obj \in exposed \cup escaped'
        BY <4>1 DEF KeptValue
      <4>2. CASE v.obj \notin exposed \cup escaped'
        <5>1. \A j \in 1..i : v.obj <= work'[j].since => KeptBelow(v.obj, j)'
          BY <2>5, <3>0, <3>s, <3>2, <4>2 DEF Handed
        <5>2. v.of = "ref" => KeptBelow(v.obj, i + 1)'
          BY <2>5, <3>0, <3>2, <4>2 DEF Handed
        <5>3. QED
          BY <5>1, <5>2 DEF KeptValue
      <4>3. QED
        BY <4>1, <4>2
    <3>3. KeptConv(i)'
      <4>1. KeptConv(i) /\ work'[i].conv = work[i].conv /\ work'[i].since = work[i].since
        BY <1>2, <3>0, <3>s DEF IInv, Kept
      <4>2. QED
        BY <2>5, <3>0, <4>1 DEF KeptConv
    <3>4. KeptOwned(i)'
      <4> SUFFICES ASSUME Counted(work'[i]), work'[i].phase = "run", work'[i].saved
                   PROVE  Owned(work'[i]) \subseteq params'[work'[i].level]
        BY DEF KeptOwned
      <4>1. /\ Counted(work[i]) /\ work[i].phase = "run" /\ work[i].saved
            /\ Owned(work'[i]) = Owned(work[i]) /\ work'[i].level = work[i].level
        BY DEF Like, Same
      <4>2. Owned(work[i]) \subseteq params[work[i].level]
        BY <3>0, <4>1 DEF IInv, Kept, KeptOwned
      <4>3. work[i].depth >= 1 /\ work[i].depth \in Nat /\ work[i].level \in 1..Here
        BY <3>0, <4>1, Bounds
      <4>4. work[i].depth <= DepthBelow(n + 1) /\ work[i].level <= LevelBelow(n + 1)
        <5>1. DepthBelow(n + 1) = work[n].depth /\ LevelBelow(n + 1) = work[n].level
          BY <2>1 DEF DepthBelow, LevelBelow
        <5>2. CASE i = n
          BY <4>3, <5>1, <5>2, HereFacts
        <5>3. CASE i < n
          <6>1. n \in 1..Len(work)
            BY <1>1, <2>1
          <6>2. QED
            BY <3>0, <5>1, <5>3, <6>1 DEF IInv, Ordered
        <5>4. QED
          BY <5>2, <5>3
      <4>5. params'[work[i].level] = params[work[i].level]
        BY <1>5, <4>3, <4>4, HereFacts
      <4>6. QED
        BY <4>1, <4>2, <4>5
    <3>5. \A v \in work'[i].args \cup work'[i].result : KeptValue(v, i)'
      BY <3>1, <3>2
    <3>6. QED
      BY <3>3, <3>4, <3>5
  <2>7. QED
    BY <1>4, <1>5, <2>2, <2>3, <2>4, <2>6
<1>8. QED
  BY <1>6, <1>7
-----------------------------------------------------------------------------
(* A value read in the function at work can be handed out of the scope     *)
(* that ends.                                                              *)
LEMMA LeaveScopeStep == ASSUME IInv, LeaveScope PROVE IInv'
<1>1. /\ work # <<>> /\ Top.kind = "scope" /\ ~Counted(Top)
      /\ UNCHANGED <<depth, enabled, saves, unwinding, made, exposed>>
      /\ params' = SubSeq(params, 1, Here - 1)
  BY DEF LeaveScope, Counted
<1>2. /\ Len(work) \in Nat /\ Len(work) >= 1 /\ Len(work) \in 1..Len(work)
      /\ Top = work[Len(work)] /\ Top \in Frame /\ Top.level = Here /\ Top.since \in Nat
  BY <1>1, TopFacts, HereFacts, Bounds DEF IInv
<1>n. PICK n \in Nat : n = Len(work) - 1 /\ n + 1 = Len(work)
  BY <1>2
<1>3. Here = LevelBelow(n + 1) + 1 /\ LevelBelow(n + 1) \in 1..Here /\ Here \in Nat
  <2>1. n + 1 \in 1..Len(work) /\ n + 1 \in 1..(Len(work) + 1)
    BY <1>n
  <2>2. Top.level = LevelBelow(n + 1) + 1
    BY <1>1, <1>2, <1>n, <2>1 DEF IInv, Nested
  <2>3. QED
    BY <1>2, <2>1, <2>2, BelowFacts, HereFacts
<1>4. /\ params' \in Seq(SUBSET Obj) /\ Here' = Here - 1
      /\ \A k \in 1..(Here - 1) : params'[k] = params[k]
  <2>1. PICK h \in Nat : h = Here - 1 /\ h >= 1
    BY <1>3
  <2>2. /\ Len(params) = h + 1 /\ params \in Seq(SUBSET Obj)
        /\ params' = SubSeq(params, 1, h)
    BY <1>1, <1>3, <2>1 DEF Here, IInv, TypeOK
  <2>3. \A k \in 1..h : params[k] \in SUBSET Obj
    BY <2>2
  <2>4. /\ params' \in Seq(SUBSET Obj) /\ Len(params') = IF 1 <= h THEN h - 1 + 1 ELSE 0
        /\ \A k \in 1..(h - 1 + 1) : params'[k] = params[1 + k - 1]
    BY <2>2, <2>3, SubSeqProperties
  <2>5. QED
    BY <2>1, <2>4 DEF Here
<1>5. /\ work' \in Seq(Frame) /\ Len(work') = n
      /\ \A i \in 1..n : Like(work'[i], work[i])
      /\ \A i \in 1..n : \A v \in work'[i].args \cup work'[i].result :
           v \in work[i].args \cup work[i].result \/ (i = n /\ Handed(v, n))
      /\ escaped \subseteq escaped' /\ escaped' \subseteq Obj
  <2>1. CASE work' = Under /\ escaped' = escaped
    <3>1. Under \in Seq(Frame) /\ Len(Under) = n /\ \A i \in 1..n : Under[i] = work[i]
      BY <1>1, <1>n, UnderFacts DEF IInv
    <3>2. QED
      BY <2>1, <3>1 DEF Like, Same, IInv, TypeOK
  <2>2. ASSUME NEW v \in Variables, Hand(v), escaped' = Escaping(v)
        PROVE  /\ work' \in Seq(Frame) /\ Len(work') = n
               /\ \A i \in 1..n : Like(work'[i], work[i])
               /\ \A i \in 1..n : \A a \in work'[i].args \cup work'[i].result :
                    a \in work[i].args \cup work[i].result \/ (i = n /\ Handed(a, n))
               /\ escaped \subseteq escaped' /\ escaped' \subseteq Obj
    <3>1. /\ v \in Value /\ v.obj \in 1..made
          /\ \A j \in 1..Len(work) : v.obj \in exposed \cup escaped \/ v.obj > work[j].since \/ KeptBelow(v.obj, j)
      BY <1>2, VariableFacts
    <3>2. /\ n >= 1 /\ work' \in Seq(Frame) /\ Len(work') = n
          /\ \A i \in 1..n : Like(work'[i], work[i])
          /\ \A i \in 1..n : i # n => work'[i] = work[i]
          /\ \A a \in work'[n].args \cup work'[n].result : a \in work[n].args \cup work[n].result \cup {v}
      BY <1>1, <1>n, <2>2, <3>1, HandFacts
    <3>3. escaped \subseteq escaped' /\ escaped' \subseteq Obj
      <4>1. v.obj \in Obj
        BY <3>1 DEF Value
      <4>2. QED
        BY <2>2, <4>1 DEF Escaping, IInv, TypeOK
    <3>4. Handed(v, n)
      <4> SUFFICES ASSUME v.obj \notin exposed \cup escaped'
                   PROVE  /\ \A j \in 1..n : v.obj <= work[j].since => KeptBelow(v.obj, j)
                          /\ v.of = "ref" => KeptBelow(v.obj, n + 1)
        BY <3>1 DEF Handed
      <4>1. \A j \in 1..(n + 1) : v.obj > work[j].since \/ KeptBelow(v.obj, j)
        BY <1>n, <3>1, <3>3
      <4>2. \A j \in 1..(n + 1) : work[j].since \in Nat
        BY <1>n, Bounds
      <4>3. v.obj \in Int
        BY <3>1
      <4>4. \A j \in 1..n : j \in 1..(n + 1)
        OBVIOUS
      <4>5. v.of = "ref" => ~(v.obj > work[n + 1].since)
        BY <1>2, <1>n, <2>2 DEF Escaping
      <4>6. QED
        BY <4>1, <4>2, <4>3, <4>4, <4>5
    <3>5. QED
      BY <3>2, <3>3, <3>4
  <2>3. QED
    BY <2>1, <2>2 DEF LeaveScope
<1>6. /\ Nested' /\ Ordered' /\ Kept' /\ Waiting'
      /\ depth = DepthBelow(n + 1) + (IF Counted(Top) THEN 1 ELSE 0)
      /\ DepthBelow(n + 1) \in Nat
      /\ work' = <<>> => DepthBelow(n + 1) = 0 /\ LevelBelow(n + 1) = 1
      /\ work' # <<>> => DepthBelow(n + 1) = Top'.depth /\ LevelBelow(n + 1) = Top'.level
  <2>1. \A k \in 1..LevelBelow(n + 1) : params'[k] = params[k]
    BY <1>3, <1>4
  <2>2. saves' = saves /\ exposed' = exposed /\ made' = made
    BY <1>1
  <2>3. QED
    BY <1>1, <1>n, <1>5, <2>1, <2>2, PopNode
<1>7. TypeOK'
  BY <1>1, <1>4, <1>5 DEF IInv, TypeOK
<1>8. Balanced'
  <2>1. depth' = DepthBelow(n + 1) /\ Here' = LevelBelow(n + 1)
    BY <1>1, <1>3, <1>4, <1>6
  <2>2. enabled' = (depth' > 0)
    BY <1>1 DEF IInv, Balanced
  <2>3. QED
    BY <1>6, <2>1, <2>2 DEF Balanced
<1>9. EmptyBelow'
  <2> SUFFICES ASSUME NEW k \in 1..(Here - 1), \A i \in 1..n : Counted(work'[i]) => work'[i].level > k
               PROVE  params'[k] = {}
    BY <1>4, <1>5 DEF EmptyBelow
  <2>1. \A i \in 1..Len(work) : i \in 1..n \/ i = Len(work)
    BY <1>n
  <2>2. \A i \in 1..Len(work) : Counted(work[i]) => work[i].level > k
    BY <2>1, <1>1, <1>2, <1>5 DEF Like, Same
  <2>3. k \in 1..Here
    BY <1>3
  <2>4. QED
    BY <2>2, <2>3, <1>4 DEF IInv, EmptyBelow
<1>10. QED
  BY <1>6, <1>7, <1>8, <1>9 DEF IInv

(* pop_function_call with the call's node gone, and a result perhaps       *)
(* handed to the node below.                                               *)
LEMMA PopCall ==
  ASSUME IInv, work # <<>>, Counted(Top), PopFunctionCall,
         UNCHANGED <<saves, made, exposed>>, unwinding' \in BOOLEAN,
         escaped \subseteq escaped', escaped' \subseteq Obj,
         NEW n \in Nat, n = Len(work) - 1, work' \in Seq(Frame), Len(work') = n,
         \A i \in 1..n : Like(work'[i], work[i]),
         \A i \in 1..n : \A v \in work'[i].args \cup work'[i].result :
           v \in work[i].args \cup work[i].result \/ (i = n /\ Handed(v, n))
  PROVE  IInv'
<1>1. /\ Len(work) \in Nat /\ Len(work) >= 1 /\ Len(work) \in 1..Len(work) /\ n + 1 = Len(work)
      /\ Top = work[Len(work)] /\ Top \in Frame /\ Top.kind # "scope" /\ Top.level = Here
  BY TopFacts, HereFacts DEF IInv, Counted
<1>b. DepthBelow(n + 1) \in Nat /\ LevelBelow(n + 1) \in 1..Here /\ depth = DepthBelow(n + 1) + 1
      /\ Here = LevelBelow(n + 1)
  <2>1. n + 1 \in 1..Len(work) /\ n + 1 \in 1..(Len(work) + 1)
    BY <1>1
  <2>2. DepthBelow(n + 1) \in Nat /\ LevelBelow(n + 1) \in 1..Here
    BY <2>1, BelowFacts
  <2>3. Top.depth = DepthBelow(n + 1) + 1 /\ Top.level = LevelBelow(n + 1) + 0
    BY <1>1, <2>1 DEF IInv, Nested
  <2>4. QED
    BY <1>1, <2>2, <2>3, HereFacts
<1>4. depth \in Nat /\ depth >= 1 /\ depth' = depth - 1 /\ depth' \in Nat
  BY <1>b DEF PopFunctionCall
<1>5. /\ params' \in Seq(SUBSET Obj) /\ Here' = Here
      /\ \A k \in 1..Here : k # Here => params'[k] = params[k]
      /\ depth = 1 => params'[Here] = {}
      /\ depth # 1 => params' = params
  <2>1. CASE depth = 1
    <3>1. params' = [params EXCEPT ![Here] = {}]
      BY <2>1 DEF PopFunctionCall
    <3>2. {} \in SUBSET Obj
      OBVIOUS
    <3>3. QED
      BY <2>1, <3>1, <3>2, ReplaceList
  <2>2. CASE depth # 1
    BY <2>2 DEF PopFunctionCall, Here, IInv, TypeOK
  <2>3. QED
    BY <2>1, <2>2
<1>2. /\ Nested' /\ Ordered' /\ Kept' /\ Waiting'
      /\ work' = <<>> => DepthBelow(n + 1) = 0 /\ LevelBelow(n + 1) = 1
      /\ work' # <<>> => DepthBelow(n + 1) = Top'.depth /\ LevelBelow(n + 1) = Top'.level
  <2>1. DepthBelow(n + 1) > 0 => \A k \in 1..LevelBelow(n + 1) : params'[k] = params[k]
    BY <1>b, <1>5
  <2>2. QED
    BY <2>1, PopNode
<1>6. enabled' \in BOOLEAN /\ enabled' = (depth' > 0)
  <2>1. enabled = TRUE
    <3>1. (depth > 0) = TRUE
      BY <1>4
    <3>2. QED
      BY <3>1 DEF IInv, Balanced
  <2>2. CASE depth = 1
    <3>1. (depth' > 0) = FALSE
      BY <1>4, <2>2
    <3>2. enabled' = FALSE
      BY <2>2 DEF PopFunctionCall
    <3>3. QED
      BY <3>1, <3>2
  <2>3. CASE depth # 1
    <3>1. (depth' > 0) = TRUE
      BY <1>4, <2>3
    <3>2. enabled' = TRUE
      BY <2>1, <2>3 DEF PopFunctionCall
    <3>3. QED
      BY <3>1, <3>2
  <2>4. QED
    BY <2>2, <2>3
<1>7. TypeOK'
  BY <1>4, <1>5, <1>6 DEF IInv, TypeOK
<1>8. Balanced'
  <2>1. depth' = DepthBelow(n + 1) /\ Here' = LevelBelow(n + 1)
    BY <1>b, <1>4, <1>5
  <2>2. QED
    BY <1>2, <1>6, <2>1 DEF Balanced
<1>11. EmptyBelow'
  <2> SUFFICES ASSUME NEW k \in 1..Here, \A i \in 1..n : Counted(work'[i]) => work'[i].level > k
               PROVE  params'[k] = {}
    BY <1>5 DEF EmptyBelow
  <2>1. \A i \in 1..n : Counted(work[i]) => work[i].level > k
    BY DEF Like, Same
  <2>2. \A i \in 1..Len(work) : i \in 1..n \/ i = Len(work)
    BY <1>1
  <2>3. CASE k # Here
    <3>1. Top.level > k
      BY <2>3, <1>1, HereFacts
    <3>2. \A i \in 1..Len(work) : Counted(work[i]) => work[i].level > k
      BY <2>1, <2>2, <3>1, <1>1
    <3>3. QED
      BY <2>3, <3>2, <1>5 DEF IInv, EmptyBelow
  <2>4. CASE k = Here /\ depth = 1
    BY <2>4, <1>5
  <2>5. CASE k = Here /\ depth # 1
    <3>1. n # 0 /\ work[n].depth >= 1 /\ n \in 1..n
      <4>1. n # 0
        BY <1>b, <2>5 DEF DepthBelow
      <4>2. n + 1 # 1 /\ (n + 1) - 1 = n /\ n \in 1..n
        BY <4>1
      <4>3. DepthBelow(n + 1) = work[n].depth
        BY <4>2 DEF DepthBelow
      <4>4. QED
        BY <1>b, <2>5, <4>1, <4>2, <4>3
    <3>2. n \in 1..Len(work) /\ \A j \in 1..n : j \in 1..Len(work)
      BY <1>1, <3>1
    <3>3. PICK j \in 1..n : Counted(work[j])
      BY <3>1, <3>2 DEF IInv, Nested
    <3>4. work[j].level \in 1..Here /\ work[j].level > k
      BY <2>1, <3>2, <3>3, Bounds
    <3>5. QED
      BY <2>5, <3>4, HereFacts
  <2>6. QED
    BY <2>3, <2>4, <2>5
<1>12. QED
  BY <1>2, <1>7, <1>8, <1>11 DEF IInv

(* A node that is neither a call nor a scope goes.                         *)
LEMMA PopPlain ==
  ASSUME IInv, work # <<>>, ~Counted(Top), Top.kind # "scope", work' = Under,
         UNCHANGED <<depth, params, enabled, saves, made, exposed, escaped>>, unwinding' \in BOOLEAN
  PROVE  IInv'
<1>1. /\ Len(work) \in Nat /\ Len(work) >= 1 /\ Len(work) \in 1..Len(work)
      /\ Top = work[Len(work)] /\ Top \in Frame
  BY TopFacts DEF IInv
<1>n. PICK n \in Nat : n = Len(work) - 1 /\ n + 1 = Len(work)
  BY <1>1
<1>2. /\ work' \in Seq(Frame) /\ Len(work') = n
      /\ \A i \in 1..n : work'[i] = work[i]
  BY <1>n, UnderFacts DEF IInv
<1>3. /\ Nested' /\ Ordered' /\ Kept' /\ Waiting'
      /\ depth = DepthBelow(n + 1) + 0
      /\ Here = LevelBelow(n + 1) + 0
      /\ DepthBelow(n + 1) \in Nat /\ LevelBelow(n + 1) \in Nat
      /\ work' = <<>> => DepthBelow(n + 1) = 0 /\ LevelBelow(n + 1) = 1
      /\ work' # <<>> => DepthBelow(n + 1) = Top'.depth /\ LevelBelow(n + 1) = Top'.level
  <2>1. \A i \in 1..n : Like(work'[i], work[i])
    BY <1>2 DEF Like, Same
  <2>2. \A i \in 1..n : \A v \in work'[i].args \cup work'[i].result : v \in work[i].args \cup work[i].result
    BY <1>2
  <2>3. /\ saves' = saves /\ exposed' = exposed /\ made' = made /\ escaped \subseteq escaped'
        /\ \A k \in 1..LevelBelow(n + 1) : params'[k] = params[k]
    OBVIOUS
  <2>4. QED
    BY <1>n, <1>2, <2>1, <2>2, <2>3, PopNode
<1>6. Here' = Here
  BY DEF Here
<1>7. TypeOK' /\ Balanced'
  BY <1>2, <1>3, <1>6 DEF IInv, TypeOK, Balanced
<1>9. EmptyBelow'
  <2> SUFFICES ASSUME NEW k \in 1..Here, \A i \in 1..n : Counted(work'[i]) => work'[i].level > k
               PROVE  params[k] = {}
    BY <1>2, <1>6 DEF EmptyBelow
  <2>1. \A i \in 1..Len(work) : i \in 1..n \/ i = Len(work)
    BY <1>n
  <2>2. \A i \in 1..Len(work) : Counted(work[i]) => work[i].level > k
    BY <2>1, <1>1, <1>2
  <2>3. QED
    BY <2>2 DEF IInv, EmptyBelow
<1>10. QED
  BY <1>3, <1>7, <1>9 DEF IInv

LEMMA HostReturnStep == ASSUME IInv, HostReturn PROVE IInv'
<1>1. unwinding' \in BOOLEAN
  BY DEF HostReturn, IInv, TypeOK
<1>2. work # <<>> /\ ~Counted(Top) /\ Top.kind # "scope" /\ work' = Under
      /\ UNCHANGED <<depth, params, enabled, saves, made, exposed, escaped>>
  BY DEF HostReturn, Counted
<1>3. QED
  BY <1>1, <1>2, PopPlain

(* A call whose result nobody takes, or that an exception ends.            *)
LEMMA PopCallAlone ==
  ASSUME IInv, work # <<>>, Counted(Top), PopFunctionCall, work' = Under,
         UNCHANGED <<saves, made, exposed, escaped>>, unwinding' \in BOOLEAN
  PROVE  IInv'
<1>1. PICK n \in Nat : n = Len(work) - 1
  BY TopFacts DEF IInv
<1>2. work' \in Seq(Frame) /\ Len(work') = n /\ \A i \in 1..n : work'[i] = work[i]
  BY <1>1, UnderFacts DEF IInv
<1>3. \A i \in 1..n : Like(work'[i], work[i])
  BY <1>2 DEF Like, Same
<1>4. \A i \in 1..n : \A v \in work'[i].args \cup work'[i].result : v \in work[i].args \cup work[i].result
  BY <1>2
<1>5. escaped \subseteq escaped' /\ escaped' \subseteq Obj
  BY DEF IInv, TypeOK
<1>6. QED
  BY <1>1, <1>2, <1>3, <1>4, <1>5, PopCall

LEMMA UnwindStep == ASSUME IInv, Unwind PROVE IInv'
<1>1. /\ work # <<>> /\ work' = Under /\ UNCHANGED <<saves, unwinding, made, exposed, escaped>>
      /\ unwinding' \in BOOLEAN /\ Top.kind # "scope"
  BY DEF Unwind, IInv, TypeOK
<1>2. CASE Counted(Top)
  <2>1. PopFunctionCall
    BY <1>2 DEF Unwind
  <2>2. QED
    BY <1>1, <1>2, <2>1, PopCallAlone
<1>3. CASE ~Counted(Top)
  <2>1. UNCHANGED <<depth, params, enabled>>
    BY <1>3 DEF Unwind
  <2>2. QED
    BY <1>1, <1>3, <2>1, PopPlain
<1>4. QED
  BY <1>2, <1>3
-----------------------------------------------------------------------------
(* A function's result can be handed to the node below: what it refers to  *)
(* is older than the call, or saved with the call's arguments, or no       *)
(* longer looked after because the call was the outermost.                 *)
LEMMA ResultHanded ==
  ASSUME IInv, work # <<>>, Counted(Top), Top.phase = "run", Top.saved,
         NEW n \in Nat, n + 1 = Len(work), NEW v \in Results(Top),
         escaped' = IF depth = 1 THEN Escaping(v) ELSE escaped
  PROVE  v \in Value /\ Handed(v, n) /\ escaped \subseteq escaped' /\ escaped' \subseteq Obj
<1>1. /\ Top = work[n + 1] /\ Top \in Frame /\ n + 1 \in 1..Len(work) /\ Top.level = Here /\ Top.depth = depth
      /\ Top.since \in Nat /\ Held(Top) \subseteq 1..made /\ Top.kind # "scope" /\ depth >= 1 /\ depth \in Nat
  BY TopFacts, HereFacts, Bounds DEF IInv, Counted
<1>2. /\ DepthBelow(n + 1) \in Nat /\ depth = DepthBelow(n + 1) + 1 /\ LevelBelow(n + 1) = Here
      /\ DepthBelow(n + 2) = depth /\ LevelBelow(n + 2) = Here /\ Here \in 1..Here
  <2>1. n + 1 \in 1..(Len(work) + 1)
    BY <1>1
  <2>2. DepthBelow(n + 1) \in Nat /\ LevelBelow(n + 1) \in 1..Here
    BY <2>1, BelowFacts
  <2>3. Top.depth = DepthBelow(n + 1) + 1 /\ Top.level = LevelBelow(n + 1) + 0
    BY <1>1 DEF IInv, Nested
  <2>4. n + 2 # 1 /\ (n + 2) - 1 = n + 1
    OBVIOUS
  <2>5. DepthBelow(n + 2) = work[n + 1].depth /\ LevelBelow(n + 2) = work[n + 1].level
    BY <2>4 DEF DepthBelow, LevelBelow
  <2>6. QED
    BY <1>1, <2>2, <2>3, <2>5, HereFacts
<1>3. Owned(Top) \subseteq params[Here]
  BY <1>1 DEF IInv, Kept, KeptOwned
<1>4. ASSUME NEW o, KeptBelow(o, n + 2), depth # 1
      PROVE  KeptBelow(o, n + 1)
  <2>1. DepthBelow(n + 1) > 0
    BY <1>1, <1>2, <1>4
  <2>2. CASE \E i \in 1..(n + 1) : o \in Owned(work[i])
    <3>1. PICK i \in 1..(n + 1) : o \in Owned(work[i])
      BY <2>2
    <3>2. CASE i \in 1..n
      <4>1. i \in 1..((n + 1) - 1)
        BY <3>2
      <4>2. QED
        BY <3>1, <4>1 DEF KeptBelow
    <3>3. CASE i = n + 1
      BY <1>1, <1>2, <1>3, <2>1, <3>1, <3>3 DEF KeptBelow
    <3>4. QED
      BY <3>2, <3>3
  <2>3. CASE o \in saves \/ \E k \in 1..Here : o \in params[k]
    BY <1>2, <2>1, <2>3 DEF KeptBelow
  <2>4. (n + 2) - 1 = n + 1
    OBVIOUS
  <2>5. QED
    BY <1>2, <1>4, <2>2, <2>3, <2>4 DEF KeptBelow
<1>5. \A a \in Top.args \cup Top.result : KeptValue(a, n + 1) /\ a \in Value /\ a.obj \in Held(Top)
  BY <1>1 DEF IInv, Kept, Frame, Held
<1>6. ASSUME NEW a \in Top.args \cup Top.result, v.obj = a.obj, v \in Value,
             v.of = "ref" => a.of = "ref" \/ a.obj \in Owned(Top)
      PROVE  Handed(v, n)
  <2>1. v.obj \in 1..made
    BY <1>1, <1>5, <1>6
  <2> SUFFICES ASSUME v.obj \notin exposed \cup escaped'
               PROVE  /\ \A j \in 1..n : v.obj <= work[j].since => KeptBelow(v.obj, j)
                      /\ v.of = "ref" => KeptBelow(v.obj, n + 1)
    BY <2>1 DEF Handed
  <2>2. v.obj \notin exposed \cup escaped
    <3>1. escaped \subseteq escaped'
      BY DEF Escaping
    <3>2. QED
      BY <3>1
  <2>3. /\ \A j \in 1..(n + 1) : v.obj <= work[j].since => KeptBelow(v.obj, j)
        /\ a.of = "ref" => KeptBelow(v.obj, n + 2)
    <3>1. (n + 1) + 1 = n + 2
      OBVIOUS
    <3>2. QED
      BY <1>5, <1>6, <2>2, <3>1 DEF KeptValue
  <2>4. \A j \in 1..n : j \in 1..(n + 1)
    OBVIOUS
  <2>5. ASSUME v.of = "ref"
        PROVE  KeptBelow(v.obj, n + 1)
    <3>1. CASE v.obj <= Top.since
      <4>1. n + 1 \in 1..(n + 1)
        OBVIOUS
      <4>2. QED
        BY <1>1, <2>3, <3>1, <4>1
    <3>2. CASE ~(v.obj <= Top.since)
      <4>1. v.obj > Top.since
        BY <1>1, <2>1, <3>2
      <4>2. depth # 1
        BY <2>5, <4>1 DEF Escaping
      <4>3. CASE a.of = "ref"
        BY <1>4, <2>3, <4>2, <4>3
      <4>4. CASE a.obj \in Owned(Top)
        <5>1. DepthBelow(n + 1) > 0
          BY <1>1, <1>2, <4>2
        <5>2. QED
          BY <1>2, <1>3, <1>6, <4>4, <5>1 DEF KeptBelow
      <4>5. QED
        BY <1>6, <2>5, <4>3, <4>4
    <3>3. QED
      BY <3>1, <3>2
  <2>6. QED
    BY <2>3, <2>4, <2>5
<1>7. CASE v \in Top.args \cup Top.result
  <2>1. v \in Value
    BY <1>5, <1>7
  <2>2. Handed(v, n)
    BY <1>6, <1>7, <2>1
  <2>3. QED
    BY <2>1, <2>2 DEF Escaping, IInv, TypeOK, Value
<1>8. CASE \E a \in Top.args : v = RefTo(a.obj)
  <2>1. PICK a \in Top.args : v = RefTo(a.obj)
    BY <1>8
  <2>2. a \in Value /\ v \in Value /\ v.obj = a.obj /\ v.of = "ref"
    BY <1>5, <2>1 DEF RefTo, Value
  <2>3. a.of = "ref" \/ a.obj \in Owned(Top)
    BY <2>1, <2>2 DEF Owned, Value
  <2>4. Handed(v, n)
    BY <1>6, <2>1, <2>2, <2>3
  <2>5. QED
    BY <2>2, <2>4 DEF Escaping, IInv, TypeOK, Value
<1>9. CASE \E o \in Top.conv : v = RefTo(o)
  <2>1. PICK o \in Top.conv : v = RefTo(o)
    BY <1>9
  <2>2. o \in Obj /\ o \in Held(Top) /\ v.obj = o /\ v.of = "ref" /\ v \in Value
    BY <1>1, <2>1 DEF Frame, Held, RefTo, Value
  <2>3. Handed(v, n)
    <3> SUFFICES ASSUME o \notin exposed \cup escaped'
                 PROVE  /\ \A j \in 1..n : o <= work[j].since => KeptBelow(o, j)
                        /\ KeptBelow(o, n + 1)
      BY <1>1, <2>2 DEF Handed
    <3>1. o > Top.since /\ KeptBelow(o, n + 2)
      <4>1. KeptConv(n + 1) /\ (n + 1) + 1 = n + 2
        BY <1>1 DEF IInv, Kept
      <4>2. QED
        BY <1>1, <2>1, <4>1 DEF KeptConv
    <3>2. ASSUME NEW j \in 1..n
          PROVE  ~(o <= work[j].since)
      <4>1. j \in 1..Len(work) /\ j < n + 1
        BY <1>1
      <4>2. work[j].since <= work[n + 1].since /\ work[j].since \in Nat
        BY <1>1, <4>1, Bounds DEF IInv, Ordered
      <4>3. o \in Int
        BY <1>1, <2>2
      <4>4. QED
        BY <1>1, <3>1, <4>2, <4>3
    <3>3. depth # 1
      BY <2>2, <3>1 DEF Escaping
    <3>4. QED
      BY <1>4, <3>1, <3>2, <3>3
  <2>4. QED
    BY <2>2, <2>3 DEF Escaping, IInv, TypeOK, Value
<1>10. QED
  BY <1>7, <1>8, <1>9 DEF Results

LEMMA ReturnStep == ASSUME IInv, Return PROVE IInv'
<1>1. /\ work # <<>> /\ Counted(Top) /\ Top.phase = "run" /\ PopFunctionCall
      /\ UNCHANGED <<saves, unwinding, made, exposed>> /\ unwinding' \in BOOLEAN
  <2>1. work # <<>> /\ Counted(Top) /\ ~InArgs /\ PopFunctionCall
        /\ UNCHANGED <<saves, unwinding, made, exposed>>
    BY DEF Return
  <2>2. Top \in Frame
    BY <2>1, TopFacts DEF IInv
  <2>3. Top.phase = "run"
    BY <2>1, <2>2 DEF InArgs, Counted, Frame
  <2>4. QED
    BY <2>1, <2>3 DEF IInv, TypeOK
<1>2. CASE work' = Under /\ escaped' = escaped
  BY <1>1, <1>2, PopCallAlone
<1>3. ASSUME Top.saved, NEW v \in Results(Top), Hand(v),
             escaped' = IF depth = 1 THEN Escaping(v) ELSE escaped
      PROVE  IInv'
  <2>1. PICK n \in Nat : n = Len(work) - 1 /\ n + 1 = Len(work)
    BY <1>1, TopFacts DEF IInv
  <2>2. v \in Value /\ Handed(v, n) /\ escaped \subseteq escaped' /\ escaped' \subseteq Obj
    BY <1>1, <1>3, <2>1, ResultHanded
  <2>3. /\ n >= 1 /\ work' \in Seq(Frame) /\ Len(work') = n
        /\ \A i \in 1..n : Like(work'[i], work[i])
        /\ \A i \in 1..n : i # n => work'[i] = work[i]
        /\ \A a \in work'[n].args \cup work'[n].result : a \in work[n].args \cup work[n].result \cup {v}
    BY <1>1, <1>3, <2>1, <2>2, HandFacts
  <2>4. \A i \in 1..n : \A a \in work'[i].args \cup work'[i].result :
          a \in work[i].args \cup work[i].result \/ (i = n /\ Handed(a, n))
    BY <2>2, <2>3
  <2>5. QED
    BY <1>1, <2>1, <2>2, <2>3, <2>4, PopCall
<1>4. QED
  BY <1>2, <1>3 DEF Return

(* Throwing, catching and doing nothing change none of it.                 *)
LEMMA StillStep ==
  ASSUME IInv, UNCHANGED <<work, depth, params, enabled, saves, made, exposed, escaped>>,
         unwinding' \in BOOLEAN
  PROVE  IInv'
<1>1. Here' = Here /\ Top' = Top
  BY DEF Here, Top
<1>2. TypeOK' /\ Balanced' /\ Waiting'
  BY <1>1 DEF IInv, TypeOK, Balanced, Waiting
<1>3. Nested' /\ Ordered'
  BY DEF IInv, Nested, Ordered, DepthBelow, LevelBelow
<1>4. Kept'
  <2>1. \A o, j : KeptBelow(o, j) <=> KeptBelow(o, j)'
    BY DEF KeptBelow, DepthBelow, LevelBelow
  <2>2. \A v, i : KeptValue(v, i) <=> KeptValue(v, i)'
    BY <2>1 DEF KeptValue
  <2>3. \A i : KeptConv(i) <=> KeptConv(i)'
    BY <2>1 DEF KeptConv
  <2>4. \A i : KeptOwned(i) <=> KeptOwned(i)'
    BY DEF KeptOwned
  <2>5. QED
    BY <2>2, <2>3, <2>4 DEF IInv, Kept
<1>5. EmptyBelow'
  BY <1>1 DEF IInv, EmptyBelow
<1>6. QED
  BY <1>2, <1>3, <1>4, <1>5 DEF IInv
-----------------------------------------------------------------------------
LEMMA InitInv == Init => IInv
<1> SUFFICES ASSUME Init PROVE IInv
  OBVIOUS
<1>1. /\ work = <<>> /\ Len(work) = 0 /\ params = << {} >> /\ Here = 1 /\ params[1] = {}
      /\ depth = 0 /\ enabled = FALSE /\ (0 > 0) = FALSE
  BY DEF Init, Here
<1>2. TypeOK
  <2>1. params \in Seq(SUBSET Obj)
    <3> DEFINE A == SUBSET Obj
    <3>1. {} \in A
      OBVIOUS
    <3> HIDE DEF A
    <3>2. params \in Seq(A)
      BY <1>1, <3>1
    <3>3. QED
      BY <3>2 DEF A
  <2>2. work \in Seq(Frame)
    BY <1>1
  <2>3. made \in 0..MaxObjs /\ saves \subseteq Obj /\ exposed \subseteq Obj /\ escaped \subseteq Obj
    BY LifetimeAssumption DEF Init
  <2>4. depth \in Nat /\ enabled \in BOOLEAN /\ unwinding \in BOOLEAN
    BY DEF Init
  <2>5. QED
    BY <2>1, <2>2, <2>3, <2>4 DEF TypeOK
<1>3. Balanced
  BY <1>1 DEF Balanced
<1>4. Nested /\ Ordered /\ Kept /\ Waiting
  BY <1>1 DEF Nested, Ordered, Kept, Waiting
<1>5. EmptyBelow
  BY <1>1 DEF EmptyBelow
<1>6. QED
  BY <1>2, <1>3, <1>4, <1>5 DEF IInv

LEMMA StepInv == IInv /\ [Next]_vars => IInv'
<1> SUFFICES ASSUME IInv, [Next]_vars PROVE IInv'
  OBVIOUS
<1>1. CASE EnterScope
  BY <1>1, EnterScopeStep
<1>2. CASE LeaveScope
  BY <1>2, LeaveScopeStep
<1>3. CASE BeginCall
  BY <1>3, BeginCallStep
<1>4. CASE BeginOperator
  BY <1>4, BeginOperatorStep
<1>5. CASE Operand
  BY <1>5, OperandStep
<1>6. CASE Name
  BY <1>6, NameStep
<1>7. CASE \E n \in 0..1 : \E save \in BOOLEAN : Call(save, n)
  BY <1>7, CallStep
<1>8. CASE \E n \in 0..1 : Operate(n)
  BY <1>8, OperateStep
<1>9. CASE \E n \in 0..1 : HostCall(n)
  BY <1>9, HostCallStep
<1>10. CASE Return
  BY <1>10, ReturnStep
<1>11. CASE HostReturn
  BY <1>11, HostReturnStep
<1>12. CASE Unwind
  BY <1>12, UnwindStep
<1>13. CASE Throw \/ Catch
  <2>1. UNCHANGED <<work, depth, params, enabled, saves, made, exposed, escaped>> /\ unwinding' \in BOOLEAN
    BY <1>13 DEF Throw, Catch
  <2>2. QED
    BY <2>1, StillStep
<1>14. CASE UNCHANGED vars
  <2>1. UNCHANGED <<work, depth, params, enabled, saves, made, exposed, escaped>> /\ unwinding' = unwinding
    BY <1>14 DEF vars
  <2>2. unwinding' \in BOOLEAN
    BY <2>1 DEF IInv, TypeOK
  <2>3. QED
    BY <2>1, <2>2, StillStep
<1>15. QED
  BY <1>1, <1>2, <1>3, <1>4, <1>5, <1>6, <1>7, <1>8, <1>9, <1>10, <1>11, <1>12, <1>13, <1>14 DEF Next

(* Calls, scopes and exceptions, however nested, leave the depth, the      *)
(* scopes and the conversion saves in step with the nodes at work.         *)
THEOREM NestingHolds == Spec => [](TypeOK /\ Balanced)
<1>1. IInv => TypeOK /\ Balanced
  BY DEF IInv
<1>2. QED
  BY <1>1, InitInv, StepInv, PTL DEF Spec

(* What is kept for the nodes under a place is alive.                      *)
LEMMA KeptAlive ==
  ASSUME IInv, NEW i \in 1..Len(work), NEW o, KeptBelow(o, i + 1)
  PROVE  Alive(o)
<1>1. PICK n \in Nat : n = Len(work)
  BY DEF IInv, TypeOK
<1>2. i + 1 \in 1..(Len(work) + 1) /\ \A k \in 1..((i + 1) - 1) : k \in 1..Len(work)
  BY <1>1
<1>3. LevelBelow(i + 1) \in 1..Here /\ Here \in Nat
  BY <1>2, BelowFacts, HereFacts
<1>4. \A k \in 1..LevelBelow(i + 1) : k \in 1..Len(params)
  BY <1>3 DEF Here
<1>5. QED
  BY <1>2, <1>4 DEF KeptBelow, Alive

(* Whatever an argument, a variable or a result refers to is alive,        *)
(* whichever calls and scopes it was handed out of, unless it was made in  *)
(* the scope that handed it out, for the outermost call that returned it,  *)
(* or is a conversion that a scope takes with it.                          *)
THEOREM ReferredStaysAlive == Spec => []ReferredAlive
<1>1. IInv => ReferredAlive
  <2> SUFFICES ASSUME IInv, NEW i \in 1..Len(work), NEW v \in work[i].args \cup work[i].result,
                      v.of = "ref", v.obj \notin exposed \cup escaped
               PROVE  Alive(v.obj)
    BY DEF ReferredAlive
  <2>1. KeptBelow(v.obj, i + 1)
    BY DEF IInv, Kept, KeptValue
  <2>2. QED
    BY <2>1, KeptAlive
<1>2. QED
  BY <1>1, InitInv, StepInv, PTL DEF Spec

(* When no call is going on, call_params is empty.                         *)
THEOREM ParamsReleased == Spec => []Released
<1>1. IInv => Released
  <2> SUFFICES ASSUME IInv, depth = 0, NEW k \in 1..Here
               PROVE  params[k] = {}
    BY DEF Released
  <2>1. \A i \in 1..Len(work) : ~Counted(work[i])
    <3> SUFFICES ASSUME NEW i \in 1..Len(work), Counted(work[i]) PROVE FALSE
      OBVIOUS
    <3>1. work[i].depth \in Nat /\ work[i].depth <= 0 /\ work[i].depth >= 1
      BY Bounds
    <3>2. QED
      BY <3>1
  <2>2. QED
    BY <2>1 DEF IInv, EmptyBelow
<1>2. QED
  BY <1>1, InitInv, StepInv, PTL DEF Spec

(* A converted argument is alive as long as the function that refers to it *)
(* runs, unless that calls back a script function that opens a scope, or   *)
(* the host called it.                                                     *)
THEOREM ConvertedStaysAlive == Spec => []ConvertedAlive
<1>1. IInv => ConvertedAlive
  <2> SUFFICES ASSUME IInv, NEW i \in 1..Len(work), NEW o \in work[i].conv \ exposed
               PROVE  Alive(o)
    BY DEF ConvertedAlive
  <2>1. KeptBelow(o, i + 1)
    BY DEF IInv, Kept, KeptConv
  <2>2. QED
    BY <2>1, KeptAlive
<1>2. QED
  BY <1>1, InitInv, StepInv, PTL DEF Spec
-----------------------------------------------------------------------------
(* EngineTables: the calls of the threads, and what they do to the globals.*)
TableSteps == {"idle", "apply", "import", "bind"}
Binders == Threads \cup {"module", "namespace", Absent}
TablesOK ==
  /\ todo \in [Threads -> Seq(Op)]
  /\ step \in [Threads -> TableSteps]
  /\ rest \in [Threads -> Seq(Item)]
  /\ \A t \in Threads : step[t] # "idle" => todo[t] # <<>>
  /\ globals \in [GlobalNames -> Binders]
  /\ saved.globals \in [GlobalNames -> Binders]

LEMMA QueueFacts ==
  ASSUME NEW S, NEW s \in Seq(S), s # <<>>
  PROVE  /\ Head(s) \in S /\ Head(s) = s[1] /\ Len(s) \in Nat /\ Len(s) >= 1
         /\ Tail(s) \in Seq(S) /\ Len(Tail(s)) = Len(s) - 1
         /\ \A i \in 1..(Len(s) - 1) : Tail(s)[i] = s[i + 1]
         /\ Range(s) = {Head(s)} \cup Range(Tail(s))
<1>1. /\ Head(s) \in S /\ Head(s) = s[1] /\ Len(s) \in Nat /\ Len(s) >= 1
      /\ Tail(s) \in Seq(S) /\ Len(Tail(s)) = Len(s) - 1
      /\ \A i \in 1..(Len(s) - 1) : Tail(s)[i] = s[i + 1]
  OBVIOUS
<1>2. Range(s) = { s[i] : i \in 1..Len(s) } /\ Range(Tail(s)) = { Tail(s)[i] : i \in 1..(Len(s) - 1) }
  <2>1. DOMAIN s = 1..Len(s) /\ DOMAIN Tail(s) = 1..(Len(s) - 1)
    BY <1>1
  <2> QED BY <2>1 DEF Range
<1>3. \A x : x \in Range(s) => x = Head(s) \/ x \in Range(Tail(s))
  <2> SUFFICES ASSUME NEW i \in 1..Len(s), i # 1 PROVE s[i] \in Range(Tail(s))
    BY <1>1, <1>2
  <2>1. i - 1 \in 1..(Len(s) - 1) /\ (i - 1) + 1 = i
    BY <1>1
  <2> QED BY <1>1, <1>2, <2>1
<1>4. \A x : x = Head(s) \/ x \in Range(Tail(s)) => x \in Range(s)
  <2>1. \A i \in 1..(Len(s) - 1) : i + 1 \in 1..Len(s)
    BY <1>1
  <2>2. 1 \in 1..Len(s)
    BY <1>1
  <2> QED BY <1>1, <1>2, <2>1, <2>2
<1> QED BY <1>1, <1>3, <1>4

(* A new head before a tail.                                               *)
LEMMA NewHead ==
  ASSUME NEW S, NEW s \in Seq(S), NEW h \in S
  PROVE  LET r == <<h>> \o s IN
         /\ r \in Seq(S) /\ r # <<>> /\ Head(r) = h /\ Len(r) = Len(s) + 1
         /\ Range(r) = {h} \cup Range(s)
         /\ \A i \in 1..Len(s) : r[i + 1] = s[i]
<1> DEFINE r == <<h>> \o s
<1>1. <<h>> \in Seq(S) /\ Len(<<h>>) = 1 /\ <<h>>[1] = h
  OBVIOUS
<1>2. /\ r \in Seq(S) /\ Len(r) = Len(s) + 1 /\ r[1] = h /\ Len(s) \in Nat
      /\ \A i \in 1..Len(s) : r[i + 1] = s[i]
  <2>1. r \in Seq(S) /\ Len(r) = 1 + Len(s) /\ Len(s) \in Nat
    BY <1>1
  <2>2. \A i \in 1..(1 + Len(s)) : r[i] = IF i <= 1 THEN <<h>>[i] ELSE s[i - 1]
    BY <1>1, ConcatProperties
  <2>3. \A i \in 1..Len(s) : i + 1 \in 1..(1 + Len(s)) /\ ~(i + 1 <= 1) /\ (i + 1) - 1 = i
    BY <2>1
  <2>4. 1 \in 1..(1 + Len(s))
    BY <2>1
  <2> QED BY <1>1, <2>1, <2>2, <2>3, <2>4
<1> HIDE DEF r
<1>3. r # <<>>
  BY <1>2
<1>4. /\ Head(r) = h /\ Range(r) = {Head(r)} \cup Range(Tail(r)) /\ Tail(r) \in Seq(S)
      /\ Len(Tail(r)) = Len(s) /\ \A i \in 1..Len(s) : Tail(r)[i] = s[i]
  BY <1>2, <1>3, QueueFacts
<1>5. Tail(r) = s
  BY <1>4, SeqEqual
<1> QED BY <1>2, <1>3, <1>4, <1>5 DEF r

(* What a call is given.                                                   *)
LEMMA ArgFacts ==
  ASSUME TablesOK, NEW t \in Threads, todo[t] # <<>>
  PROVE  /\ todo[t] \in Seq(Op) /\ Head(todo[t]) \in Op
         /\ Head(todo[t]).op \in {"load_module", "add_module"} => Arg(t) \in Modules
         /\ Head(todo[t]).op \in {"add_global", "set_global", "register_namespace", "import", "namespace"} =>
              Arg(t) \in Names
<1>1. todo[t] \in Seq(Op)
  BY DEF TablesOK
<1>2. Head(todo[t]) \in Op
  BY <1>1, QueueFacts
<1> QED BY <1>1, <1>2 DEF Arg, Op

(* Globals of modules are among the names.                                 *)
LEMMA ItemFacts ==
  ASSUME NEW mod \in Modules
  PROVE  /\ Items[mod] \in Seq(Item) /\ Range(Items[mod]) \subseteq Item
         /\ \A it \in Range(Items[mod]) : it.kind \in {"type", "fun", "conv", "global"}
         /\ \A it \in Range(Items[mod]) : it.name \in GlobalNames /\ TypeGlobal(it.name) \in GlobalNames
<1>1. Items[mod] \in Seq(Item)
  BY TablesAssumption
<1>2. Range(Items[mod]) = { Items[mod][i] : i \in 1..Len(Items[mod]) } /\ Range(Items[mod]) \subseteq Item
  BY <1>1 DEF Range
<1>3. \A i \in 1..Len(Items[mod]) : \E a \in 1..4 : Items[mod][i].kind = Order[a]
  BY TablesAssumption
<1>4. \A a \in 1..4 : Order[a] \in {"type", "fun", "conv", "global"}
  BY DEF Order
<1>5. \A it \in Range(Items[mod]) : it.kind \in {"type", "fun", "conv", "global"}
  BY <1>2, <1>3, <1>4
<1>6. \A it \in Range(Items[mod]) : it.name \in GlobalNames /\ TypeGlobal(it.name) \in GlobalNames
  BY DEF GlobalNames
<1> QED BY <1>1, <1>2, <1>5, <1>6

LEMMA TablesInitOK == TablesInit => TablesOK
<1> SUFFICES ASSUME TablesInit PROVE TablesOK
  OBVIOUS
<1>1. todo \in [Threads -> Seq(Op)]
  BY TablesAssumption DEF TablesInit
<1>2. step \in [Threads -> TableSteps] /\ rest \in [Threads -> Seq(Item)]
  BY DEF TablesInit, TableSteps
<1>3. globals \in [GlobalNames -> Binders] /\ saved.globals = globals
  BY DEF TablesInit, Binders, StateNow
<1>4. \A t \in Threads : step[t] = "idle"
  BY DEF TablesInit
<1> QED BY <1>1, <1>2, <1>3, <1>4 DEF TablesOK

(* A call ends, and other threads are where they were.                     *)
Stays(t) == \A u \in Threads \ {t} : todo'[u] = todo[u] /\ step'[u] = step[u] /\ rest'[u] = rest[u]
ControlOK ==
  /\ todo \in [Threads -> Seq(Op)]
  /\ step \in [Threads -> TableSteps]
  /\ rest \in [Threads -> Seq(Item)]
  /\ \A t \in Threads : step[t] # "idle" => todo[t] # <<>>

LEMMA CallEnds ==
  ASSUME TablesOK, NEW t \in Threads, todo[t] # <<>>, NEW threw, EndCall(t, threw)
  PROVE  /\ ControlOK' /\ Stays(t)
         /\ todo'[t] = Tail(todo[t]) /\ step'[t] = "idle" /\ rest'[t] = <<>>
<1>1. Tail(todo[t]) \in Seq(Op) /\ <<>> \in Seq(Item)
  BY ArgFacts, QueueFacts
<1>2. todo' = [todo EXCEPT ![t] = Tail(todo[t])] /\ step' = [step EXCEPT ![t] = "idle"] /\ rest' = [rest EXCEPT ![t] = <<>>]
  BY DEF EndCall
<1> QED BY <1>1, <1>2 DEF TablesOK, ControlOK, Stays, TableSteps

LEMMA CallGoes ==
  ASSUME TablesOK, NEW t \in Threads, todo[t] # <<>>, NEW s \in TableSteps, Goto(t, s)
  PROVE  ControlOK' /\ Stays(t) /\ todo' = todo /\ step'[t] = s /\ rest' = rest
BY DEF Goto, TablesOK, ControlOK, Stays

LEMMA CallApplies ==
  ASSUME TablesOK, NEW t \in Threads, todo[t] # <<>>, NEW mod \in Modules, Apply(t, mod)
  PROVE  ControlOK' /\ Stays(t) /\ todo' = todo /\ step'[t] = "apply" /\ rest'[t] = Items[mod]
BY ItemFacts DEF Apply, TablesOK, ControlOK, Stays, TableSteps

LEMMA ItemTaken ==
  ASSUME TablesOK, NEW t \in Threads, rest[t] # <<>>, NEW r \in Seq(Item),
         rest' = [rest EXCEPT ![t] = r], todo' = todo, step' = step
  PROVE  ControlOK' /\ Stays(t) /\ rest'[t] = r
BY DEF TablesOK, ControlOK, Stays

LEMMA NextItem ==
  ASSUME TablesOK, NEW t \in Threads, rest[t] # <<>>, Next1(t)
  PROVE  ControlOK' /\ Stays(t) /\ rest'[t] = Tail(rest[t]) /\ todo' = todo /\ step' = step
<1>1. Tail(rest[t]) \in Seq(Item)
  BY QueueFacts DEF TablesOK
<1> QED BY <1>1, ItemTaken DEF Next1

(* The second half of a type.                                              *)
Half(it) == [it EXCEPT !.kind = "type_name"]

LEMMA HalfFacts ==
  ASSUME NEW it \in Item
  PROVE  Half(it) \in Item /\ Half(it).kind = "type_name" /\ Half(it).name = it.name
BY DEF Half, Item

LEMMA HalfTaken ==
  ASSUME TablesOK, NEW t \in Threads, rest[t] # <<>>,
         rest' = [rest EXCEPT ![t] = << Half(Item1(t)) >> \o Tail(@)], todo' = todo, step' = step
  PROVE  /\ ControlOK' /\ Stays(t)
         /\ rest'[t] = << Half(Item1(t)) >> \o Tail(rest[t]) /\ rest'[t] \in Seq(Item)
<1>1. Tail(rest[t]) \in Seq(Item) /\ Item1(t) \in Item
  BY QueueFacts DEF TablesOK, Item1
<1> DEFINE r == << Half(Item1(t)) >> \o Tail(rest[t])
<1>2. r \in Seq(Item)
  BY <1>1, HalfFacts, NewHead
<1>3. rest' = [rest EXCEPT ![t] = r]
  OBVIOUS
<1> HIDE DEF r
<1>4. ControlOK' /\ Stays(t) /\ rest'[t] = r
  BY <1>2, <1>3, ItemTaken
<1> QED BY <1>2, <1>4 DEF r

(* What a step of a thread does to its call, and to no other's.            *)
LEMMA ControlStep ==
  ASSUME TablesOK, NEW t \in Threads, Step(t)
  PROVE  ControlOK' /\ Stays(t) /\ todo[t] # <<>>
<1>1. CASE \E o : At(t, o)
  <2>1. todo[t] # <<>> /\ step[t] = "idle"
    BY <1>1 DEF At
  <2>2. CASE \E mod \in Modules : Apply(t, mod)
    BY <2>1, <2>2, CallApplies
  <2>3. CASE \E threw : EndCall(t, threw)
    BY <2>1, <2>3, CallEnds
  <2>4. CASE Goto(t, "import") \/ Goto(t, "bind")
    BY <2>1, <2>4, CallGoes DEF TableSteps
  <2>5. CASE LoadModule(t) \/ AddModule(t)
    <3>1. Arg(t) \in Modules
      BY <2>1, <2>5, ArgFacts DEF LoadModule, AddModule, At
    <3> QED BY <2>2, <2>3, <2>5, <3>1, <2>1 DEF LoadModule, AddModule
  <2>6. CASE AddGlobal(t) \/ SetGlobal(t) \/ RegisterNamespace(t) \/ Import(t) \/ GetState(t) \/ SetState(t)
    BY <2>1, <2>3, <2>4, <2>6 DEF AddGlobal, SetGlobal, RegisterNamespace, Import, GetState, SetState
  <2> QED BY <2>1, <2>5, <2>6 DEF Step, In, ApplyType, ApplyTypeName, ApplyFun, ApplyConv, ApplyGlobal, ApplyEnd, ImportBind
<1>2. CASE \A o : ~At(t, o)
  <2>1. /\ step[t] # "idle" /\ todo[t] # <<>>
        /\ \/ ApplyType(t) \/ ApplyTypeName(t) \/ ApplyFun(t) \/ ApplyConv(t) \/ ApplyGlobal(t) \/ ApplyEnd(t)
           \/ Import(t) \/ ImportBind(t)
    <3>1. \/ ApplyType(t) \/ ApplyTypeName(t) \/ ApplyFun(t) \/ ApplyConv(t) \/ ApplyGlobal(t) \/ ApplyEnd(t)
          \/ Import(t) \/ ImportBind(t)
      BY <1>2 DEF Step, LoadModule, AddModule, AddGlobal, SetGlobal, RegisterNamespace, GetState, SetState
    <3>2. step[t] # "idle"
      BY <1>2, <3>1 DEF ApplyType, ApplyTypeName, ApplyFun, ApplyConv, ApplyGlobal, ApplyEnd, Import, ImportBind, In
    <3> QED BY <3>1, <3>2 DEF TablesOK
  <2>2. CASE \E threw : EndCall(t, threw)
    BY <2>1, <2>2, CallEnds
  <2>3. CASE rest[t] # <<>> /\ Next1(t)
    BY <2>1, <2>3, NextItem
  <2>4. CASE Goto(t, "bind")
    BY <2>1, <2>4, CallGoes DEF TableSteps
  <2>5. CASE rest[t] # <<>> /\ rest' = [rest EXCEPT ![t] = << Half(Item1(t)) >> \o Tail(@)] /\ todo' = todo /\ step' = step
    BY <2>1, <2>5, HalfTaken
  <2>6. CASE ApplyType(t)
    BY <2>3, <2>5, <2>6 DEF ApplyType, Half
  <2>7. CASE ApplyTypeName(t) \/ ApplyFun(t)
    BY <2>3, <2>7 DEF ApplyTypeName, ApplyFun
  <2>8. CASE ApplyConv(t) \/ ApplyGlobal(t)
    BY <2>2, <2>3, <2>8 DEF ApplyConv, ApplyGlobal
  <2>9. CASE ApplyEnd(t) \/ Import(t) \/ ImportBind(t)
    BY <2>2, <2>4, <2>9 DEF ApplyEnd, Import, ImportBind
  <2> QED BY <2>1, <2>6, <2>7, <2>8, <2>9
<1> QED BY <1>1, <1>2

(* How a step changes the globals: it binds a name that was free, it is    *)
(* set_global, or it restores a state.                                     *)
LEMMA GlobalsStep ==
  ASSUME TablesOK, NEW t \in Threads, Step(t)
  PROVE  \/ globals' = globals
         \/ \E n, b : ~Bound(n) /\ b \in Binders /\ globals' = [globals EXCEPT ![n] = b]
         \/ SetGlobal(t) /\ \E n : globals' = [globals EXCEPT ![n] = t]
         \/ SetState(t) /\ globals' = saved.globals
<1>1. CASE LoadModule(t) \/ AddModule(t) \/ ApplyTypeName(t) \/ ApplyFun(t) \/ ApplyConv(t) \/ ApplyEnd(t)
           \/ RegisterNamespace(t) \/ Import(t) \/ GetState(t)
  BY <1>1 DEF LoadModule, AddModule, ApplyTypeName, ApplyFun, ApplyConv, ApplyEnd, RegisterNamespace,
     Import, GetState, tables
<1>2. CASE ApplyType(t) \/ ApplyGlobal(t)
  <2>1. "module" \in Binders
    BY DEF Binders
  <2> QED BY <1>2, <2>1 DEF ApplyType, ApplyGlobal
<1>3. CASE AddGlobal(t) \/ ImportBind(t)
  <2>1. t \in Binders /\ "namespace" \in Binders
    BY DEF Binders
  <2> QED BY <1>3, <2>1 DEF AddGlobal, ImportBind
<1>4. CASE SetGlobal(t) \/ SetState(t)
  BY <1>4 DEF SetGlobal, SetState
<1> QED BY <1>1, <1>2, <1>3, <1>4 DEF Step

LEMMA SavedStep ==
  ASSUME NEW t \in Threads, Step(t)
  PROVE  saved' = saved \/ (GetState(t) /\ saved' = StateNow)
BY DEF Step, LoadModule, AddModule, ApplyType, ApplyTypeName, ApplyFun, ApplyConv, ApplyGlobal, ApplyEnd,
   AddGlobal, SetGlobal, RegisterNamespace, Import, ImportBind, GetState, SetState

LEMMA TablesNextOK == TablesOK /\ [TablesNext]_tableVars => TablesOK'
<1> SUFFICES ASSUME TablesOK, [TablesNext]_tableVars PROVE TablesOK'
  OBVIOUS
<1>1. ASSUME NEW t \in Threads, Step(t) PROVE TablesOK'
  <2>1. ControlOK'
    BY <1>1, ControlStep
  <2>2. globals' \in [GlobalNames -> Binders]
    <3>1. t \in Binders
      BY DEF Binders
    <3> QED BY <1>1, <3>1, GlobalsStep DEF TablesOK
  <2>3. saved'.globals \in [GlobalNames -> Binders]
    BY <1>1, SavedStep DEF TablesOK, StateNow
  <2> QED BY <2>1, <2>2, <2>3 DEF TablesOK, ControlOK
<1>2. CASE UNCHANGED tableVars
  BY <1>2 DEF tableVars, TablesOK
<1> QED BY <1>1, <1>2 DEF TablesNext

(* A global is replaced by set_global and set_state only: add_global and   *)
(* import bind names that are free at that moment (dispatchkit.hpp).       *)
THEOREM GlobalsAreKept == TablesSpec => GlobalsKept
<1> DEFINE KeptNow == \A n \in GlobalNames : Bound(n) /\ globals'[n] # globals[n] =>
                     \E t \in Threads : SetGlobal(t) \/ SetState(t)
<1>1. TablesOK /\ [TablesNext]_tableVars => [KeptNow]_tableVars
  <2> SUFFICES ASSUME TablesOK, NEW t \in Threads, Step(t), ~(SetGlobal(t) \/ SetState(t)),
                      NEW n \in GlobalNames, Bound(n)
               PROVE  globals'[n] = globals[n]
    BY DEF TablesNext
  <2>1. globals' = globals \/ \E m, b : ~Bound(m) /\ globals' = [globals EXCEPT ![m] = b]
    BY GlobalsStep
  <2> QED BY <2>1 DEF TablesOK
<1> HIDE DEF KeptNow
<1>2. TablesSpec => [][KeptNow]_tableVars
  BY TablesInitOK, TablesNextOK, <1>1, PTL DEF TablesSpec
<1> QED BY <1>2 DEF GlobalsKept, KeptNow
-----------------------------------------------------------------------------
(* Loading modules, in a program whose modules are apart.                  *)

(* What an item would bind is bound; an item is there.                     *)
Taken(it, gs, cs) ==
  \/ it.kind \in {"type", "global"} /\ gs[GlobalOf(it)] # Absent
  \/ it.kind = "conv" /\ it.name \in cs
There(it, gs, fs, ts, cs) ==
  /\ it.kind = "type" => gs[TypeGlobal(it.name)] # Absent /\ it.name \in ts
  /\ it.kind = "fun" => it.name \in fs
  /\ it.kind = "conv" => it.name \in cs
  /\ it.kind = "global" => gs[it.name] # Absent
Free(mod, gs, cs) == \A it \in Range(Items[mod]) : ~Taken(it, gs, cs)
Whole(mod, gs, fs, ts, cs) == \A it \in Range(Items[mod]) : There(it, gs, fs, ts, cs)
Distinct(s) == \A i, j \in 1..Len(s) : i # j => ~Conflict(s[i], s[j])

(* A thread in load_module: what it has still to add is free, and what is  *)
(* not there it has still to add.                                          *)
Loads(t) == In(t, "apply") /\ Head(todo[t]).op = "load_module"
ToDo(it, t) ==
  \/ it \in Range(rest[t])
  \/ it.kind = "type" /\ Bound(TypeGlobal(it.name)) /\ Half(it) \in Range(rest[t])
LoadOK(t) ==
  /\ useOwner = t /\ Arg(t) \in active
  /\ \A it \in Range(rest[t]) : ~Taken(it, globals, convs)
  /\ Distinct(rest[t])
  /\ \A it \in Range(Items[Arg(t)]) : There(it, globals, funs, types, convs) \/ ToDo(it, t)

CallOK(t, p) ==
  /\ Range(todo[t]) \subseteq MadeIn(p)
  /\ In(t, "apply") =>
       /\ Head(todo[t]).op \in {"load_module", "add_module"}
       /\ \A it \in Range(rest[t]) :
            it \in Range(Items[Arg(t)]) \/ \E whole \in Range(Items[Arg(t)]) : it = Half(whole)
  /\ In(t, "import") \/ In(t, "bind") => Head(todo[t]).op \in {"import", "namespace"}
  /\ useOwner = t => Loads(t) \/ In(t, "bind")
  /\ Loads(t) => LoadOK(t)

(* A module that is not active is not there at all, now and in the state   *)
(* that was saved; one that is, is there.                                  *)
ModuleOK(mod) ==
  /\ mod \notin active => Free(mod, globals, convs)
  /\ mod \in active /\ ~Loading(mod) => Whole(mod, globals, funs, types, convs)
  /\ mod \notin saved.active => Free(mod, saved.globals, {})
  /\ mod \in saved.active => Whole(mod, saved.globals, saved.funs, saved.types, convs)

ModulesInv(p) ==
  /\ TablesOK
  /\ useOwner \in Threads \cup {Nobody}
  /\ \A t \in Threads : CallOK(t, p)
  /\ active \subseteq LoadedIn(p) \cap loaded /\ saved.active \subseteq LoadedIn(p) \cap loaded
  /\ \A mod \in LoadedIn(p) : ModuleOK(mod)

LEMMA ModulesInit ==
  ASSUME NEW p \in Programs
  PROVE  TablesInit /\ todo = p => ModulesInv(p)
<1> SUFFICES ASSUME TablesInit, todo = p PROVE ModulesInv(p)
  OBVIOUS
<1>1. TablesOK
  BY TablesInitOK
<1>2. useOwner = Nobody /\ active = {} /\ saved.active = {} /\ saved.globals = globals /\ convs = {}
  BY DEF TablesInit, StateNow
<1>3. ASSUME NEW t \in Threads PROVE CallOK(t, p)
  <2>1. step[t] = "idle" /\ useOwner # t
    BY <1>2, TablesAssumption DEF TablesInit
  <2>2. Range(todo[t]) \subseteq MadeIn(p)
    BY DEF MadeIn
  <2> QED BY <2>1, <2>2 DEF CallOK, In, Loads
<1>4. ASSUME NEW mod \in LoadedIn(p) PROVE ModuleOK(mod)
  <2>1. mod \in Modules
    BY DEF LoadedIn
  <2>2. \A it \in Range(Items[mod]) : globals[it.name] = Absent /\ globals[TypeGlobal(it.name)] = Absent
    BY <2>1, ItemFacts DEF TablesInit
  <2>3. Free(mod, globals, convs)
    BY <1>2, <2>2 DEF Free, Taken, GlobalOf
  <2> QED BY <1>2, <2>3 DEF ModuleOK
<1> QED BY <1>1, <1>2, <1>3, <1>4 DEF ModulesInv

(* What an item binds is bound as before, and what is there stays.         *)
Spared(mod) ==
  \A it \in Range(Items[mod]) :
    /\ Taken(it, globals', convs') <=> Taken(it, globals, convs)
    /\ There(it, globals, funs, types, convs) => There(it, globals', funs', types', convs')
LoadedBy(t, mod) == useOwner = t /\ In(t, "apply") /\ Arg(t) = mod

(* A call of another thread.                                               *)
LEMMA OtherCall ==
  ASSUME NEW p \in Programs, TablesOK, NEW u \in Threads, CallOK(u, p),
         todo'[u] = todo[u], step'[u] = step[u], rest'[u] = rest[u],
         useOwner' = u <=> useOwner = u,
         Loads(u) => Spared(Arg(u)) /\ Arg(u) \in active'
  PROVE  CallOK(u, p)'
<1>1. Loads(u)' <=> Loads(u)
  BY DEF Loads, In
<1>2. ASSUME Loads(u) PROVE LoadOK(u)'
  <2>1. LoadOK(u) /\ Spared(Arg(u)) /\ Arg(u) \in active' /\ Arg(u)' = Arg(u)
    BY <1>2 DEF CallOK, Arg
  <2>2. \A it \in Range(rest[u]) : ~Taken(it, globals', convs')
    <3> SUFFICES ASSUME NEW it \in Range(rest[u]) PROVE ~Taken(it, globals', convs')
      OBVIOUS
    <3>1. CASE it \in Range(Items[Arg(u)])
      BY <2>1, <3>1 DEF LoadOK, Spared
    <3>2. CASE \E whole \in Range(Items[Arg(u)]) : it = Half(whole)
      <4>1. Arg(u) \in Modules
        BY <1>2, ArgFacts DEF Loads, In, TablesOK
      <4>2. it.kind = "type_name"
        BY <3>2, <4>1, ItemFacts, HalfFacts
      <4> QED BY <4>2 DEF Taken
    <3> QED BY <1>2, <3>1, <3>2 DEF CallOK, Loads
  <2>3. ASSUME NEW it \in Range(Items[Arg(u)])
        PROVE  There(it, globals', funs', types', convs') \/ ToDo(it, u)'
    <3>1. Taken(it, globals, convs) => Taken(it, globals', convs')
      BY <2>1 DEF Spared
    <3>2. it.kind = "type" /\ Bound(TypeGlobal(it.name)) => Bound(TypeGlobal(it.name))'
      BY <3>1 DEF Taken, Bound, GlobalOf
    <3> QED BY <2>1, <3>2 DEF LoadOK, Spared, ToDo
  <2> QED BY <2>1, <2>2, <2>3 DEF LoadOK
<1> QED BY <1>1, <1>2 DEF CallOK, In, Arg

(* A step that neither begins a load nor saves or restores a state.        *)
LEMMA StepKeeps ==
  ASSUME NEW p \in Programs, ModulesInv(p), NEW t \in Threads, TablesOK', Stays(t), CallOK(t, p)',
         useOwner' \in Threads \cup {Nobody}, \A u \in Threads \ {t} : useOwner' = u <=> useOwner = u,
         active' = active, loaded' = loaded, saved' = saved, convs \subseteq convs',
         \A mod \in LoadedIn(p) : ~LoadedBy(t, mod) => Spared(mod) /\ ~LoadedBy(t, mod)',
         \A mod \in LoadedIn(p) : LoadedBy(t, mod) =>
            LoadedBy(t, mod)' \/ Whole(mod, globals', funs', types', convs')
  PROVE  ModulesInv(p)'
<1>1. ASSUME NEW u \in Threads PROVE CallOK(u, p)'
  <2>1. CASE u = t
    BY <2>1
  <2>2. CASE u # t
    <3>1. Loads(u) => Spared(Arg(u)) /\ Arg(u) \in active'
      <4> SUFFICES ASSUME Loads(u) PROVE Spared(Arg(u)) /\ Arg(u) \in active
        OBVIOUS
      <4>1. LoadOK(u)
        BY DEF ModulesInv, CallOK
      <4>2. Arg(u) \in LoadedIn(p) /\ useOwner = u
        BY <4>1 DEF ModulesInv, LoadOK
      <4> QED BY <2>2, <4>1, <4>2 DEF LoadedBy, LoadOK
    <3> QED BY <2>2, <3>1, OtherCall DEF ModulesInv, Stays
  <2> QED BY <2>1, <2>2
<1>2. ASSUME NEW mod \in LoadedIn(p) PROVE ModuleOK(mod)'
  <2>1. ModuleOK(mod)
    BY DEF ModulesInv
  <2>2. mod \in saved.active => Whole(mod, saved.globals, saved.funs, saved.types, convs')
    BY <2>1 DEF ModuleOK, Whole, There
  <2>3. CASE ~LoadedBy(t, mod)
    <3>1. Loading(mod)' <=> Loading(mod)
      <4>1. \A u \in Threads \ {t} : LoadedBy(u, mod)' <=> LoadedBy(u, mod)
        BY DEF LoadedBy, In, Arg, Stays
      <4>2. (Loading(mod) <=> \E u \in Threads : LoadedBy(u, mod))
            /\ (Loading(mod)' <=> \E u \in Threads : LoadedBy(u, mod)')
        BY DEF Loading, LoadedBy, In, Arg
      <4> QED BY <2>3, <4>1, <4>2
    <3>2. Spared(mod)
      BY <2>3
    <3> QED BY <2>1, <2>2, <3>1, <3>2 DEF ModuleOK, Spared, Free, Whole
  <2>4. CASE LoadedBy(t, mod)
    <3>1. mod \in active
      <4>1. CallOK(t, p)
        BY DEF ModulesInv
      <4>2. Loads(t)
        BY <2>4, <4>1 DEF CallOK, LoadedBy, In
      <4> QED BY <2>4, <4>1, <4>2 DEF CallOK, LoadOK, LoadedBy
    <3>2. LoadedBy(t, mod)' => Loading(mod)'
      BY DEF Loading, LoadedBy, In, Arg
    <3> QED BY <2>1, <2>2, <2>4, <3>1, <3>2 DEF ModuleOK
  <2> QED BY <2>3, <2>4
<1>3. active' \subseteq LoadedIn(p) \cap loaded' /\ saved'.active \subseteq LoadedIn(p) \cap loaded'
  BY DEF ModulesInv
<1> QED BY <1>1, <1>2, <1>3 DEF ModulesInv

LEMMA MadeFacts ==
  ASSUME NEW p \in Programs, TablesOK, NEW t \in Threads, CallOK(t, p), todo[t] # <<>>
  PROVE  /\ Head(todo[t]) \in MadeIn(p) /\ Range(Tail(todo[t])) \subseteq MadeIn(p)
         /\ Head(todo[t]).op = "load_module" => Arg(t) \in LoadedIn(p)
         /\ Head(todo[t]).op = "add_module" => Arg(t) \in AddedIn(p)
<1>1. Range(todo[t]) = {Head(todo[t])} \cup Range(Tail(todo[t]))
  BY ArgFacts, QueueFacts
<1>2. Head(todo[t]) \in MadeIn(p) /\ Range(Tail(todo[t])) \subseteq MadeIn(p)
  BY <1>1 DEF CallOK
<1>3. Head(todo[t]).op \in {"load_module", "add_module"} => Arg(t) \in Modules
  BY ArgFacts
<1> QED BY <1>2, <1>3 DEF LoadedIn, AddedIn, Arg

(* A call that has ended.                                                  *)
LEMMA EndedCall ==
  ASSUME NEW p \in Programs, ModulesInv(p), NEW t \in Threads, todo[t] # <<>>,
         NEW threw, EndCall(t, threw), useOwner' # t
  PROVE  CallOK(t, p)' /\ \A mod : ~LoadedBy(t, mod)'
<1>1. todo'[t] = Tail(todo[t]) /\ step'[t] = "idle"
  BY CallEnds DEF ModulesInv
<1>2. Range(todo'[t]) \subseteq MadeIn(p)
  BY <1>1, MadeFacts DEF ModulesInv
<1> QED BY <1>1, <1>2 DEF CallOK, In, Loads, LoadedBy

(* A call that is not in apply loads nothing, and idle calls do not own    *)
(* the mutex.                                                              *)
LEMMA NotLoading ==
  ASSUME NEW p \in Programs, ModulesInv(p), NEW t \in Threads
  PROVE  /\ step[t] # "apply" => \A mod : ~LoadedBy(t, mod)
         /\ step[t] \in {"idle", "import"} => useOwner # t
BY DEF ModulesInv, CallOK, In, Loads, LoadedBy

LEMMA SameSpared ==
  ASSUME UNCHANGED tables, NEW mod
  PROVE  Spared(mod)
BY DEF tables, Spared

(* One name is bound, which is none of the module's.                       *)
LEMMA NameSpared ==
  ASSUME TablesOK, NEW mod \in Modules, NEW n, NEW b,
         globals' = globals \/ globals' = [globals EXCEPT ![n] = b],
         \A it \in Range(Items[mod]) : it.kind \in {"type", "global"} => GlobalOf(it) # n,
         UNCHANGED <<funs, types, convs>>
  PROVE  Spared(mod)
<1> SUFFICES ASSUME NEW it \in Range(Items[mod])
             PROVE  /\ Taken(it, globals', convs') <=> Taken(it, globals, convs)
                    /\ There(it, globals, funs, types, convs) => There(it, globals', funs', types', convs')
  BY DEF Spared
<1>1. it.kind \in {"type", "global"} => GlobalOf(it) # n /\ GlobalOf(it) \in GlobalNames
  BY ItemFacts DEF GlobalOf
<1>2. it.kind \in {"type", "global"} => globals'[GlobalOf(it)] = globals[GlobalOf(it)]
  BY <1>1 DEF TablesOK
<1> QED BY <1>2 DEF Taken, There, GlobalOf

(* Functions, types and conversions are only added.                        *)
LEMMA MoreSpared ==
  ASSUME NEW mod \in Modules, globals' = globals, funs \subseteq funs', types \subseteq types', convs \subseteq convs',
         \A it \in Range(Items[mod]) : it.kind = "conv" => (it.name \in convs' => it.name \in convs)
  PROVE  Spared(mod)
BY DEF Spared, Taken, There

(* Calls that change no table.                                             *)
LEMMA QuietCalls ==
  ASSUME NEW p \in Programs, ModulesInv(p), TablesOK', NEW t \in Threads,
         \/ AddModule(t) \/ RegisterNamespace(t) \/ Import(t)
         \/ LoadModule(t) /\ Arg(t) \in loaded /\ Arg(t) \in active
  PROVE  ModulesInv(p)'
<1>1. /\ TablesOK /\ CallOK(t, p) /\ Stays(t) /\ todo[t] # <<>> /\ step[t] \in {"idle", "import"}
      /\ useOwner # t /\ useOwner \in Threads \cup {Nobody} /\ Nobody \notin Threads
  <2>1. TablesOK /\ CallOK(t, p) /\ useOwner \in Threads \cup {Nobody}
    BY DEF ModulesInv
  <2>2. Stays(t) /\ todo[t] # <<>>
    BY <2>1, ControlStep DEF Step
  <2>3. step[t] \in {"idle", "import"}
    BY DEF AddModule, RegisterNamespace, Import, LoadModule, At, In
  <2> QED BY <2>1, <2>2, <2>3, NotLoading, TablesAssumption
<1>2. \A mod : ~LoadedBy(t, mod) /\ Spared(mod)
  <2>1. UNCHANGED tables
    BY DEF AddModule, RegisterNamespace, Import, LoadModule
  <2> QED BY <1>1, <2>1, NotLoading, SameSpared
<1>3. /\ CallOK(t, p)' /\ \A mod : ~LoadedBy(t, mod)'
      /\ useOwner' \in Threads \cup {Nobody} /\ \A u \in Threads \ {t} : useOwner' = u <=> useOwner = u
      /\ active' = active /\ loaded' = loaded /\ saved' = saved /\ convs' = convs
  <2>1. active' = active /\ loaded' = loaded /\ saved' = saved /\ convs' = convs
    BY DEF AddModule, RegisterNamespace, Import, LoadModule, tables
  <2>2. ASSUME NEW threw, EndCall(t, threw), useOwner' = useOwner
        PROVE  CallOK(t, p)' /\ \A mod : ~LoadedBy(t, mod)'
    BY <1>1, <2>2, EndedCall
  <2>3. CASE AddModule(t)
    <3>1. At(t, "add_module") /\ useOwner' = useOwner /\ Apply(t, Arg(t)) /\ Arg(t) \in Modules
      BY <1>1, <2>3, ArgFacts DEF AddModule, At
    <3>2. todo' = todo /\ step'[t] = "apply" /\ rest'[t] = Items[Arg(t)]
      BY <1>1, <3>1, CallApplies
    <3>3. CallOK(t, p)' /\ \A mod : ~LoadedBy(t, mod)'
      BY <1>1, <3>1, <3>2 DEF CallOK, In, Loads, LoadedBy, Arg, At
    <3> QED BY <1>1, <2>1, <3>1, <3>3
  <2>4. CASE Goto(t, "import") /\ At(t, "namespace") /\ useOwner' = useOwner
    <3>1. todo' = todo /\ step'[t] = "import" /\ Head(todo[t]).op = "namespace"
      BY <1>1, <2>4, CallGoes DEF TableSteps, At
    <3>2. CallOK(t, p)' /\ \A mod : ~LoadedBy(t, mod)'
      BY <1>1, <2>4, <3>1 DEF CallOK, In, Loads, LoadedBy
    <3> QED BY <1>1, <2>1, <2>4, <3>2
  <2>5. CASE Goto(t, "bind") /\ Lock(t) /\ (At(t, "import") \/ In(t, "import"))
    <3>1. todo' = todo /\ step'[t] = "bind" /\ Head(todo[t]).op \in {"import", "namespace"}
      BY <1>1, <2>5, CallGoes DEF TableSteps, At, CallOK
    <3>2. CallOK(t, p)' /\ \A mod : ~LoadedBy(t, mod)'
      BY <1>1, <3>1 DEF CallOK, In, Loads, LoadedBy
    <3> QED BY <1>1, <2>1, <2>5, <3>2 DEF Lock
  <2>6. CASE RegisterNamespace(t)
    <3>1. useOwner' = useOwner
      BY <2>6 DEF RegisterNamespace
    <3>2. (\E threw : EndCall(t, threw)) \/ (Goto(t, "import") /\ At(t, "namespace"))
      BY <2>6 DEF RegisterNamespace, At
    <3> QED BY <1>1, <2>1, <2>2, <2>4, <3>1, <3>2
  <2>7. CASE Import(t)
    <3>1. \/ EndCall(t, TRUE) /\ useOwner' = useOwner
          \/ Goto(t, "bind") /\ Lock(t) /\ (At(t, "import") \/ In(t, "import"))
      BY <2>7 DEF Import
    <3> QED BY <1>1, <2>1, <2>2, <2>5, <3>1
  <2>8. CASE LoadModule(t) /\ Arg(t) \in loaded /\ Arg(t) \in active
    <3>1. EndCall(t, FALSE) /\ useOwner' = useOwner
      BY <2>8 DEF LoadModule
    <3> QED BY <1>1, <2>1, <2>2, <3>1
  <2> QED BY <2>3, <2>6, <2>7, <2>8
<1> QED BY <1>1, <1>2, <1>3, StepKeeps

(* Calls that bind a name: none of a module that is loaded.                *)
LEMMA NamingCalls ==
  ASSUME NEW p \in Programs, ModulesApart(p), ModulesInv(p), TablesOK', NEW t \in Threads,
         AddGlobal(t) \/ SetGlobal(t) \/ ImportBind(t)
  PROVE  ModulesInv(p)'
<1>1. /\ TablesOK /\ CallOK(t, p) /\ Stays(t) /\ todo[t] # <<>> /\ step[t] \in {"idle", "bind"}
      /\ useOwner \in Threads \cup {Nobody} /\ Nobody \notin Threads
      /\ Head(todo[t]).op \in {"add_global", "set_global", "import", "namespace"}
  <2>1. TablesOK /\ CallOK(t, p) /\ useOwner \in Threads \cup {Nobody}
    BY DEF ModulesInv
  <2>2. Stays(t) /\ todo[t] # <<>>
    BY <2>1, ControlStep DEF Step
  <2>3. step[t] \in {"idle", "bind"} /\ Head(todo[t]).op \in {"add_global", "set_global", "import", "namespace"}
    BY <2>1 DEF AddGlobal, SetGlobal, ImportBind, At, In, CallOK
  <2> QED BY <2>1, <2>2, <2>3, TablesAssumption
<1>2. /\ useOwner' \in Threads \cup {Nobody} /\ useOwner' # t
      /\ \A u \in Threads \ {t} : useOwner' = u <=> useOwner = u
  <2>1. CASE AddGlobal(t) \/ SetGlobal(t)
    BY <1>1, <2>1, NotLoading DEF AddGlobal, SetGlobal, At
  <2>2. CASE ImportBind(t)
    BY <1>1, <2>2 DEF ImportBind, Unlock
  <2> QED BY <2>1, <2>2
<1>3. CallOK(t, p)' /\ \A mod : ~LoadedBy(t, mod)'
  <2>1. \E threw : EndCall(t, threw)
    BY DEF AddGlobal, SetGlobal, ImportBind
  <2> QED BY <1>1, <1>2, <2>1, EndedCall
<1>4. \A mod \in LoadedIn(p) : Spared(mod)
  <2> SUFFICES ASSUME NEW mod \in LoadedIn(p) PROVE Spared(mod)
    OBVIOUS
  <2>1. mod \in Modules
    BY DEF LoadedIn
  <2>2. \E b : globals' = globals \/ globals' = [globals EXCEPT ![Arg(t)] = b]
    BY DEF AddGlobal, SetGlobal, ImportBind
  <2>3. \A it \in Range(Items[mod]) : it.kind \in {"type", "global"} => GlobalOf(it) # Arg(t)
    BY <1>1, MadeFacts DEF ModulesApart, Arg
  <2>4. UNCHANGED <<funs, types, convs>>
    BY DEF AddGlobal, SetGlobal, ImportBind
  <2> QED BY <1>1, <2>1, <2>2, <2>3, <2>4, NameSpared
<1>5. active' = active /\ loaded' = loaded /\ saved' = saved /\ convs' = convs
  BY DEF AddGlobal, SetGlobal, ImportBind
<1>6. \A mod : ~LoadedBy(t, mod)
  BY <1>1, NotLoading
<1> QED BY <1>1, <1>2, <1>3, <1>4, <1>5, <1>6, StepKeeps

(* What a call adds is nothing of a module that another call loaded.       *)
LEMMA ApplyApart ==
  ASSUME NEW p \in Programs, ModulesApart(p), ModulesInv(p), NEW t \in Threads, In(t, "apply"),
         NEW mod \in LoadedIn(p), ~LoadedBy(t, mod),
         NEW it \in Range(Items[mod]), NEW new \in Range(rest[t])
  PROVE  ~Conflict(it, new)
<1>1. TablesOK /\ CallOK(t, p) /\ todo[t] # <<>> /\ Head(todo[t]).op \in {"load_module", "add_module"}
  BY DEF ModulesInv, CallOK, In, TablesOK
<1>2. Arg(t) \in Modules /\ Arg(t) \in LoadedIn(p) \cup AddedIn(p)
  BY <1>1, ArgFacts, MadeFacts
<1>3. Arg(t) # mod
  <2>1. CASE Head(todo[t]).op = "load_module"
    BY <1>1, <2>1 DEF CallOK, Loads, LoadOK, LoadedBy
  <2>2. CASE Head(todo[t]).op = "add_module"
    BY <1>1, <2>2, MadeFacts DEF ModulesApart
  <2> QED BY <1>1, <2>1, <2>2
<1>4. CASE new \in Range(Items[Arg(t)])
  BY <1>2, <1>3, <1>4 DEF ModulesApart
<1>5. CASE \E whole \in Range(Items[Arg(t)]) : new = Half(whole)
  BY <1>2, <1>5, ItemFacts, HalfFacts DEF Conflict
<1> QED BY <1>1, <1>4, <1>5 DEF CallOK

(* The head of what is distinct is apart from the rest, which is distinct, *)
(* also after the second half of a type.                                   *)
LEMMA DistinctRest ==
  ASSUME NEW s \in Seq(Item), s # <<>>, Distinct(s)
  PROVE  /\ Distinct(Tail(s)) /\ Distinct(<< Half(Head(s)) >> \o Tail(s))
         /\ \A it \in Range(Tail(s)) : ~Conflict(it, Head(s))
<1>1. /\ Head(s) \in Item /\ Head(s) = s[1] /\ Len(s) \in Nat /\ Len(s) >= 1
      /\ Tail(s) \in Seq(Item) /\ Len(Tail(s)) = Len(s) - 1
      /\ \A i \in 1..(Len(s) - 1) : Tail(s)[i] = s[i + 1]
  BY QueueFacts
<1>2. \A i \in 1..(Len(s) - 1) : i + 1 \in 1..Len(s) /\ i + 1 # 1
  BY <1>1
<1>3. 1 \in 1..Len(s)
  BY <1>1
<1>4. \A i, j \in 1..(Len(s) - 1) : i # j => i + 1 # j + 1
  OBVIOUS
<1>5. Distinct(Tail(s))
  BY <1>1, <1>2, <1>4 DEF Distinct
<1>6. \A it \in Range(Tail(s)) : ~Conflict(it, Head(s))
  <2>1. Range(Tail(s)) = { Tail(s)[i] : i \in 1..(Len(s) - 1) }
    <3>1. DOMAIN Tail(s) = 1..(Len(s) - 1)
      BY <1>1
    <3> QED BY <3>1 DEF Range
  <2>2. \A i \in 1..(Len(s) - 1) : ~Conflict(s[i + 1], s[1])
    BY <1>2, <1>3 DEF Distinct
  <2> QED BY <1>1, <2>1, <2>2
<1>7. Distinct(<< Half(Head(s)) >> \o Tail(s))
  <2> DEFINE h == Half(Head(s))  tl == Tail(s)  r == <<h>> \o tl
  <2>1. h \in Item /\ h.kind = "type_name"
    BY <1>1, HalfFacts
  <2>2. \A x : ~Conflict(h, x) /\ ~Conflict(x, h)
    BY <2>1 DEF Conflict
  <2>3. /\ r \in Seq(Item) /\ r # <<>> /\ Head(r) = h /\ Len(r) = Len(tl) + 1
        /\ \A i \in 1..Len(tl) : r[i + 1] = tl[i]
    BY <1>1, <2>1, NewHead
  <2>4. r[1] = h
    BY <2>3
  <2>5. \A i \in 1..Len(r) : i # 1 => i - 1 \in 1..Len(tl) /\ r[i] = tl[i - 1]
    <3> SUFFICES ASSUME NEW i \in 1..Len(r), i # 1 PROVE i - 1 \in 1..Len(tl) /\ r[i] = tl[i - 1]
      OBVIOUS
    <3> HIDE DEF r, tl, h
    <3>1. i - 1 \in 1..Len(tl) /\ (i - 1) + 1 = i
      <4>1. Len(tl) \in Nat
        BY <1>1 DEF tl
      <4> QED BY <4>1, <2>3
    <3> QED BY <2>3, <3>1
  <2>6. \A i, j \in 1..Len(r) : i # j => ~Conflict(r[i], r[j])
    <3> SUFFICES ASSUME NEW i \in 1..Len(r), NEW j \in 1..Len(r), i # j PROVE ~Conflict(r[i], r[j])
      OBVIOUS
    <3>1. CASE i = 1 \/ j = 1
      BY <2>2, <2>4, <3>1
    <3>2. CASE i # 1 /\ j # 1
      <4>1. /\ i - 1 \in 1..Len(tl) /\ j - 1 \in 1..Len(tl) /\ i - 1 # j - 1
            /\ r[i] = tl[i - 1] /\ r[j] = tl[j - 1]
        BY <2>5, <3>2
      <4> QED BY <1>5, <4>1 DEF Distinct
    <3> QED BY <3>1, <3>2
  <2> QED BY <2>6 DEF Distinct
<1> QED BY <1>5, <1>6, <1>7

(* The item x is added, and the call goes on.                              *)
Added(t, x) ==
  \/ /\ x.kind = "type" /\ Bound(GlobalOf(x)) /\ UNCHANGED tables
     /\ rest'[t] = Tail(rest[t])
  \/ /\ x.kind = "type" /\ globals' = [globals EXCEPT ![GlobalOf(x)] = "module"]
     /\ UNCHANGED <<funs, types, convs>>
     /\ rest'[t] = << Half(x) >> \o Tail(rest[t])
  \/ /\ x.kind = "type_name" /\ types' = types \cup {x.name} /\ UNCHANGED <<globals, funs, convs>>
     /\ rest'[t] = Tail(rest[t])
  \/ /\ x.kind = "fun" /\ funs' = funs \cup {x.name} /\ UNCHANGED <<globals, types, convs>>
     /\ rest'[t] = Tail(rest[t])
  \/ /\ x.kind = "conv" /\ convs' = convs \cup {x.name} /\ UNCHANGED <<globals, funs, types>>
     /\ rest'[t] = Tail(rest[t])
  \/ /\ x.kind = "global" /\ globals' = [globals EXCEPT ![GlobalOf(x)] = "module"]
     /\ UNCHANGED <<funs, types, convs>>
     /\ rest'[t] = Tail(rest[t])
ItemCall(t) == ApplyType(t) \/ ApplyTypeName(t) \/ ApplyFun(t) \/ ApplyConv(t) \/ ApplyGlobal(t)

LEMMA ItemStep ==
  ASSUME TablesOK, NEW t \in Threads, ItemCall(t)
  PROVE  /\ In(t, "apply") /\ rest[t] # <<>> /\ todo[t] # <<>>
         /\ active' = active /\ loaded' = loaded /\ saved' = saved
         /\ \/ /\ EndCall(t, TRUE) /\ Unlock(t) /\ UNCHANGED tables
               /\ Taken(Item1(t), globals, convs)
            \/ /\ todo' = todo /\ step' = step /\ useOwner' = useOwner
               /\ Added(t, Item1(t))
<1>1. /\ In(t, "apply") /\ rest[t] # <<>> /\ active' = active /\ loaded' = loaded /\ saved' = saved
  BY DEF ItemCall, ApplyType, ApplyTypeName, ApplyFun, ApplyConv, ApplyGlobal
<1>2. todo[t] # <<>>
  BY <1>1 DEF TablesOK, In
<1>3. Next1(t) => rest'[t] = Tail(rest[t]) /\ todo' = todo /\ step' = step
  BY <1>1, NextItem
<1>4. CASE ApplyType(t)
  <2>1. Item1(t).kind = "type" /\ GlobalOf(Item1(t)) = TypeGlobal(Item1(t).name)
    BY <1>4 DEF ApplyType, GlobalOf
  <2>2. UNCHANGED <<useOwner, funs, types, convs>>
    BY <1>4 DEF ApplyType
  <2>3. CASE Bound(TypeGlobal(Item1(t).name)) /\ Next1(t) /\ UNCHANGED globals
    BY <1>1, <1>2, <1>3, <2>1, <2>2, <2>3 DEF Added, tables
  <2>4. CASE /\ globals' = [globals EXCEPT ![TypeGlobal(Item1(t).name)] = "module"]
             /\ rest' = [rest EXCEPT ![t] = << Half(Item1(t)) >> \o Tail(@)]
             /\ UNCHANGED <<todo, step, failed>>
    <3>1. rest'[t] = << Half(Item1(t)) >> \o Tail(rest[t])
      BY <1>1, <2>4, HalfTaken
    <3> QED BY <1>1, <1>2, <2>1, <2>2, <2>4, <3>1 DEF Added
  <2> QED BY <1>4, <2>3, <2>4 DEF ApplyType, Half
<1>5. CASE ApplyTypeName(t) \/ ApplyFun(t)
  BY <1>1, <1>2, <1>3, <1>5 DEF Added, ApplyTypeName, ApplyFun
<1>6. CASE ApplyConv(t)
  <2>1. Item1(t).kind = "conv" /\ UNCHANGED <<globals, funs, types>>
    BY <1>6 DEF ApplyConv
  <2>2. CASE Item1(t).name \in convs /\ EndCall(t, TRUE) /\ Unlock(t) /\ UNCHANGED convs
    BY <1>1, <1>2, <2>1, <2>2 DEF Taken, tables
  <2>3. CASE convs' = convs \cup {Item1(t).name} /\ Next1(t) /\ UNCHANGED useOwner
    BY <1>1, <1>2, <1>3, <2>1, <2>3 DEF Added
  <2> QED BY <1>6, <2>2, <2>3 DEF ApplyConv
<1>7. CASE ApplyGlobal(t)
  <2>1. Item1(t).kind = "global" /\ GlobalOf(Item1(t)) = Item1(t).name /\ UNCHANGED <<funs, types, convs>>
    BY <1>7 DEF ApplyGlobal, GlobalOf
  <2>2. CASE Bound(Item1(t).name) /\ EndCall(t, TRUE) /\ Unlock(t) /\ UNCHANGED globals
    BY <1>1, <1>2, <2>1, <2>2 DEF Taken, tables, Bound
  <2>3. CASE globals' = [globals EXCEPT ![Item1(t).name] = "module"] /\ Next1(t) /\ UNCHANGED useOwner
    BY <1>1, <1>2, <1>3, <2>1, <2>3 DEF Added
  <2> QED BY <1>7, <2>2, <2>3 DEF ApplyGlobal
<1> QED BY <1>4, <1>5, <1>6, <1>7 DEF ItemCall

(* What adding an item does to the items of any module.                    *)
LEMMA AddedTo ==
  ASSUME TablesOK, NEW t \in Threads, NEW x, Added(t, x), NEW mod \in Modules, NEW it \in Range(Items[mod])
  PROVE  /\ There(it, globals, funs, types, convs) => There(it, globals', funs', types', convs')
         /\ Taken(it, globals, convs) => Taken(it, globals', convs')
         /\ ~Conflict(it, x) => (Taken(it, globals', convs') => Taken(it, globals, convs))
         /\ Bound(TypeGlobal(it.name)) => Bound(TypeGlobal(it.name))'
<1>1. it.name \in GlobalNames /\ TypeGlobal(it.name) \in GlobalNames /\ GlobalOf(it) \in GlobalNames
  BY ItemFacts DEF GlobalOf
<1>2. funs \subseteq funs' /\ types \subseteq types' /\ convs \subseteq convs'
  BY DEF Added, tables
<1>3. \A n \in GlobalNames : globals[n] # Absent => globals'[n] # Absent
  <2>1. "module" # Absent
    BY TablesAssumption
  <2>2. CASE globals' = globals
    BY <2>2
  <2>3. CASE globals' = [globals EXCEPT ![GlobalOf(x)] = "module"]
    BY <2>1, <2>3 DEF TablesOK
  <2> QED BY <2>2, <2>3 DEF Added, tables
<1>4. \/ globals' = globals
      \/ x.kind \in {"type", "global"} /\ globals' = [globals EXCEPT ![GlobalOf(x)] = "module"]
  BY DEF Added, tables
<1>5. convs' = convs \/ (x.kind = "conv" /\ convs' = convs \cup {x.name})
  <2>1. CASE x.kind = "conv"
    BY <2>1 DEF Added
  <2>2. CASE x.kind # "conv"
    BY <2>2 DEF Added, tables
  <2> QED BY <2>1, <2>2
<1>6. ASSUME ~Conflict(it, x), Taken(it, globals', convs') PROVE Taken(it, globals, convs)
  <2>1. CASE it.kind \in {"type", "global"} /\ globals'[GlobalOf(it)] # Absent
    <3>1. globals'[GlobalOf(it)] = globals[GlobalOf(it)]
      <4>1. CASE x.kind \in {"type", "global"} /\ globals' = [globals EXCEPT ![GlobalOf(x)] = "module"]
        <5>1. GlobalOf(it) # GlobalOf(x)
          BY <1>6, <2>1, <4>1 DEF Conflict
        <5> QED BY <1>1, <4>1, <5>1 DEF TablesOK
      <4> QED BY <1>4, <4>1
    <3> QED BY <2>1, <3>1 DEF Taken
  <2>2. CASE it.kind = "conv" /\ it.name \in convs'
    BY <1>5, <1>6, <2>2 DEF Taken, Conflict
  <2> QED BY <1>6, <2>1, <2>2 DEF Taken
<1>7. Taken(it, globals, convs) => Taken(it, globals', convs')
  BY <1>1, <1>2, <1>3 DEF Taken
<1>8. There(it, globals, funs, types, convs) => There(it, globals', funs', types', convs')
  BY <1>1, <1>2, <1>3 DEF There
<1> QED BY <1>1, <1>3, <1>6, <1>7, <1>8 DEF Bound

(* A load that adds its next item.                                         *)
LEMMA LoadGoesOn ==
  ASSUME NEW p \in Programs, ModulesInv(p), NEW t \in Threads, Loads(t), rest[t] # <<>>,
         todo' = todo, step' = step, useOwner' = useOwner, active' = active, Added(t, Item1(t))
  PROVE  LoadOK(t)'
<1> DEFINE x == Item1(t)  mod == Arg(t)
<1>1. TablesOK /\ LoadOK(t) /\ CallOK(t, p) /\ mod \in Modules /\ mod' = mod
  <2>1. TablesOK /\ CallOK(t, p)
    BY DEF ModulesInv
  <2>2. mod \in Modules
    BY <2>1, ArgFacts DEF Loads, In, TablesOK
  <2> QED BY <2>1, <2>2 DEF CallOK, Arg
<1>2. /\ rest[t] \in Seq(Item) /\ x = Head(rest[t]) /\ x \in Item /\ Range(rest[t]) = {x} \cup Range(Tail(rest[t]))
      /\ Tail(rest[t]) \in Seq(Item) /\ Half(x) \in Item /\ Half(x).kind = "type_name"
  BY <1>1, QueueFacts, HalfFacts DEF TablesOK, Item1
<1>3. /\ Distinct(Tail(rest[t])) /\ Distinct(<< Half(x) >> \o Tail(rest[t]))
      /\ \A it \in Range(Tail(rest[t])) : ~Conflict(it, x)
  BY <1>1, <1>2, DistinctRest DEF LoadOK
<1>4. Range(<< Half(x) >> \o Tail(rest[t])) = {Half(x)} \cup Range(Tail(rest[t]))
  <2>1. ASSUME NEW h \in Item, NEW s \in Seq(Item) PROVE Range(<<h>> \o s) = {h} \cup Range(s)
    BY NewHead
  <2> QED BY <1>2, <2>1
<1>5. ~Taken(x, globals, convs)
  BY <1>1, <1>2 DEF LoadOK
<1>6. \/ rest'[t] = Tail(rest[t]) /\ x.kind # "type"
      \/ rest'[t] = << Half(x) >> \o Tail(rest[t]) /\ x.kind = "type"
  BY <1>5 DEF Added, Taken, Bound
<1>7. /\ Distinct(rest'[t]) /\ Range(Tail(rest[t])) \subseteq Range(rest'[t])
      /\ Range(rest'[t]) \subseteq {Half(x)} \cup Range(Tail(rest[t]))
      /\ x.kind = "type" => Half(x) \in Range(rest'[t])
  BY <1>3, <1>4, <1>6
<1>8. ASSUME NEW it \in Range(rest'[t]) PROVE ~Taken(it, globals', convs')
  <2>1. CASE it.kind = "type_name"
    BY <2>1 DEF Taken
  <2>2. CASE it.kind # "type_name"
    <3>1. it \in Range(Tail(rest[t])) /\ it \in Range(rest[t]) /\ ~Conflict(it, x)
      BY <1>2, <1>3, <1>7, <2>2
    <3>2. it \in Range(Items[mod])
      <4>1. ~ \E whole \in Range(Items[mod]) : it = Half(whole)
        BY <1>1, <2>2, ItemFacts, HalfFacts
      <4> QED BY <1>1, <3>1, <4>1 DEF CallOK, Loads
    <3>3. ~Taken(it, globals, convs)
      BY <1>1, <3>1 DEF LoadOK
    <3> QED BY <1>1, <3>1, <3>2, <3>3, AddedTo
  <2> QED BY <2>1, <2>2
<1>9. ASSUME NEW it \in Range(Items[mod])
      PROVE  There(it, globals', funs', types', convs') \/ ToDo(it, t)'
  <2>1. it \in Item /\ it.kind \in {"type", "fun", "conv", "global"} /\ it.name \in GlobalNames
        /\ TypeGlobal(it.name) \in GlobalNames /\ Half(it).kind = "type_name" /\ Half(it).name = it.name
    BY <1>1, ItemFacts, HalfFacts
  <2>2. /\ There(it, globals, funs, types, convs) => There(it, globals', funs', types', convs')
        /\ Bound(TypeGlobal(it.name)) => Bound(TypeGlobal(it.name))'
    BY <1>1, AddedTo
  <2>3. CASE it \in Range(Tail(rest[t]))
    BY <1>7, <2>3 DEF ToDo
  <2>4. CASE it.kind = "type" /\ Bound(TypeGlobal(it.name)) /\ Half(it) \in Range(Tail(rest[t]))
    BY <1>7, <2>2, <2>4 DEF ToDo
  <2>5. CASE it = x
    <3>1. "module" # Absent
      BY TablesAssumption
    <3>2. CASE it.kind = "type"
      <4>1. globals' = [globals EXCEPT ![TypeGlobal(it.name)] = "module"]
        BY <1>5, <2>5, <3>2 DEF Added, Taken, Bound, GlobalOf
      <4>2. Bound(TypeGlobal(it.name))'
        BY <1>1, <2>1, <3>1, <4>1 DEF Bound, TablesOK
      <4> QED BY <1>7, <2>5, <3>2, <4>2 DEF ToDo
    <3>3. CASE it.kind = "global"
      <4>1. globals' = [globals EXCEPT ![it.name] = "module"]
        BY <2>5, <3>3 DEF Added, GlobalOf
      <4> QED BY <1>1, <2>1, <3>1, <3>3, <4>1 DEF There, TablesOK
    <3>4. CASE it.kind \in {"fun", "conv"}
      BY <2>5, <3>4 DEF Added, There
    <3> QED BY <2>1, <3>2, <3>3, <3>4
  <2>6. CASE it.kind = "type" /\ Bound(TypeGlobal(it.name)) /\ Half(it) = x
    <3>1. types' = types \cup {it.name}
      BY <2>1, <2>6 DEF Added
    <3> QED BY <2>2, <2>6, <3>1 DEF There, Bound
  <2> QED BY <1>1, <1>2, <2>2, <2>3, <2>4, <2>5, <2>6 DEF LoadOK, ToDo
<1> QED BY <1>1, <1>7, <1>8, <1>9 DEF LoadOK

(* Calls that add an item.                                                 *)
LEMMA ItemCalls ==
  ASSUME NEW p \in Programs, ModulesApart(p), ModulesInv(p), TablesOK', NEW t \in Threads, ItemCall(t)
  PROVE  ModulesInv(p)'
<1>1. /\ TablesOK /\ CallOK(t, p) /\ Stays(t) /\ useOwner \in Threads \cup {Nobody} /\ Nobody \notin Threads
      /\ In(t, "apply") /\ rest[t] # <<>> /\ todo[t] # <<>>
      /\ active' = active /\ loaded' = loaded /\ saved' = saved
  <2>1. TablesOK /\ CallOK(t, p) /\ useOwner \in Threads \cup {Nobody}
    BY DEF ModulesInv
  <2>2. Stays(t)
    BY <2>1, ControlStep DEF Step, ItemCall
  <2> QED BY <2>1, <2>2, ItemStep, TablesAssumption
<1>2. Item1(t) \in Range(rest[t]) /\ Range(rest[t]) = {Item1(t)} \cup Range(Tail(rest[t])) /\ rest[t] \in Seq(Item)
  BY <1>1, QueueFacts DEF TablesOK, Item1
<1>3. CASE EndCall(t, TRUE) /\ Unlock(t) /\ UNCHANGED tables /\ Taken(Item1(t), globals, convs)
  <2>1. ~Loads(t)
    BY <1>1, <1>2, <1>3 DEF CallOK, LoadOK
  <2>2. useOwner # t /\ useOwner' = useOwner
    BY <1>1, <1>3, <2>1 DEF CallOK, In, Unlock
  <2>3. CallOK(t, p)' /\ \A mod : ~LoadedBy(t, mod)'
    BY <1>1, <1>3, <2>2, EndedCall
  <2>4. \A mod : ~LoadedBy(t, mod)
    BY <2>2 DEF LoadedBy
  <2>5. \A mod : Spared(mod)
    BY <1>3, SameSpared
  <2>6. convs' = convs
    BY <1>3 DEF tables
  <2> QED BY <1>1, <2>2, <2>3, <2>4, <2>5, <2>6, StepKeeps
<1>4. CASE todo' = todo /\ step' = step /\ useOwner' = useOwner /\ Added(t, Item1(t))
  <2>1. \A mod : LoadedBy(t, mod)' <=> LoadedBy(t, mod)
    BY <1>4 DEF LoadedBy, In, Arg
  <2>2. ASSUME NEW mod \in LoadedIn(p), ~LoadedBy(t, mod) PROVE Spared(mod)
    <3>1. mod \in Modules
      BY DEF LoadedIn
    <3>2. \A it \in Range(Items[mod]) : ~Conflict(it, Item1(t))
      BY <1>1, <1>2, <2>2, ApplyApart
    <3> QED BY <1>1, <1>4, <3>1, <3>2, AddedTo DEF Spared
  <2>3. CallOK(t, p)'
    <3>1. \A it \in Range(rest'[t]) :
            it \in Range(Items[Arg(t)]) \/ \E whole \in Range(Items[Arg(t)]) : it = Half(whole)
      <4>1. \A it \in Range(rest[t]) :
              it \in Range(Items[Arg(t)]) \/ \E whole \in Range(Items[Arg(t)]) : it = Half(whole)
        BY <1>1 DEF CallOK
      <4>2. CASE rest'[t] = Tail(rest[t])
        BY <1>2, <4>1, <4>2
      <4>3. CASE rest'[t] = << Half(Item1(t)) >> \o Tail(rest[t]) /\ Item1(t).kind = "type"
        <5>1. Item1(t) \in Item /\ Half(Item1(t)) \in Item /\ Tail(rest[t]) \in Seq(Item)
          BY <1>1, <1>2, QueueFacts, HalfFacts DEF Item1
        <5>2. ASSUME NEW h \in Item, NEW s \in Seq(Item) PROVE Range(<<h>> \o s) = {h} \cup Range(s)
          BY NewHead
        <5>3. Range(rest'[t]) = {Half(Item1(t))} \cup Range(Tail(rest[t]))
          BY <4>3, <5>1, <5>2
        <5>4. Item1(t) \in Range(Items[Arg(t)])
          <6>1. Arg(t) \in Modules
            BY <1>1, ArgFacts DEF CallOK
          <6> QED BY <1>2, <4>1, <4>3, <6>1, ItemFacts, HalfFacts
        <5> QED BY <1>2, <4>1, <5>3, <5>4
      <4> QED BY <1>4, <4>2, <4>3 DEF Added
    <3>2. Loads(t)' <=> Loads(t)
      BY <1>4 DEF Loads, In
    <3>3. Loads(t) => LoadOK(t)'
      BY <1>1, <1>4, LoadGoesOn
    <3>4. Arg(t)' = Arg(t) /\ todo'[t] = todo[t] /\ step'[t] = step[t]
      BY <1>4 DEF Arg
    <3> QED BY <1>1, <1>4, <3>1, <3>2, <3>3, <3>4 DEF CallOK, In
  <2>4. convs \subseteq convs'
    BY <1>4 DEF Added, tables
  <2> QED BY <1>1, <1>4, <2>1, <2>2, <2>3, <2>4, StepKeeps
<1> QED BY <1>1, <1>3, <1>4, ItemStep

(* The module has been added.                                              *)
LEMMA LoadEnds ==
  ASSUME NEW p \in Programs, ModulesInv(p), TablesOK', NEW t \in Threads, ApplyEnd(t)
  PROVE  ModulesInv(p)'
<1>1. /\ TablesOK /\ CallOK(t, p) /\ Stays(t) /\ todo[t] # <<>>
      /\ useOwner \in Threads \cup {Nobody} /\ Nobody \notin Threads
  <2>1. TablesOK /\ CallOK(t, p) /\ useOwner \in Threads \cup {Nobody}
    BY DEF ModulesInv
  <2> QED BY <2>1, ControlStep, TablesAssumption DEF Step
<1>2. /\ In(t, "apply") /\ rest[t] = <<>> /\ EndCall(t, FALSE) /\ UNCHANGED tables /\ convs' = convs
      /\ active' = active /\ loaded' = loaded /\ saved' = saved
      /\ useOwner' = IF useOwner = t THEN Nobody ELSE useOwner
  BY DEF ApplyEnd, Unlock, tables
<1>3. /\ useOwner' \in Threads \cup {Nobody} /\ useOwner' # t
      /\ \A u \in Threads \ {t} : useOwner' = u <=> useOwner = u
  BY <1>1, <1>2
<1>4. CallOK(t, p)' /\ \A mod : ~LoadedBy(t, mod)'
  BY <1>1, <1>2, <1>3, EndedCall
<1>5. \A mod : Spared(mod)
  BY <1>2, SameSpared
<1>6. ASSUME NEW mod \in LoadedIn(p), LoadedBy(t, mod) PROVE Whole(mod, globals', funs', types', convs')
  <2>1. Loads(t) /\ Arg(t) = mod
    BY <1>1, <1>6 DEF CallOK, LoadedBy, In
  <2>2. Range(rest[t]) = {}
    BY <1>2 DEF Range
  <2>3. \A it \in Range(Items[mod]) : There(it, globals, funs, types, convs)
    BY <1>1, <2>1, <2>2 DEF CallOK, LoadOK, ToDo
  <2> QED BY <1>2, <2>3 DEF Whole, tables
<1> QED BY <1>1, <1>2, <1>3, <1>4, <1>5, <1>6, StepKeeps

(* Without the mutex no call loads: every module is whole or free.         *)
LEMMA NobodyLoads ==
  ASSUME NEW p \in Programs, ModulesInv(p), useOwner = Nobody
  PROVE  /\ Nobody \notin Threads /\ \A u \in Threads : ~Loads(u)
         /\ \A mod \in LoadedIn(p) :
              IF mod \in active THEN Whole(mod, globals, funs, types, convs) ELSE Free(mod, globals, convs)
<1>1. Nobody \notin Threads
  BY TablesAssumption
<1>2. \A u \in Threads : ~Loads(u)
  BY <1>1 DEF ModulesInv, CallOK, LoadOK
<1>3. \A mod : ~Loading(mod)
  BY <1>1 DEF Loading
<1> QED BY <1>1, <1>2, <1>3 DEF ModulesInv, ModuleOK

(* A module begins to load.                                                *)
LEMMA LoadBegins ==
  ASSUME NEW p \in Programs, ModulesApart(p), ModulesInv(p), TablesOK', NEW t \in Threads,
         LoadModule(t), ~(Arg(t) \in loaded /\ Arg(t) \in active)
  PROVE  ModulesInv(p)'
<1> DEFINE mod == Arg(t)
<1>1. /\ TablesOK /\ CallOK(t, p) /\ Stays(t) /\ todo[t] # <<>> /\ Head(todo[t]).op = "load_module"
      /\ useOwner = Nobody /\ useOwner' = t /\ Apply(t, mod) /\ UNCHANGED tables /\ saved' = saved
      /\ loaded' = loaded \cup {mod} /\ active' = active \cup {mod}
  <2>1. TablesOK /\ CallOK(t, p)
    BY DEF ModulesInv
  <2> QED BY <2>1, ControlStep DEF Step, LoadModule, Lock, At
<1>2. /\ Nobody \notin Threads /\ \A u \in Threads : ~Loads(u)
      /\ \A m \in LoadedIn(p) :
           IF m \in active THEN Whole(m, globals, funs, types, convs) ELSE Free(m, globals, convs)
  BY <1>1, NobodyLoads
<1>3. mod \in LoadedIn(p) /\ mod \in Modules
  BY <1>1, MadeFacts, ArgFacts
<1>4. todo' = todo /\ step'[t] = "apply" /\ rest'[t] = Items[mod]
  BY <1>1, <1>3, CallApplies
<1>5. mod \notin active
  BY DEF ModulesInv
<1>6. UNCHANGED <<globals, funs, types, convs>>
  BY <1>1 DEF tables
<1>7. CallOK(t, p)'
  <2>1. mod' = mod
    BY <1>4 DEF Arg
  <2>2. LoadOK(t)'
    <3>1. \A it \in Range(Items[mod]) : ~Taken(it, globals', convs')
      BY <1>2, <1>3, <1>5, <1>6 DEF Free
    <3>2. Distinct(Items[mod])
      BY <1>3 DEF ModulesApart, Distinct
    <3> QED BY <1>1, <1>4, <2>1, <3>1, <3>2 DEF LoadOK, ToDo
  <2> QED BY <1>1, <1>4, <2>1, <2>2 DEF CallOK, In, Loads
<1>8. ASSUME NEW u \in Threads PROVE CallOK(u, p)'
  <2>1. CASE u # t
    <3>1. CallOK(u, p) /\ ~Loads(u) /\ useOwner' # u /\ useOwner # u
      BY <1>1, <1>2, <2>1 DEF ModulesInv
    <3> QED BY <1>1, <2>1, <3>1, OtherCall DEF Stays
  <2> QED BY <1>7, <2>1
<1>9. ASSUME NEW m \in LoadedIn(p) PROVE ModuleOK(m)'
  <2>1. ModuleOK(m)
    BY DEF ModulesInv
  <2>2. CASE m = mod
    <3>1. m \in active' /\ Loading(m)'
      BY <1>1, <1>4, <2>2 DEF Loading, In, Arg
    <3> QED BY <1>1, <1>6, <2>1, <3>1 DEF ModuleOK
  <2>3. CASE m # mod
    BY <1>1, <1>2, <1>6, <2>1, <2>3 DEF ModuleOK
  <2> QED BY <2>2, <2>3
<1>10. active' \subseteq LoadedIn(p) \cap loaded' /\ saved'.active \subseteq LoadedIn(p) \cap loaded'
  BY <1>1, <1>3 DEF ModulesInv
<1> QED BY <1>1, <1>8, <1>9, <1>10 DEF ModulesInv

(* A state is saved or restored.                                           *)
LEMMA StateCalls ==
  ASSUME NEW p \in Programs, ModulesApart(p), ModulesInv(p), TablesOK', NEW t \in Threads,
         GetState(t) \/ SetState(t)
  PROVE  ModulesInv(p)'
<1>1. /\ TablesOK /\ CallOK(t, p) /\ Stays(t) /\ todo[t] # <<>> /\ Head(todo[t]).op \in {"get_state", "set_state"}
      /\ useOwner = Nobody /\ useOwner' = Nobody /\ EndCall(t, FALSE) /\ loaded' = loaded /\ convs' = convs
  <2>1. TablesOK /\ CallOK(t, p)
    BY DEF ModulesInv
  <2> QED BY <2>1, ControlStep DEF Step, GetState, SetState, At, tables
<1>2. /\ Nobody \notin Threads /\ \A u \in Threads : ~Loads(u)
      /\ \A mod \in LoadedIn(p) :
           IF mod \in active THEN Whole(mod, globals, funs, types, convs) ELSE Free(mod, globals, convs)
  BY <1>1, NobodyLoads
<1>3. ASSUME NEW u \in Threads PROVE CallOK(u, p)'
  <2>1. CASE u # t
    <3>1. CallOK(u, p) /\ ~Loads(u) /\ useOwner' # u /\ useOwner # u
      BY <1>1, <1>2, <2>1 DEF ModulesInv
    <3> QED BY <1>1, <2>1, <3>1, OtherCall DEF Stays
  <2>2. CallOK(t, p)'
    BY <1>1, <1>2, EndedCall
  <2> QED BY <2>1, <2>2
<1>4. CASE GetState(t)
  <2>1. /\ saved'.active = active /\ saved'.globals = globals /\ saved'.funs = funs /\ saved'.types = types
        /\ UNCHANGED <<active, globals, funs, types, convs>>
    BY <1>4 DEF GetState, StateNow, tables
  <2>2. ASSUME NEW mod \in LoadedIn(p) PROVE ModuleOK(mod)'
    <3>1. Free(mod, globals, convs) => Free(mod, globals, {})
      BY DEF Free, Taken
    <3> QED BY <1>2, <2>1, <3>1 DEF ModuleOK
  <2> QED BY <1>1, <1>3, <2>1, <2>2 DEF ModulesInv
<1>5. CASE SetState(t)
  <2>1. /\ saved' = saved /\ active' = saved.active /\ globals' = saved.globals /\ funs' = saved.funs
        /\ types' = saved.types /\ convs' = convs /\ Head(todo[t]).op = "set_state"
    BY <1>5 DEF SetState, At
  <2>2. ASSUME NEW mod \in LoadedIn(p) PROVE ModuleOK(mod)'
    <3>1. ModuleOK(mod)
      BY DEF ModulesInv
    <3>2. \A it \in Range(Items[mod]) : it.kind # "conv"
      BY <1>1, <2>1, MadeFacts DEF ModulesApart
    <3>3. Free(mod, saved.globals, {}) => Free(mod, saved.globals, convs)
      BY <3>2 DEF Free, Taken
    <3> QED BY <2>1, <3>1, <3>3 DEF ModuleOK
  <2> QED BY <1>1, <1>3, <2>1, <2>2 DEF ModulesInv
<1> QED BY <1>4, <1>5

LEMMA ModulesNext ==
  ASSUME NEW p \in Programs, ModulesApart(p), ModulesInv(p), [TablesNext]_tableVars
  PROVE  ModulesInv(p)'
<1>1. TablesOK /\ TablesOK'
  BY TablesNextOK DEF ModulesInv
<1>2. ASSUME NEW t \in Threads, Step(t) PROVE ModulesInv(p)'
  BY <1>1, <1>2, QuietCalls, NamingCalls, ItemCalls, LoadEnds, LoadBegins, StateCalls DEF Step, ItemCall
<1>3. CASE UNCHANGED tableVars
  <2>1. UNCHANGED <<todo, step, rest, useOwner, loaded, active, globals, funs, types, convs, saved>>
    BY <1>3 DEF tableVars
  <2>2. useOwner' \in Threads \cup {Nobody} /\ active' \subseteq LoadedIn(p) \cap loaded'
        /\ saved'.active \subseteq LoadedIn(p) \cap loaded'
    BY <2>1 DEF ModulesInv
  <2>3. ASSUME NEW t \in Threads PROVE CallOK(t, p)'
    BY <2>1 DEF ModulesInv, CallOK, In, Loads, LoadOK, ToDo, Arg, Bound
  <2>4. ASSUME NEW mod \in LoadedIn(p) PROVE ModuleOK(mod)'
    BY <2>1 DEF ModulesInv, ModuleOK, Loading, In, Arg
  <2> QED BY <1>1, <2>2, <2>3, <2>4 DEF ModulesInv
<1> QED BY <1>2, <1>3 DEF TablesNext

LEMMA WholeIsComplete ==
  ASSUME NEW p \in Programs, ModulesInv(p)
  PROVE  ActiveIsComplete
<1> SUFFICES ASSUME NEW mod \in active, ~Loading(mod), NEW i \in 1..Len(Items[mod])
             PROVE  Provided(Items[mod][i])
  BY DEF ActiveIsComplete
<1>1. mod \in LoadedIn(p) /\ mod \in Modules
  BY DEF ModulesInv, LoadedIn
<1>2. Items[mod] \in Seq(Item) /\ Items[mod][i] \in Range(Items[mod])
  BY <1>1, ItemFacts DEF Range
<1>3. There(Items[mod][i], globals, funs, types, convs)
  BY <1>1, <1>2 DEF ModulesInv, ModuleOK, Whole
<1>4. Items[mod][i].kind \in {"type", "fun", "conv", "global"}
  BY <1>1, <1>2, ItemFacts
<1> QED BY <1>3, <1>4 DEF Provided, There, Bound

(* Whoever finds a module loaded finds all of it: ActiveIsComplete, for    *)
(* every program whose modules are apart.                                  *)
THEOREM LoadedIsComplete ==
  ASSUME NEW p \in Programs, ModulesApart(p)
  PROVE  TablesSpec /\ todo = p => []ActiveIsComplete
<1>1. TablesInit /\ todo = p => ModulesInv(p)
  BY ModulesInit
<1>2. ModulesInv(p) /\ [TablesNext]_tableVars => ModulesInv(p)'
  BY ModulesNext
<1>3. ModulesInv(p) => ActiveIsComplete
  BY WholeIsComplete
<1> QED BY <1>1, <1>2, <1>3, PTL DEF TablesSpec
===============================================================================
