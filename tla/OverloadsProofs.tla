---------------------------- MODULE OverloadsProofs ----------------------------
(***************************************************************************)
(* The overloads of a name, for every set of functions and of argument     *)
(* lists: where add_function puts them, and in what order dispatch enters  *)
(* their bodies.                                                           *)
(*                                                                         *)
(* The order is proved in three parts: function_less_than is asymmetric,   *)
(* and with one number of parameters a strict weak order; inserting keeps  *)
(* neighbours in order, asymmetry being all it needs; and with one number  *)
(* of parameters neighbours in order are a sequence in order.              *)
(***************************************************************************)
EXTENDS Overloads, SequenceFacts

(* The order of parameter types is a strict weak one: equivalent types are    *)
(* the same but for reference and value.                                      *)
LEMMA TypesOrdered ==
  ASSUME NEW a \in ParamType, NEW b \in ParamType, NEW c \in ParamType
  PROVE  /\ TypeBefore(a, b) => ~TypeBefore(b, a) /\ ~SameType(a, b) /\ ~SameType(b, a)
         /\ ~SameType(a, b) => TypeBefore(a, b) \/ TypeBefore(b, a)
         /\ TypeBefore(a, c) => TypeBefore(a, b) \/ TypeBefore(b, c)
         /\ SameType(a, b) /\ TypeBefore(a, c) => TypeBefore(b, c)
         /\ SameType(b, c) /\ TypeBefore(a, b) => TypeBefore(a, c)
<1>1. /\ a.bare \in Bare /\ b.bare \in Bare /\ c.bare \in Bare
      /\ \A x \in Bare : Before[x] \in Nat
      /\ \A x, y \in Bare : Before[x] = Before[y] => x = y
      /\ AnyType # NumberType
  BY OverloadAssumption DEF ParamType
<1> QED BY <1>1 DEF TypeBefore, SameType, Const

(* The parameters of a function.                                             *)
LEMMA Parameters ==
  ASSUME NEW f \in FunctionRecord
  PROVE  /\ f.params \in Seq(ParamType) /\ Len(f.params) \in Nat /\ f.script \in BOOLEAN
         /\ \A i \in 1..Len(f.params) : f.params[i] \in ParamType
<1>1. f.params \in Seq(ParamType) /\ f.script \in BOOLEAN
  BY DEF FunctionRecord
<1> HIDE DEF FunctionRecord
<1> QED BY <1>1

(* The order of functions is asymmetric, whatever their parameters.          *)
LEMMA LessAsymmetric ==
  ASSUME NEW f \in FunctionRecord, NEW g \in FunctionRecord, FunctionLessThan(f, g)
  PROVE  ~FunctionLessThan(g, f)
<1>1. CASE ~f.script /\ ~g.script
  <2> SUFFICES ASSUME FunctionLessThan(g, f) PROVE FALSE
    OBVIOUS
  <2> DEFINE p == f.params  q == g.params
  <2>1. PICK i \in 1..Len(p) : i <= Len(q) /\ (\A j \in 1..(i - 1) : SameType(p[j], q[j])) /\ TypeBefore(p[i], q[i])
    BY <1>1 DEF FunctionLessThan
  <2>2. PICK k \in 1..Len(q) : k <= Len(p) /\ (\A j \in 1..(k - 1) : SameType(q[j], p[j])) /\ TypeBefore(q[k], p[k])
    BY <1>1 DEF FunctionLessThan
  <2>3. /\ Len(p) \in Nat /\ Len(q) \in Nat
        /\ \A j \in 1..Len(p) : p[j] \in ParamType
        /\ \A j \in 1..Len(q) : q[j] \in ParamType
    BY Parameters
  <2> HIDE DEF p, q
  <2>4. i \in Int /\ k \in Int /\ i \in 1..Len(q) /\ k \in 1..Len(p)
    BY <2>1, <2>2, <2>3
  <2>5. p[i] \in ParamType /\ q[i] \in ParamType /\ p[k] \in ParamType /\ q[k] \in ParamType
    BY <2>3, <2>4
  <2>6. CASE i = k
    BY <2>1, <2>2, <2>5, <2>6, TypesOrdered
  <2>7. CASE i < k
    <3>1. SameType(q[i], p[i])
      BY <2>2, <2>4, <2>7
    <3> QED BY <2>1, <2>5, <3>1, TypesOrdered
  <2>8. CASE k < i
    <3>1. SameType(p[k], q[k])
      BY <2>1, <2>4, <2>8
    <3> QED BY <2>2, <2>5, <3>1, TypesOrdered
  <2> QED BY <2>4, <2>6, <2>7, <2>8
<1>2. CASE f.script \/ g.script
  BY <1>2, Parameters DEF FunctionLessThan
<1> QED BY <1>1, <1>2

(* With one number of parameters it is a strict weak order, too.              *)
LEMMA LessSplit ==
  ASSUME NEW f \in FunctionRecord, NEW g \in FunctionRecord, NEW h \in FunctionRecord,
         ~f.script /\ ~g.script => Len(f.params) = Len(g.params),
         ~g.script /\ ~h.script => Len(g.params) = Len(h.params),
         FunctionLessThan(f, h)
  PROVE  FunctionLessThan(f, g) \/ FunctionLessThan(g, h)
<1>1. CASE ~f.script /\ ~g.script /\ ~h.script
  <2> DEFINE p == f.params  q == g.params  r == h.params  n == Len(p)
             D == {j \in 1..n : ~SameType(p[j], q[j]) \/ ~SameType(q[j], r[j])}
  <2>1. PICK i \in 1..n : i <= Len(r) /\ (\A j \in 1..(i - 1) : SameType(p[j], r[j])) /\ TypeBefore(p[i], r[i])
    BY <1>1 DEF FunctionLessThan
  <2>2. /\ n \in Nat /\ n = Len(q) /\ n = Len(r)
        /\ \A j \in 1..n : p[j] \in ParamType /\ q[j] \in ParamType /\ r[j] \in ParamType
    BY <1>1, Parameters
  <2> HIDE DEF p, q, r, n
  <2>3. i \in D
    <3>1. ASSUME SameType(p[i], q[i]), SameType(q[i], r[i]) PROVE FALSE
      <4>1. SameType(p[i], r[i])
        BY <3>1 DEF SameType
      <4> QED BY <2>1, <2>2, <4>1, TypesOrdered
    <3> QED BY <3>1
  <2>4. PICK m \in D : \A k \in D : m <= k
    <3>1. D \in SUBSET Nat /\ D # {}
      BY <2>2, <2>3
    <3> HIDE DEF D
    <3> QED BY <3>1, LeastOf
  <2>5. m \in 1..n /\ m <= i /\ \A j \in 1..(m - 1) : SameType(p[j], q[j]) /\ SameType(q[j], r[j])
    <3>1. m \in 1..n /\ m <= i /\ m \in Nat /\ i \in Nat
      BY <2>2, <2>3, <2>4
    <3>2. ASSUME NEW j \in 1..(m - 1) PROVE SameType(p[j], q[j]) /\ SameType(q[j], r[j])
      <4>1. j \in 1..n /\ ~(m <= j)
        BY <2>2, <3>1
      <4>2. j \notin D
        BY <2>4, <4>1
      <4> QED BY <4>1, <4>2
    <3> QED BY <3>1, <3>2
  <2>6. p[m] \in ParamType /\ q[m] \in ParamType /\ r[m] \in ParamType
    BY <2>2, <2>5
  <2>7. TypeBefore(p[m], q[m]) \/ TypeBefore(q[m], r[m])
    <3>1. CASE m = i
      BY <2>1, <2>6, <3>1, TypesOrdered
    <3>2. CASE m # i
      <4>1. m \in 1..(i - 1)
        BY <2>2, <2>5, <3>2
      <4>2. SameType(p[m], r[m])
        BY <2>1, <4>1
      <4>3. ~SameType(p[m], q[m]) \/ ~SameType(q[m], r[m])
        BY <2>4
      <4>4. ~SameType(p[m], q[m]) /\ SameType(r[m], p[m])
        BY <4>2, <4>3 DEF SameType
      <4> QED BY <2>6, <4>2, <4>4, TypesOrdered
    <3> QED BY <3>1, <3>2
  <2>8. m <= Len(p) /\ m <= Len(q) /\ m <= Len(r) /\ m \in 1..Len(p) /\ m \in 1..Len(q)
    BY <2>2, <2>5 DEF n
  <2> QED BY <1>1, <2>5, <2>7, <2>8 DEF FunctionLessThan, p, q, r
<1>2. CASE f.script \/ g.script \/ h.script
  BY <1>2, Parameters DEF FunctionLessThan
<1> QED BY <1>1, <1>2

(* Of two types, what takes no more than the other comes first.              *)
LEMMA SpecificBefore ==
  ASSUME NEW a \in ParamType, NEW b \in ParamType, AtLeastAsSpecific(a, b), ~SameType(a, b)
  PROVE  TypeBefore(a, b)
<1>1. AnyType # NumberType
  BY OverloadAssumption
<1>2. CASE a.bare = b.bare
  BY <1>1, <1>2 DEF AtLeastAsSpecific, SameType, TypeBefore, Const
<1>3. CASE a.bare # b.bare
  BY <1>1, <1>3 DEF AtLeastAsSpecific, TypeBefore
<1> QED BY <1>2, <1>3

(* What is more specific is less.                                             *)
LEMMA MoreIsLess ==
  ASSUME NEW f \in FunctionRecord, NEW g \in FunctionRecord, MoreSpecific(f, g)
  PROVE  FunctionLessThan(f, g)
<1>1. CASE ~f.script /\ ~g.script
  <2> DEFINE p == f.params  q == g.params  n == Len(p)
             D == {k \in 1..n : ~SameType(p[k], q[k])}
  <2>1. n = Len(q) /\ (\A k \in 1..n : AtLeastAsSpecific(p[k], q[k])) /\ D # {}
    BY <1>1 DEF MoreSpecific
  <2>2. n \in Nat /\ \A j \in 1..n : p[j] \in ParamType /\ q[j] \in ParamType
    BY <2>1, Parameters
  <2> HIDE DEF p, q, n
  <2>3. PICK m \in D : \A k \in D : m <= k
    <3>1. D \in SUBSET Nat
      BY <2>2
    <3> HIDE DEF D
    <3> QED BY <2>1, <3>1, LeastOf
  <2>4. m \in 1..n /\ \A j \in 1..(m - 1) : SameType(p[j], q[j])
    <3>1. m \in 1..n
      OBVIOUS
    <3>2. ASSUME NEW j \in 1..(m - 1) PROVE SameType(p[j], q[j])
      <4>1. j \in 1..n /\ ~(m <= j)
        BY <2>2, <3>1
      <4> QED BY <2>3, <4>1
    <3> QED BY <3>1, <3>2
  <2>5. TypeBefore(p[m], q[m])
    <3>1. p[m] \in ParamType /\ q[m] \in ParamType /\ AtLeastAsSpecific(p[m], q[m])
      BY <2>1, <2>2, <2>4
    <3>2. ~SameType(p[m], q[m])
      OBVIOUS
    <3> QED BY <3>1, <3>2, SpecificBefore
  <2> QED BY SMTT(20), <1>1, <2>1, <2>2, <2>4, <2>5 DEF FunctionLessThan, p, q, n
<1>2. CASE f.script \/ g.script
  BY <1>2, Parameters DEF FunctionLessThan, MoreSpecific
<1> QED BY <1>1, <1>2

(* No overload stands right behind one that it is less than.                 *)
Chain(s) == \A k \in 1..(Len(s) - 1) : ~FunctionLessThan(s[k + 1], s[k])

(* One step of the sort leaves no overload right behind one it is less than. *)
LEMMA InsertKeepsChain ==
  ASSUME NEW s \in Seq(FunctionRecord), NEW f \in FunctionRecord, Chain(s)
  PROVE  Insert(s, f) \in Seq(FunctionRecord) /\ Len(Insert(s, f)) = Len(s) + 1 /\ Chain(Insert(s, f))
<1> HIDE DEF FunctionRecord
<1>1. Len(s) \in Nat /\ \A i \in 1..Len(s) : s[i] \in FunctionRecord
  OBVIOUS
<1> DEFINE R == FunctionRecord
<1> HIDE DEF R
<1>2. CASE s # <<>> /\ FunctionLessThan(f, s[1])
  <2> DEFINE r == <<f>> \o s
  <2>1. Insert(s, f) = r
    BY <1>2 DEF Insert
  <2>2. 1 \in 1..Len(s)
    BY <1>2
  <2>3. r \in Seq(FunctionRecord) /\ Len(r) = Len(s) + 1 /\ r[1] = f /\ \A i \in 2..(Len(s) + 1) : r[i] = s[i - 1]
    OBVIOUS
  <2> HIDE DEF r
  <2>4. ASSUME NEW k \in 1..(Len(r) - 1) PROVE ~FunctionLessThan(r[k + 1], r[k])
    <3>1. CASE k = 1
      <4>1. r[k + 1] = s[1] /\ r[k] = f
        <5>1. 1 + 1 \in 2..(Len(s) + 1) /\ (1 + 1) - 1 = 1
          BY <1>1, <2>2
        <5> QED BY <2>3, <3>1, <5>1
      <4>2. ~FunctionLessThan(s[1], f)
        BY <1>1, <1>2, <2>2, LessAsymmetric
      <4> QED BY <4>1, <4>2
    <3>2. CASE k # 1
      <4>1. /\ k - 1 \in 1..(Len(s) - 1) /\ k + 1 \in 2..(Len(s) + 1) /\ k \in 2..(Len(s) + 1)
            /\ (k + 1) - 1 = k /\ (k - 1) + 1 = k
        BY <1>1, <2>3, <3>2
      <4>2. r[k + 1] = s[k] /\ r[k] = s[k - 1]
        BY <2>3, <4>1
      <4>3. ~FunctionLessThan(s[(k - 1) + 1], s[k - 1])
        BY <4>1 DEF Chain
      <4> QED BY <4>1, <4>2, <4>3
    <3> QED BY <3>1, <3>2
  <2> QED BY <2>1, <2>3, <2>4 DEF Chain
<1>3. CASE ~(s # <<>> /\ FunctionLessThan(f, s[1]))
  <2> DEFINE NotAfter == {0} \cup { i \in 1..Len(s) : ~FunctionLessThan(f, s[i]) }
             m == CHOOSE i \in NotAfter : \A k \in NotAfter : k <= i
             r == InsertAt(s, 1 + m, f)
  <2>1. Insert(s, f) = r
    BY <1>3 DEF Insert
  <2>2. m \in NotAfter /\ \A k \in NotAfter : k <= m
    <3>1. NotAfter \in SUBSET (0..Len(s)) /\ NotAfter # {}
      BY <1>1
    <3> HIDE DEF NotAfter
    <3>2. \E i \in NotAfter : \A k \in NotAfter : k <= i
      BY <1>1, <3>1, GreatestOf
    <3> QED BY <3>2
  <2> HIDE DEF m
  <2>3. m \in 0..Len(s)
    BY <1>1, <2>2
  <2>4. m \in 1..Len(s) => ~FunctionLessThan(f, s[m])
    BY <2>2
  <2>5. ASSUME m + 1 \in 1..Len(s) PROVE FunctionLessThan(f, s[m + 1])
    <3> SUFFICES ASSUME ~FunctionLessThan(f, s[m + 1]) PROVE FALSE
      OBVIOUS
    <3>1. m + 1 \in NotAfter
      BY <2>5
    <3>2. m + 1 <= m
      BY <2>2, <3>1
    <3> QED BY <2>3, <3>2
  <2> HIDE DEF NotAfter
  <2>6. /\ r \in Seq(FunctionRecord)
        /\ Len(r) = Len(s) + 1
        /\ \A i \in 1..m : r[i] = s[i]
        /\ r[m + 1] = f
        /\ \A i \in (m + 2)..(Len(s) + 1) : r[i] = s[i - 1]
    <3> DEFINE F == FunctionRecord
    <3>1. s \in Seq(F) /\ f \in F
      OBVIOUS
    <3> HIDE DEF F
    <3>2. /\ InsertAt(s, 1 + m, f) \in Seq(F)
          /\ Len(InsertAt(s, 1 + m, f)) = Len(s) + 1
          /\ \A i \in 1..m : InsertAt(s, 1 + m, f)[i] = s[i]
          /\ InsertAt(s, 1 + m, f)[m + 1] = f
          /\ \A i \in (m + 2)..(Len(s) + 1) : InsertAt(s, 1 + m, f)[i] = s[i - 1]
      BY <2>3, <3>1, InsertAtFacts
    <3> QED BY <3>2 DEF F
  <2> HIDE DEF r
  <2>7. ASSUME NEW k \in 1..(Len(r) - 1) PROVE ~FunctionLessThan(r[k + 1], r[k])
    <3>0. m \in Nat /\ k \in Nat /\ m <= Len(s) /\ k <= Len(s)
      BY <1>1, <2>3, <2>6
    <3>1. CASE k < m
      <4>1. k \in 1..(Len(s) - 1) /\ k \in 1..m /\ k + 1 \in 1..m
        BY <1>1, <3>0, <3>1
      <4>2. r[k + 1] = s[k + 1] /\ r[k] = s[k]
        BY <2>6, <4>1
      <4> QED BY <4>1, <4>2 DEF Chain
    <3>2. CASE k = m
      <4>1. k \in 1..m /\ m \in 1..Len(s)
        BY <1>1, <3>0, <3>2
      <4>2. r[k + 1] = f /\ r[k] = s[m]
        BY <2>6, <3>2, <4>1
      <4> QED BY <2>4, <4>1, <4>2
    <3>3. CASE k = m + 1
      <4>1. k + 1 \in (m + 2)..(Len(s) + 1) /\ (k + 1) - 1 = m + 1 /\ m + 1 \in 1..Len(s)
        BY <1>1, <3>0, <3>3
      <4>2. r[k + 1] = s[m + 1] /\ r[k] = f
        BY <2>6, <3>3, <4>1
      <4>3. FunctionLessThan(f, s[m + 1]) /\ s[m + 1] \in FunctionRecord
        BY <1>1, <2>5, <4>1
      <4> QED BY <4>2, <4>3, LessAsymmetric
    <3>4. CASE k > m + 1
      <4>1. /\ k - 1 \in 1..(Len(s) - 1) /\ k + 1 \in (m + 2)..(Len(s) + 1) /\ k \in (m + 2)..(Len(s) + 1)
            /\ (k + 1) - 1 = k /\ (k - 1) + 1 = k
        BY <1>1, <3>0, <3>4
      <4>2. r[k + 1] = s[k] /\ r[k] = s[k - 1]
        BY <2>6, <4>1
      <4>3. ~FunctionLessThan(s[(k - 1) + 1], s[k - 1])
        BY <4>1 DEF Chain
      <4> QED BY <4>1, <4>2, <4>3
    <3> QED BY <3>0, <3>1, <3>2, <3>3, <3>4
  <2> QED BY <2>1, <2>6, <2>7 DEF Chain
<1> QED BY <1>2, <1>3

(* Sorting a sequence element by element is a function of its length.        *)
LEMMA SortedExists ==
  ASSUME NEW s, NEW m \in Nat
  PROVE  \E g : g = [k \in 0..m |-> IF k = 0 THEN <<>> ELSE Insert(g[k - 1], s[k])]
<1> DEFINE T == {n \in Nat : \E g : g = [k \in 0..n |-> IF k = 0 THEN <<>> ELSE Insert(g[k - 1], s[k])]}
<1>1. 0 \in T
  <2> DEFINE g == [k \in 0..0 |-> <<>>]
  <2>1. g = [k \in 0..0 |-> IF k = 0 THEN <<>> ELSE Insert(g[k - 1], s[k])]
    OBVIOUS
  <2> HIDE DEF g
  <2> QED BY <2>1
<1>2. ASSUME NEW n \in T PROVE n + 1 \in T
  <2>1. PICK g : g = [k \in 0..n |-> IF k = 0 THEN <<>> ELSE Insert(g[k - 1], s[k])]
    OBVIOUS
  <2> DEFINE h == [k \in 0..(n + 1) |-> IF k <= n THEN g[k] ELSE Insert(g[n], s[n + 1])]
  <2>0. n \in Nat
    OBVIOUS
  <2> HIDE DEF T
  <2>2. ASSUME NEW k \in 0..(n + 1) PROVE h[k] = IF k = 0 THEN <<>> ELSE Insert(h[k - 1], s[k])
    <3>1. CASE k = 0
      <4>1. 0 \in 0..n /\ 0 \in 0..(n + 1) /\ 0 <= n
        BY <2>0
      <4>2. h[0] = g[0]
        BY <4>1
      <4>3. g[0] = <<>>
        BY <2>1, <4>1
      <4> QED BY <3>1, <4>2, <4>3
    <3>2. CASE k # 0 /\ k <= n
      <4>1. k \in 0..n /\ k - 1 \in 0..n /\ k - 1 \in 0..(n + 1) /\ k - 1 <= n
        BY <2>0, <3>2
      <4>2. h[k] = g[k] /\ h[k - 1] = g[k - 1]
        BY <3>2, <4>1
      <4>3. g[k] = Insert(g[k - 1], s[k])
        BY <2>1, <3>2, <4>1
      <4> QED BY <3>2, <4>2, <4>3
    <3>3. CASE k = n + 1
      <4>1. n \in 0..(n + 1) /\ n <= n /\ ~(n + 1 <= n) /\ n + 1 # 0 /\ k - 1 = n
        BY <2>0, <3>3
      <4>2. h[n] = g[n] /\ h[k] = Insert(g[n], s[n + 1])
        BY <3>3, <4>1
      <4> QED BY <3>3, <4>1, <4>2
    <3> QED BY <2>0, <3>1, <3>2, <3>3
  <2>3. h = [k \in 0..(n + 1) |-> h[k]]
    OBVIOUS
  <2> HIDE DEF h
  <2>4. h = [k \in 0..(n + 1) |-> IF k = 0 THEN <<>> ELSE Insert(h[k - 1], s[k])]
    BY <2>2, <2>3
  <2> QED BY <2>0, <2>4 DEF T
<1>3. T \in SUBSET Nat
  OBVIOUS
<1> HIDE DEF T
<1>4. m \in T
  BY <1>1, <1>2, <1>3, SetInduction
<1> QED BY <1>4 DEF T

(* And so does the whole sort, by induction over the overloads sorted.       *)
LEMMA SortKeepsChain ==
  ASSUME NEW s \in Seq(FunctionRecord)
  PROVE  StableSort(s) \in Seq(FunctionRecord) /\ Len(StableSort(s)) = Len(s) /\ Chain(StableSort(s))
<1> DEFINE n == Len(s)
           g == CHOOSE f : f = [k \in 0..n |-> IF k = 0 THEN <<>> ELSE Insert(f[k - 1], s[k])]
           Q(k) == g[k] \in Seq(FunctionRecord) /\ Len(g[k]) = k /\ Chain(g[k])
           T == {k \in Nat : k <= n => Q(k)}
<1>1. StableSort(s) = g[n]
  BY DEF StableSort
<1> DEFINE F == FunctionRecord
<1>2. n \in Nat /\ \A k \in 1..n : s[k] \in FunctionRecord
  <2>1. s \in Seq(F)
    OBVIOUS
  <2> HIDE DEF F
  <2>2. Len(s) \in Nat /\ \A k \in 1..Len(s) : s[k] \in F
    BY <2>1
  <2> QED BY <2>2 DEF F
<1> HIDE DEF n
<1>3. g = [k \in 0..n |-> IF k = 0 THEN <<>> ELSE Insert(g[k - 1], s[k])]
  <2>1. \E f : f = [k \in 0..n |-> IF k = 0 THEN <<>> ELSE Insert(f[k - 1], s[k])]
    BY <1>2, SortedExists
  <2> QED BY <2>1
<1> HIDE DEF g
<1>4. Q(0)
  <2>1. 0 \in 0..n
    BY <1>2
  <2>2. g[0] = <<>>
    BY <1>3, <2>1
  <2>3. <<>> \in Seq(F) /\ Len(<<>>) = 0 /\ Chain(<<>>)
    BY DEF Chain
  <2> QED BY <2>2, <2>3
<1>5. ASSUME NEW k \in Nat, k + 1 <= n, Q(k) PROVE Q(k + 1)
  <2>1. k + 1 \in 0..n /\ k + 1 # 0 /\ (k + 1) - 1 = k /\ k + 1 \in 1..n
    BY <1>2, <1>5
  <2>2. g[k + 1] = Insert(g[k], s[k + 1])
    BY <1>3, <2>1
  <2>3. s[k + 1] \in FunctionRecord
    BY <1>2, <2>1
  <2> QED BY <1>5, <2>2, <2>3, InsertKeepsChain
<1>6. n \in T
  <2>1. 0 \in T
    BY <1>4
  <2>2. ASSUME NEW k \in T PROVE k + 1 \in T
    <3>1. k \in Nat /\ (k <= n => Q(k))
      OBVIOUS
    <3> HIDE DEF Q
    <3>2. k + 1 <= n => k <= n
      BY <1>2, <3>1
    <3> QED BY <1>5, <3>1, <3>2
  <2>3. T \in SUBSET Nat
    OBVIOUS
  <2> HIDE DEF T
  <2>4. T = Nat
    BY <2>1, <2>2, <2>3, SetInduction
  <2> QED BY <1>2, <2>4
<1> HIDE DEF Q
<1>7. Q(n)
  BY <1>2, <1>6
<1> QED BY <1>1, <1>7 DEF Q, n

(* With one number of parameters, no overload in a chain stands behind one   *)
(* that it is less than, however far.                                        *)
LEMMA ChainSorted ==
  ASSUME NEW s \in Seq(FunctionRecord), Chain(s), OneArity(s)
  PROVE  Sorted(s)
<1> DEFINE F == FunctionRecord  n == Len(s)
           T == {d \in Nat : \A i \in 1..n : i + d + 1 <= n => ~FunctionLessThan(s[i + d + 1], s[i])}
<1>1. n \in Nat /\ \A k \in 1..n : s[k] \in FunctionRecord
  <2>1. s \in Seq(F)
    OBVIOUS
  <2> HIDE DEF F
  <2>2. Len(s) \in Nat /\ \A k \in 1..Len(s) : s[k] \in F
    BY <2>1
  <2> QED BY <2>2 DEF F
<1>2. \A i, j \in 1..n : ~s[i].script /\ ~s[j].script => Len(s[i].params) = Len(s[j].params)
  BY DEF OneArity
<1>3. \A k \in 1..(n - 1) : ~FunctionLessThan(s[k + 1], s[k])
  BY DEF Chain
<1> HIDE DEF n
<1>4. 0 \in T
  <2>1. ASSUME NEW i \in 1..n, i + 0 + 1 <= n PROVE ~FunctionLessThan(s[i + 0 + 1], s[i])
    <3>1. i \in 1..(n - 1) /\ i + 0 + 1 = i + 1
      BY <1>1, <2>1
    <3> QED BY <1>3, <3>1
  <2> QED BY <2>1
<1>5. ASSUME NEW d \in T PROVE d + 1 \in T
  <2>0. d \in Nat /\ \A i \in 1..n : i + d + 1 <= n => ~FunctionLessThan(s[i + d + 1], s[i])
    OBVIOUS
  <2>1. ASSUME NEW i \in 1..n, i + (d + 1) + 1 <= n PROVE ~FunctionLessThan(s[i + (d + 1) + 1], s[i])
    <3> DEFINE m == i + d + 1
    <3>1. m \in 1..(n - 1) /\ m \in 1..n /\ m + 1 \in 1..n /\ m <= n /\ i + (d + 1) + 1 = m + 1
      BY <1>1, <2>0, <2>1
    <3>2. ~FunctionLessThan(s[m], s[i])
      BY <2>0, <3>1
    <3> HIDE DEF m
    <3>3. ~FunctionLessThan(s[m + 1], s[m])
      BY <1>3, <3>1
    <3>4. s[m + 1] \in FunctionRecord /\ s[m] \in FunctionRecord /\ s[i] \in FunctionRecord
      BY <1>1, <3>1
    <3>5. ~FunctionLessThan(s[m + 1], s[i])
      BY <1>2, <3>1, <3>2, <3>3, <3>4, LessSplit
    <3> QED BY <3>1, <3>5
  <2> QED BY <2>0, <2>1
<1>6. T = Nat
  <2>1. T \in SUBSET Nat
    OBVIOUS
  <2> HIDE DEF T
  <2> QED BY <1>4, <1>5, <2>1, SetInduction
<1>7. ASSUME NEW i \in 1..n, NEW j \in 1..n, i < j, MoreSpecific(s[j], s[i]) PROVE FALSE
  <2> DEFINE d == j - i - 1
  <2>1. d \in Nat /\ i + d + 1 = j /\ j <= n
    BY <1>1, <1>7
  <2>2. d \in T
    BY <1>6, <2>1
  <2>3. ~FunctionLessThan(s[j], s[i])
    BY <2>1, <2>2
  <2>4. s[i] \in FunctionRecord /\ s[j] \in FunctionRecord
    BY <1>1
  <2> QED BY <1>7, <2>3, <2>4, MoreIsLess
<1> QED BY <1>7 DEF Sorted, n

(* The overloads are functions, and in a chain.                              *)
TableInv == table \in Seq(FunctionRecord) /\ Chain(table)

(* It holds at the start and each step keeps it: add_function sorts.         *)
LEMMA TableInit == Init => TableInv
<1> DEFINE F == FunctionRecord
<1> SUFFICES ASSUME Init PROVE table \in Seq(F) /\ Chain(table)
  BY DEF TableInv
<1>1. table = <<>>
  BY DEF Init
<1> HIDE DEF F
<1> QED BY <1>1 DEF Chain

LEMMA TableStep == TableInv /\ [Next]_vars => TableInv'
<1> SUFFICES ASSUME TableInv, [Next]_vars PROVE TableInv'
  OBVIOUS
<1>1. ASSUME NEW f \in Pool, AddFunction(f) PROVE TableInv'
  <2> DEFINE F == FunctionRecord  s == Append(table, f)
  <2>1. table \in Seq(F) /\ f \in F
    BY OverloadAssumption DEF TableInv
  <2> HIDE DEF F
  <2>2. s \in Seq(F)
    BY <2>1
  <2> HIDE DEF s
  <2>3. StableSort(s) \in Seq(FunctionRecord) /\ Chain(StableSort(s))
    BY <2>2, SortKeepsChain DEF F
  <2>4. table' = StableSort(s)
    BY <1>1 DEF AddFunction, s
  <2> QED BY <2>3, <2>4 DEF TableInv, Chain
<1>2. CASE UNCHANGED table
  BY <1>2 DEF TableInv, Chain
<1>3. ASSUME NEW t \in Threads, NEW args \in Args, StartCall(t, args) \/ CallDirectly(t, args)
      PROVE  UNCHANGED table
  BY <1>3 DEF StartCall, CallDirectly
<1>4. ASSUME NEW t \in Threads, TryOverload(t) \/ NextRound(t) \/ Scan(t) \/ Convert(t) \/ Finish(t)
      PROVE  UNCHANGED table
  BY <1>4 DEF TryOverload, NextRound, Scan, Convert, Finish
<1> QED BY <1>1, <1>2, <1>3, <1>4 DEF Next, vars

(* In every behaviour, when the C++ overloads of a name have one number of   *)
(* parameters, none stands behind a less specific one (add_function): sorted *)
(* neighbours are, and with one number of parameters what is not less is     *)
(* transitive, so that neighbours tell of all.                               *)
THEOREM AddedInOrder == Spec => []OneAritySorted
<1>1. TableInv => OneAritySorted
  BY ChainSorted DEF TableInv, OneAritySorted
<1> QED BY <1>1, TableInit, TableStep, PTL DEF Spec

-----------------------------------------------------------------------------
(* What an overload accepts passes the filter, and it is tried in a round    *)
(* there is.                                                                 *)
LEMMA AcceptsIsTried ==
  ASSUME NEW f \in FunctionRecord, NEW args \in Seq(ArgValue), NEW holding, Accepts(f, args, holding)
  PROVE  RightArity(f, args) /\ Filter(f, args) /\ Diffs(f, args) \in 0..Len(args)
<1>1. RightArity(f, args)
  BY DEF Accepts
<1>2. Filter(f, args)
  BY DEF Accepts, Filter, MatchesScript, Casts, Compare
<1>3. Diffs(f, args) \in 0..Len(args)
  <2> DEFINE A == ArgValue  D == { k \in 1..Len(args) : f.params[k].bare # args[k].bare }
  <2>1. Len(args) \in Nat
    <3>1. args \in Seq(A)
      OBVIOUS
    <3> HIDE DEF A
    <3> QED BY <3>1
  <2>2. Cardinality(D) \in 0..Len(args)
    <3>1. IsFiniteSet(1..Len(args)) /\ Cardinality(1..Len(args)) = Len(args)
      BY SMTT(20), <2>1, FS_Interval
    <3>2. D \in SUBSET (1..Len(args))
      OBVIOUS
    <3> HIDE DEF D
    <3>3. IsFiniteSet(D) /\ Cardinality(D) <= Cardinality(1..Len(args))
      BY <3>1, <3>2, FS_Subset
    <3>4. Cardinality(D) \in Nat
      BY <3>3, FS_CardinalityType
    <3> QED BY <2>1, <3>1, <3>3, <3>4
  <2> QED BY <2>1, <2>2 DEF Diffs
<1> QED BY <1>1, <1>2, <1>3

(* Accepting, Better and RunInOrder of the call with these overloads,        *)
(* arguments and bodies entered, when the guards in o hold.                  *)
Fit(funs, args, o) == { k \in 1..Len(funs) : Accepts(funs[k], args, o) }
Earlier(funs, args, k, l) ==
  Diffs(funs[k], args) < Diffs(funs[l], args) \/ (Diffs(funs[k], args) = Diffs(funs[l], args) /\ k < l)
InOrder(funs, args, ran, o) ==
  \A k \in ran \cap Fit(funs, args, o) : \A l \in Fit(funs, args, o) : Earlier(funs, args, l, k) => l \in ran

(* Every overload that accepts and that dispatch's loops have passed was     *)
(* entered, and when the loops are over all that accept.                     *)
Passed(c, k) ==
  Diffs(c.funs[k], c.args) < c.i \/ (Diffs(c.funs[k], c.args) = c.i /\ k < c.j)
Good(c, o) ==
  /\ InOrder(c.funs, c.args, c.ran, o)
  /\ c.phase = "trying" => \A k \in Fit(c.funs, c.args, o) : Passed(c, k) => k \in c.ran
  /\ c.phase \in {"scanning", "failed"} => Fit(c.funs, c.args, o) \subseteq c.ran

CallsInv == calls \in [Threads -> Call] /\ \A t \in Threads : Good(calls[t], open)

(* The call of one thread changes, and the guards do not.                    *)
LEMMA BecomesGood ==
  ASSUME CallsInv, NEW t \in Threads, NEW d \in Call, Good(d, open), Becomes(t, d), open' = open
  PROVE  CallsInv'
<1>1. calls \in [Threads -> Call] /\ \A u \in Threads : Good(calls[u], open)
  BY DEF CallsInv
<1>2. calls' = [calls EXCEPT ![t] = d]
  BY DEF Becomes
<1>3. calls' \in [Threads -> Call]
  BY <1>1, <1>2
<1>4. ASSUME NEW u \in Threads PROVE Good(calls'[u], open')
  <2>1. calls'[u] = d \/ calls'[u] = calls[u]
    BY <1>1, <1>2
  <2> QED BY <1>1, <2>1
<1> QED BY <1>3, <1>4 DEF CallsInv

(* After the loops, any further body keeps the order.                        *)
LEMMA ScannedGood ==
  ASSUME NEW c, NEW d, NEW o, Good(c, o), c.phase = "scanning", d.phase # "trying",
         d.funs = c.funs, d.args = c.args, c.ran \subseteq d.ran
  PROVE  Good(d, o)
BY DEF Good, InOrder

(* A call that has entered none yet.                                         *)
LEMMA FreshGood ==
  ASSUME NEW c, NEW o, c.ran = {}, c.phase \notin {"trying", "scanning", "failed"}
  PROVE  Good(c, o)
BY DEF Good, InOrder

(* What the record of a call holds.                                          *)
LEMMA CallFields ==
  ASSUME NEW c \in Call
  PROVE  /\ c.funs \in Seq(FunctionRecord) /\ c.args \in Seq(ArgValue)
         /\ Len(c.funs) \in Nat /\ \A k \in 1..Len(c.funs) : c.funs[k] \in FunctionRecord
         /\ Len(c.args) \in Nat /\ c.i \in Nat /\ c.j \in Nat /\ c.match \in Nat /\ c.ran \in SUBSET Nat
<1> DEFINE F == FunctionRecord  A == ArgValue
<1>1. c.funs \in Seq(F) /\ c.args \in Seq(A) /\ c.i \in Nat /\ c.j \in Nat /\ c.match \in Nat /\ c.ran \in SUBSET Nat
  BY DEF Call
<1> HIDE DEF F, A
<1>2. Len(c.funs) \in Nat /\ (\A k \in 1..Len(c.funs) : c.funs[k] \in F) /\ Len(c.args) \in Nat
  BY <1>1
<1> QED BY <1>1, <1>2 DEF F, A

(* The record between calls.                                                 *)
LEMMA IdleFields ==
  /\ Idle \in Call /\ Idle.phase = "idle" /\ Idle.ran = {} /\ Idle.funs = <<>>
<1> DEFINE F == FunctionRecord  A == ArgValue
<1>1. <<>> \in Seq(F) /\ <<>> \in Seq(A)
  <2> HIDE DEF F, A
  <2> QED OBVIOUS
<1> HIDE DEF F, A
<1>2. Idle \in [phase : {"idle", "trying", "scanning", "returned", "failed", "thrown", "undefined"},
         args : Seq(A), funs : Seq(F), i : Nat, j : Nat, match : Nat,
         ran : SUBSET Nat]
  BY <1>1 DEF Idle
<1> QED BY <1>2 DEF Idle, Call, F, A

(* How the record of a call changes.                                         *)
LEMMA CallUpdates ==
  ASSUME NEW c \in Call
  PROVE  /\ NextOverload(c) \in Call /\ NextOverload(c).j = c.j + 1
         /\ NextOverload(c).phase = c.phase /\ NextOverload(c).funs = c.funs
         /\ NextOverload(c).args = c.args /\ NextOverload(c).ran = c.ran /\ NextOverload(c).i = c.i
         /\ GiveUp(c) \in Call /\ GiveUp(c).phase = "failed" /\ GiveUp(c).funs = c.funs
         /\ GiveUp(c).args = c.args /\ GiveUp(c).ran = c.ran
<1>1. NextOverload(c) \in Call
  <2>1. c.j + 1 \in Nat
    BY DEF Call
  <2> QED BY <2>1 DEF Call, NextOverload
<1>2. /\ NextOverload(c).j = c.j + 1
      /\ NextOverload(c).phase = c.phase /\ NextOverload(c).funs = c.funs
      /\ NextOverload(c).args = c.args /\ NextOverload(c).ran = c.ran /\ NextOverload(c).i = c.i
  BY DEF Call, NextOverload
<1>3. /\ GiveUp(c) \in Call /\ GiveUp(c).phase = "failed" /\ GiveUp(c).funs = c.funs
      /\ GiveUp(c).args = c.args /\ GiveUp(c).ran = c.ran
  BY DEF Call, GiveUp
<1> QED BY <1>1, <1>2, <1>3

(* The ends of a body.                                                       *)
LEMMA RunUpdates ==
  ASSUME NEW c \in Call, NEW next \in Call, NEW k \in Nat, NEW t, Runs(t, c, k, next),
         next.funs = c.funs, next.args = c.args, next.ran = c.ran
  PROVE  \E d \in Call :
           /\ Becomes(t, d) /\ d.funs = c.funs /\ d.args = c.args /\ d.ran = c.ran \cup {k}
           /\ \/ d.phase \in {"returned", "thrown"}
              \/ d.phase = next.phase /\ d.i = next.i /\ d.j = next.j
<1>1. PICK end \in {[c EXCEPT !.phase = "returned"], [c EXCEPT !.phase = "thrown"], next} :
        Becomes(t, [end EXCEPT !.ran = @ \cup {k}])
  BY DEF Runs
<1>2. /\ end \in Call /\ end.funs = c.funs /\ end.args = c.args /\ end.ran = c.ran
      /\ end.phase \in {"returned", "thrown"} \/ end = next
  <2>1. CASE end = [c EXCEPT !.phase = "returned"]
    BY <2>1 DEF Call
  <2>2. CASE end = [c EXCEPT !.phase = "thrown"]
    BY <2>2 DEF Call
  <2> QED BY <2>1, <2>2
<1> DEFINE d == [end EXCEPT !.ran = @ \cup {k}]
<1>3. /\ d \in Call /\ d.funs = end.funs /\ d.args = end.args /\ d.ran = end.ran \cup {k}
      /\ d.phase = end.phase /\ d.i = end.i /\ d.j = end.j
  BY <1>2 DEF Call
<1>4. Becomes(t, d)
  BY <1>1
<1> HIDE DEF d
<1> QED BY <1>2, <1>3, <1>4

(* An overload that fits is one, and is tried in its round.                  *)
LEMMA FitTried ==
  ASSUME NEW c \in Call, NEW o, NEW k \in Fit(c.funs, c.args, o)
  PROVE  /\ k \in 1..Len(c.funs) /\ k \in Nat
         /\ Diffs(c.funs[k], c.args) \in 0..Len(c.args)
         /\ Accepts(c.funs[k], c.args, o)
         /\ Tries(c.funs[k], c.args, Diffs(c.funs[k], c.args))
<1>1. k \in 1..Len(c.funs) /\ Accepts(c.funs[k], c.args, o)
  BY DEF Fit
<1>2. c.funs[k] \in FunctionRecord /\ c.args \in Seq(ArgValue) /\ Len(c.funs) \in Nat
  BY <1>1, CallFields
<1>3. /\ RightArity(c.funs[k], c.args) /\ Filter(c.funs[k], c.args)
      /\ Diffs(c.funs[k], c.args) \in 0..Len(c.args)
  BY <1>1, <1>2, AcceptsIsTried
<1> QED BY <1>1, <1>2, <1>3 DEF Tries

(* The inductive invariant.                                                  *)
OverloadsInv == TableInv /\ CallsInv

(* One lemma for each action: get_function and the first round.              *)
LEMMA StartGood ==
  ASSUME OverloadsInv, NEW t \in Threads, NEW args \in Args, StartCall(t, args)
  PROVE  CallsInv'
<1> DEFINE F == FunctionRecord  A == ArgValue
           d == [Idle EXCEPT !.phase = "trying", !.args = args, !.funs = table]
<1>1. table \in Seq(F) /\ args \in Seq(A) /\ CallsInv
  BY OverloadAssumption DEF OverloadsInv, TableInv
<1>2. Becomes(t, d) /\ open' = open
  BY DEF StartCall
<1> HIDE DEF F, A
<1>3. d \in [phase : {"idle", "trying", "scanning", "returned", "failed", "thrown", "undefined"},
             args : Seq(A), funs : Seq(F), i : Nat, j : Nat, match : Nat, ran : SUBSET Nat]
  BY <1>1 DEF Idle
<1>4. d \in Call /\ d.phase = "trying" /\ d.ran = {} /\ d.i = 0 /\ d.j = 1
  BY <1>3 DEF Idle, Call, F, A
<1> HIDE DEF d
<1>5. ASSUME NEW k \in Fit(d.funs, d.args, open) PROVE ~Passed(d, k)
  <2>1. k \in 1..Len(d.funs) /\ Diffs(d.funs[k], d.args) \in 0..Len(d.args) /\ Len(d.args) \in Nat /\ Len(d.funs) \in Nat
    BY <1>4, FitTried, CallFields
  <2> QED BY <1>4, <2>1 DEF Passed
<1>6. Good(d, open)
  BY <1>4, <1>5 DEF Good, InOrder
<1> QED BY <1>1, <1>2, <1>4, <1>6, BecomesGood

(* A name with one overload.                                                 *)
LEMMA DirectGood ==
  ASSUME OverloadsInv, NEW t \in Threads, NEW args \in Args, CallDirectly(t, args)
  PROVE  CallsInv'
<1> DEFINE F == FunctionRecord  A == ArgValue
           c == [Idle EXCEPT !.args = args, !.funs = table]
<1>1. table \in Seq(F) /\ args \in Seq(A) /\ CallsInv
  BY OverloadAssumption DEF OverloadsInv, TableInv
<1>2. /\ open' = open /\ Len(table) = 1
      /\ \/ ~Accepts(table[1], args, open) /\ Becomes(t, GiveUp(c))
         \/ Runs(t, c, 1, GiveUp(c))
  BY DEF CallDirectly
<1> HIDE DEF F, A
<1>3. c \in [phase : {"idle", "trying", "scanning", "returned", "failed", "thrown", "undefined"},
             args : Seq(A), funs : Seq(F), i : Nat, j : Nat, match : Nat, ran : SUBSET Nat]
  BY <1>1 DEF Idle
<1>4. c \in Call /\ c.phase = "idle" /\ c.ran = {} /\ c.funs = table /\ c.args = args
  BY <1>3 DEF Idle, Call, F, A
<1> HIDE DEF c
<1>5. Fit(table, args, open) \subseteq {1}
  BY <1>2 DEF Fit
<1>6. CASE ~Accepts(table[1], args, open) /\ Becomes(t, GiveUp(c))
  <2>1. Fit(table, args, open) = {}
    BY <1>5, <1>6 DEF Fit
  <2>2. GiveUp(c) \in Call /\ GiveUp(c).phase = "failed" /\ GiveUp(c).funs = table /\ GiveUp(c).args = args
    BY <1>4, CallUpdates
  <2>3. Good(GiveUp(c), open)
    BY <2>1, <2>2 DEF Good, InOrder
  <2> QED BY <1>1, <1>2, <1>6, <2>2, <2>3, BecomesGood
<1>7. CASE Runs(t, c, 1, GiveUp(c))
  <2> DEFINE n == GiveUp(c)
  <2>9. PICK one \in Nat : one = 1
    OBVIOUS
  <2>1. n \in Call /\ n.phase = "failed" /\ n.funs = c.funs /\ n.args = c.args /\ n.ran = c.ran
    BY <1>4, CallUpdates
  <2>2. Runs(t, c, one, n) /\ one \in Nat
    BY <1>7, <2>9
  <2> HIDE DEF n
  <2>0. PICK d \in Call :
          /\ Becomes(t, d) /\ d.funs = c.funs /\ d.args = c.args /\ d.ran = c.ran \cup {one}
          /\ \/ d.phase \in {"returned", "thrown"}
             \/ d.phase = n.phase /\ d.i = n.i /\ d.j = n.j
    <3>1. c \in Call
      BY <1>4
    <3>2. n \in Call /\ n.funs = c.funs /\ n.args = c.args /\ n.ran = c.ran
      BY <2>1
    <3>3. one \in Nat
      OBVIOUS
    <3>4. Runs(t, c, one, n)
      BY <2>2
    <3> QED BY ONLY <3>1, <3>2, <3>3, <3>4, RunUpdates
  <2>3. 1 \in d.ran /\ d.phase # "trying" /\ d.funs = table /\ d.args = args
    BY <1>4, <2>0, <2>1, <2>9
  <2>4. Becomes(t, d)
    BY <2>0
  <2>5. Fit(d.funs, d.args, open) \subseteq d.ran
    BY <1>5, <2>3
  <2>6. Good(d, open)
    BY <2>3, <2>5 DEF Good, InOrder
  <2> QED BY <1>1, <1>2, <2>4, <2>6, BecomesGood
<1> QED BY <1>2, <1>6, <1>7

(* The loops go past an overload that does not fit, or is of another round.  *)
LEMMA SkipGood ==
  ASSUME NEW c \in Call, NEW o, Good(c, o), c.phase = "trying",
         c.j \in Fit(c.funs, c.args, o) /\ Diffs(c.funs[c.j], c.args) = c.i => c.j \in c.ran
  PROVE  Good(NextOverload(c), o)
<1> DEFINE d == NextOverload(c)
<1>1. /\ d.j = c.j + 1 /\ d.phase = c.phase /\ d.funs = c.funs
      /\ d.args = c.args /\ d.ran = c.ran /\ d.i = c.i
  BY CallUpdates
<1> HIDE DEF d
<1>2. ASSUME NEW k \in Fit(c.funs, c.args, o), Passed(d, k) PROVE k \in c.ran
  <2>1. k \in Nat /\ c.j \in Nat
    BY FitTried, CallFields
  <2>2. CASE Passed(c, k)
    BY <2>2 DEF Good
  <2>3. CASE ~Passed(c, k)
    <3>1. Diffs(c.funs[k], c.args) = c.i /\ k < c.j + 1 /\ ~(k < c.j)
      BY <1>1, <1>2, <2>3 DEF Passed
    <3>2. k = c.j
      BY <2>1, <3>1
    <3> QED BY <3>1, <3>2
  <2> QED BY <2>2, <2>3
<1>3. Good(d, o)
  BY <1>1, <1>2 DEF Good, InOrder
<1> QED BY <1>3 DEF d

(* The body of one that fits is entered.                                     *)
LEMMA EnterGood ==
  ASSUME NEW c \in Call, NEW o, Good(c, o), c.phase = "trying", c.j <= Len(c.funs),
         Diffs(c.funs[c.j], c.args) = c.i,
         NEW d \in Call, d.funs = c.funs, d.args = c.args, d.ran = c.ran \cup {c.j},
         d.phase \in {"trying", "returned", "thrown"},
         d.phase = "trying" => d.i = c.i /\ d.j = c.j + 1
  PROVE  Good(d, o)
<1>1. ASSUME NEW k \in Fit(c.funs, c.args, o), Earlier(c.funs, c.args, k, c.j) PROVE k \in c.ran
  <2>1. Passed(c, k)
    BY <1>1 DEF Passed, Earlier
  <2> QED BY <2>1 DEF Good
<1>2. ASSUME NEW k \in d.ran \cap Fit(c.funs, c.args, o), NEW l \in Fit(c.funs, c.args, o),
             Earlier(c.funs, c.args, l, k)
      PROVE  l \in d.ran
  <2>1. CASE k = c.j
    BY <1>1, <1>2, <2>1
  <2>2. CASE k # c.j
    BY <1>2, <2>2 DEF Good, InOrder
  <2> QED BY <2>1, <2>2
<1>3. ASSUME d.phase = "trying", NEW k \in Fit(d.funs, d.args, o), Passed(d, k) PROVE k \in d.ran
  <2>1. k \in Nat /\ c.j \in Nat
    BY FitTried, CallFields
  <2>2. Passed(c, k) \/ k = c.j
    BY <1>3, <2>1 DEF Passed
  <2> QED BY <2>2 DEF Good
<1> QED BY <1>2, <1>3 DEF Good, InOrder

(* One overload of a round.                                                  *)
LEMMA TryGood ==
  ASSUME CallsInv, NEW t \in Threads, TryOverload(t)
  PROVE  CallsInv'
<1> DEFINE c == calls[t]  f == c.funs[c.j]
<1>1. /\ c.phase = "trying" /\ c.j <= Len(c.funs) /\ open' = open
      /\ \/ ~(Tries(f, c.args, c.i) /\ Accepts(f, c.args, open)) /\ Becomes(t, NextOverload(c))
         \/ /\ Tries(f, c.args, c.i) /\ Accepts(f, c.args, open)
            /\ Runs(t, c, c.j, NextOverload(c))
  BY DEF TryOverload
<1>2. c \in Call /\ Good(c, open)
  BY DEF CallsInv
<1> HIDE DEF c
<1>3. CASE ~(Tries(f, c.args, c.i) /\ Accepts(f, c.args, open)) /\ Becomes(t, NextOverload(c))
  <2>1. ~(c.j \in Fit(c.funs, c.args, open) /\ Diffs(c.funs[c.j], c.args) = c.i)
    BY <1>2, <1>3, FitTried
  <2>2. Good(NextOverload(c), open)
    BY <1>1, <1>2, <2>1, SkipGood
  <2>3. NextOverload(c) \in Call
    BY <1>2, CallUpdates
  <2> QED BY <1>1, <1>3, <2>2, <2>3, BecomesGood
<1>4. CASE Tries(f, c.args, c.i) /\ Accepts(f, c.args, open) /\ Runs(t, c, c.j, NextOverload(c))
  <2> DEFINE n == NextOverload(c)
  <2>1. n \in Call /\ n.j = c.j + 1 /\ n.phase = c.phase /\ n.funs = c.funs
        /\ n.args = c.args /\ n.ran = c.ran /\ n.i = c.i
    BY <1>2, CallUpdates
  <2>2. Runs(t, c, c.j, n) /\ c.j \in Nat
    BY <1>2, <1>4, CallFields
  <2> HIDE DEF n
  <2>3. PICK d \in Call :
          /\ Becomes(t, d) /\ d.funs = c.funs /\ d.args = c.args /\ d.ran = c.ran \cup {c.j}
          /\ \/ d.phase \in {"returned", "thrown"}
             \/ d.phase = n.phase /\ d.i = n.i /\ d.j = n.j
    BY <1>2, <2>1, <2>2, RunUpdates
  <2>4. Diffs(c.funs[c.j], c.args) = c.i
    BY <1>4 DEF Tries
  <2>5. /\ d.phase \in {"trying", "returned", "thrown"}
        /\ d.phase = "trying" => d.i = c.i /\ d.j = c.j + 1
    BY <1>1, <2>1, <2>3
  <2>6. Good(d, open)
    BY <1>1, <1>2, <2>3, <2>4, <2>5, EnterGood
  <2> QED BY <1>1, <2>3, <2>6, BecomesGood
<1> QED BY <1>1, <1>3, <1>4

(* The end of a round: the last one is that of as many differences as there  *)
(* are arguments, and no overload that accepts has more.                     *)
LEMMA RoundGood ==
  ASSUME CallsInv, NEW t \in Threads, NextRound(t)
  PROVE  CallsInv'
<1> DEFINE c == calls[t]
           d == IF c.i < Len(c.args) THEN [c EXCEPT !.i = @ + 1, !.j = 1]
                ELSE [c EXCEPT !.phase = "scanning", !.j = 1]
<1>1. c.phase = "trying" /\ c.j > Len(c.funs) /\ open' = open /\ Becomes(t, d)
  BY DEF NextRound
<1>2. c \in Call /\ Good(c, open)
  BY DEF CallsInv
<1> HIDE DEF c
<1>3. /\ d \in Call /\ d.funs = c.funs /\ d.args = c.args /\ d.ran = c.ran
      /\ \/ d.phase = "trying" /\ d.i = c.i + 1 /\ d.j = 1
         \/ d.phase = "scanning" /\ ~(c.i < Len(c.args))
  <2> DEFINE a == [c EXCEPT !.i = @ + 1, !.j = 1]  b == [c EXCEPT !.phase = "scanning", !.j = 1]
  <2>1. /\ a \in Call /\ a.funs = c.funs /\ a.args = c.args /\ a.ran = c.ran
        /\ a.phase = c.phase /\ a.i = c.i + 1 /\ a.j = 1
    <3>1. a.funs = c.funs /\ a.args = c.args /\ a.ran = c.ran /\ a.phase = c.phase
      BY <1>2 DEF Call
    <3>2. a.i = c.i + 1
      BY <1>2 DEF Call
    <3>3. a.j = 1
      BY <1>2 DEF Call
    <3>4. a \in Call
      <4>1. PICK i \in Nat : i = c.i + 1
        BY <1>2, CallFields
      <4>2. a = [c EXCEPT !.i = i, !.j = 1]
        BY <4>1
      <4>3. [c EXCEPT !.i = i, !.j = 1] \in Call
        BY <1>2 DEF Call
      <4> QED BY <4>2, <4>3
    <3> QED BY <3>1, <3>2, <3>3, <3>4
  <2>2. /\ b \in Call /\ b.funs = c.funs /\ b.args = c.args /\ b.ran = c.ran
        /\ b.phase = "scanning"
    BY <1>2 DEF Call
  <2>3. d = IF c.i < Len(c.args) THEN a ELSE b
    OBVIOUS
  <2> HIDE DEF a, b, d
  <2>4. CASE c.i < Len(c.args)
    BY <1>1, <2>1, <2>3, <2>4
  <2>5. CASE ~(c.i < Len(c.args))
    BY <2>2, <2>3, <2>5
  <2> QED BY <2>4, <2>5
<1> HIDE DEF d
<1>4. ASSUME NEW k \in Fit(c.funs, c.args, open), Diffs(c.funs[k], c.args) <= c.i PROVE k \in c.ran
  <2>1. k \in 1..Len(c.funs) /\ Diffs(c.funs[k], c.args) \in 0..Len(c.args)
    BY <1>2, FitTried
  <2>2. Len(c.funs) \in Nat /\ Len(c.args) \in Nat /\ c.i \in Nat /\ c.j \in Nat
    BY <1>2, CallFields
  <2>3. Passed(c, k)
    BY <1>1, <1>4, <2>1, <2>2 DEF Passed
  <2> QED BY <1>1, <1>2, <2>3 DEF Good
<1>5. CASE d.phase = "trying" /\ d.i = c.i + 1 /\ d.j = 1
  <2>1. ASSUME NEW k \in Fit(d.funs, d.args, open), Passed(d, k) PROVE k \in d.ran
    <3>1. k \in 1..Len(c.funs) /\ Diffs(c.funs[k], c.args) \in 0..Len(c.args)
      BY <1>2, <1>3, FitTried
    <3>2. Len(c.funs) \in Nat /\ Len(c.args) \in Nat /\ c.i \in Nat
      BY <1>2, CallFields
    <3>3. Diffs(c.funs[k], c.args) <= c.i
      BY <1>3, <1>5, <2>1, <3>1, <3>2 DEF Passed
    <3> QED BY <1>3, <1>4, <3>3
  <2>2. InOrder(d.funs, d.args, d.ran, open)
    BY <1>2, <1>3 DEF Good
  <2>3. Good(d, open)
    BY <1>5, <2>1, <2>2 DEF Good
  <2> QED BY <1>1, <1>3, <2>3, BecomesGood
<1>6. CASE d.phase = "scanning" /\ ~(c.i < Len(c.args))
  <2>1. ASSUME NEW k \in Fit(d.funs, d.args, open) PROVE k \in d.ran
    <3>1. Diffs(c.funs[k], c.args) \in 0..Len(c.args)
      BY <1>2, <1>3, FitTried
    <3>2. Len(c.args) \in Nat /\ c.i \in Nat
      BY <1>2, CallFields
    <3>3. Diffs(c.funs[k], c.args) <= c.i
      BY <1>6, <3>1, <3>2
    <3> QED BY <1>3, <1>4, <3>3
  <2>2. InOrder(d.funs, d.args, d.ran, open)
    BY <1>2, <1>3 DEF Good
  <2>3. Good(d, open)
    BY <1>6, <2>1, <2>2 DEF Good
  <2> QED BY <1>1, <1>3, <2>3, BecomesGood
<1> QED BY <1>3, <1>5, <1>6

(* dispatch_with_conversions looks for the overload to convert for.          *)
LEMMA ScanGood ==
  ASSUME CallsInv, NEW t \in Threads, Scan(t)
  PROVE  CallsInv'
<1> DEFINE c == calls[t]
<1>1. c \in Call /\ Good(c, open)
  BY DEF CallsInv
<1>2. c.phase = "scanning" /\ open' = open
  BY DEF Scan
<1>3. \/ Becomes(t, NextOverload(c))
      \/ Becomes(t, NextOverload([c EXCEPT !.match = c.j]))
      \/ Becomes(t, [c EXCEPT !.phase = "undefined"])
      \/ Becomes(t, GiveUp(c))
  BY DEF Scan
<1> HIDE DEF c
<1>4. ASSUME NEW d \in Call, Becomes(t, d), d.funs = c.funs, d.args = c.args, d.ran = c.ran, d.phase # "trying"
      PROVE  CallsInv'
  <2>1. Good(d, open)
    BY <1>1, <1>2, <1>4, ScannedGood
  <2> QED BY <1>2, <1>4, <2>1, BecomesGood
<1> DEFINE n == NextOverload(c)  m == [c EXCEPT !.match = c.j]  nm == NextOverload(m)
           u == [c EXCEPT !.phase = "undefined"]  g == GiveUp(c)
<1>5. n \in Call /\ n.funs = c.funs /\ n.args = c.args /\ n.ran = c.ran /\ n.phase # "trying"
  BY <1>1, <1>2, CallUpdates
<1>6. m \in Call /\ m.funs = c.funs /\ m.args = c.args /\ m.ran = c.ran /\ m.phase = c.phase
  BY <1>1 DEF Call
<1>7. nm \in Call /\ nm.funs = c.funs /\ nm.args = c.args /\ nm.ran = c.ran /\ nm.phase # "trying"
  <2> HIDE DEF m
  <2> QED BY <1>2, <1>6, CallUpdates
<1>8. u \in Call /\ u.funs = c.funs /\ u.args = c.args /\ u.ran = c.ran /\ u.phase # "trying"
  BY <1>1 DEF Call
<1>9. g \in Call /\ g.funs = c.funs /\ g.args = c.args /\ g.ran = c.ran /\ g.phase # "trying"
  BY <1>1, CallUpdates
<1>10. Becomes(t, n) \/ Becomes(t, nm) \/ Becomes(t, u) \/ Becomes(t, g)
  BY <1>3
<1> HIDE DEF n, nm, u, g
<1> QED BY <1>4, <1>5, <1>7, <1>8, <1>9, <1>10

(* It calls it.                                                              *)
LEMMA ConvertGood ==
  ASSUME CallsInv, NEW t \in Threads, Convert(t)
  PROVE  CallsInv'
<1> DEFINE c == calls[t]  n == GiveUp(c)
<1>1. c \in Call /\ Good(c, open)
  BY DEF CallsInv
<1>2. /\ c.phase = "scanning" /\ open' = open
      /\ Becomes(t, n) \/ Runs(t, c, c.match, n)
  BY DEF Convert
<1> HIDE DEF c
<1>3. n \in Call /\ n.phase = "failed" /\ n.funs = c.funs /\ n.args = c.args /\ n.ran = c.ran
  BY <1>1, CallUpdates
<1> HIDE DEF n
<1>4. CASE Becomes(t, n)
  <2>1. Good(n, open)
    BY <1>1, <1>2, <1>3, ScannedGood
  <2> QED BY <1>2, <1>3, <1>4, <2>1, BecomesGood
<1>5. CASE Runs(t, c, c.match, n)
  <2>1. c.match \in Nat
    BY <1>1, CallFields
  <2>2. PICK d \in Call :
          /\ Becomes(t, d) /\ d.funs = c.funs /\ d.args = c.args /\ d.ran = c.ran \cup {c.match}
          /\ \/ d.phase \in {"returned", "thrown"}
             \/ d.phase = n.phase /\ d.i = n.i /\ d.j = n.j
    BY <1>1, <1>3, <1>5, <2>1, RunUpdates
  <2>3. d.phase # "trying" /\ c.ran \subseteq d.ran
    BY <1>3, <2>2
  <2>4. Good(d, open)
    BY <1>1, <1>2, <2>2, <2>3, ScannedGood
  <2> QED BY <1>2, <2>2, <2>4, BecomesGood
<1> QED BY <1>2, <1>4, <1>5

(* The call is over.                                                         *)
LEMMA FinishGood ==
  ASSUME CallsInv, NEW t \in Threads, Finish(t)
  PROVE  CallsInv'
<1>1. Becomes(t, Idle) /\ open' = open
  BY DEF Finish
<1>2. Idle \in Call /\ Good(Idle, open)
  BY IdleFields, FreshGood
<1> QED BY <1>1, <1>2, BecomesGood

(* Every step.                                                               *)
LEMMA CallsStep == OverloadsInv /\ [Next]_vars => CallsInv'
<1> SUFFICES ASSUME OverloadsInv, [Next]_vars PROVE CallsInv'
  OBVIOUS
<1>1. CallsInv
  BY DEF OverloadsInv
<1>2. CASE UNCHANGED <<open, calls>>
  BY <1>1, <1>2 DEF CallsInv
<1>3. ASSUME NEW f \in Pool, AddFunction(f) PROVE UNCHANGED <<open, calls>>
  BY <1>3 DEF AddFunction
<1>4. ASSUME NEW t \in Threads, NEW args \in Args, StartCall(t, args) \/ CallDirectly(t, args)
      PROVE  CallsInv'
  BY <1>4, StartGood, DirectGood
<1>5. ASSUME NEW t \in Threads, TryOverload(t) \/ NextRound(t) \/ Scan(t) \/ Convert(t) \/ Finish(t)
      PROVE  CallsInv'
  BY <1>1, <1>5, TryGood, RoundGood, ScanGood, ConvertGood, FinishGood
<1> QED BY <1>2, <1>3, <1>4, <1>5 DEF Next, vars

(* No call at the start.                                                     *)
LEMMA CallsInit == Init => CallsInv
<1> SUFFICES ASSUME Init PROVE CallsInv
  OBVIOUS
<1>1. calls = [t \in Threads |-> Idle]
  BY DEF Init
<1>2. Idle \in Call /\ Good(Idle, open)
  BY IdleFields, FreshGood
<1> QED BY <1>1, <1>2 DEF CallsInv

(* In every behaviour the overloads and the calls are of their types, the    *)
(* overloads are in a chain, and dispatch has entered the body of every      *)
(* overload that accepts the arguments and that its loops have passed.       *)
THEOREM TypeAndOrder == Spec => []OverloadsInv
<1>1. Init => OverloadsInv
  BY TableInit, CallsInit DEF OverloadsInv
<1>2. OverloadsInv /\ [Next]_vars => OverloadsInv'
  BY TableStep, CallsStep DEF OverloadsInv
<1> QED BY <1>1, <1>2, PTL DEF Spec

(* In every behaviour the bodies that take the arguments as they are run     *)
(* best first (dispatch).                                                    *)
THEOREM BestFirst == Spec => []RunInOrder
<1>1. OverloadsInv => RunInOrder
  BY DEF OverloadsInv, CallsInv, Good, InOrder, Fit, Earlier, RunInOrder, Accepting, Better
<1> QED BY <1>1, TypeAndOrder, PTL

(* In every behaviour numbers are converted, or the call fails, only when    *)
(* every overload that takes the arguments as they are was entered           *)
(* (dispatch, dispatch_with_conversions).                                    *)
THEOREM NoOverloadMissed == Spec => []NoneMissed
<1>1. OverloadsInv => NoneMissed
  BY DEF OverloadsInv, CallsInv, Good, Fit, NoneMissed, Accepting
<1> QED BY <1>1, TypeAndOrder, PTL
================================================================================
