---------------------------- MODULE SequenceFacts ----------------------------
(***************************************************************************)
(* Facts about stacks kept as sequences, innermost element last: what      *)
(* pushing, popping and replacing the top do to the other elements. The    *)
(* first part is for sequences over a given set, the second for those      *)
(* whose elements are of no set in particular, and the last is induction   *)
(* over the naturals, stated for a set instead of an operator, with what   *)
(* it gives: least and greatest elements, and inserting into a sequence.   *)
(***************************************************************************)
EXTENDS Integers, SequencesExt, SequenceTheorems, FiniteSetTheorems, TLAPS

(* The top of a non-empty stack is one of its elements.                    *)
LEMMA LastFacts ==
  ASSUME NEW S, NEW s \in Seq(S), s # <<>>
  PROVE  Last(s) \in S /\ Len(s) \in Nat /\ Len(s) > 0
<1>1. Len(s) \in 1..Len(s)
  OBVIOUS
<1>2. QED
  BY <1>1 DEF Last

(* Popping keeps everything below the top.                                 *)
LEMMA FrontFacts ==
  ASSUME NEW S, NEW s \in Seq(S), s # <<>>
  PROVE  /\ Front(s) \in Seq(S)
         /\ Len(Front(s)) = Len(s) - 1
         /\ \A i \in 1..(Len(s) - 1) : Front(s)[i] = s[i]
<1>1. PICK n \in Int : n = Len(s) - 1 /\ n >= 0
  OBVIOUS
<1>2. /\ SubSeq(s, 1, n) \in Seq(S)
      /\ Len(SubSeq(s, 1, n)) = IF 1 <= n THEN n - 1 + 1 ELSE 0
      /\ \A i \in 1..(n - 1 + 1) : SubSeq(s, 1, n)[i] = s[1 + i - 1]
  <2>1. \A i \in 1..n : s[i] \in S
    BY <1>1
  <2>2. QED
    BY <2>1, SubSeqProperties
<1>3. Len(SubSeq(s, 1, n)) = n
  BY <1>1, <1>2
<1>4. \A i \in 1..n : SubSeq(s, 1, n)[i] = s[i]
  BY <1>2
<1>5. QED
  BY <1>1, <1>2, <1>3, <1>4 DEF Front

(* Pushing keeps the stack below and puts the new element on top.          *)
LEMMA PushFacts ==
  ASSUME NEW S, NEW s \in Seq(S), NEW e \in S
  PROVE  /\ Append(s, e) \in Seq(S)
         /\ Len(Append(s, e)) = Len(s) + 1
         /\ Append(s, e)[Len(s) + 1] = e
         /\ Last(Append(s, e)) = e
         /\ Front(Append(s, e)) = s
         /\ \A i \in 1..Len(s) : Append(s, e)[i] = s[i]
BY DEF Last, Front

(* Replacing the top, as EXCEPT writes it.                                 *)
LEMMA ReplaceTopFacts ==
  ASSUME NEW S, NEW s \in Seq(S), s # <<>>, NEW e \in S
  PROVE  LET r == [s EXCEPT ![Len(s)] = e] IN
         /\ r \in Seq(S)
         /\ Len(r) = Len(s)
         /\ r[Len(s)] = e
         /\ Last(r) = e
         /\ \A i \in 1..(Len(s) - 1) : r[i] = s[i]
<1>1. Len(s) \in 1..Len(s)
  OBVIOUS
<1>2. QED
  BY <1>1 DEF Last
-----------------------------------------------------------------------------
(* A sequence, of whatever elements.                                       *)
IsSeq(s) == s \in Seq(Range(s))

(* A sequence over some set is one.                                          *)
LEMMA SeqIsSeq ==
  ASSUME NEW S, NEW s \in Seq(S)
  PROVE  IsSeq(s)
<1>1. s \in [1..Len(s) -> Range(s)] /\ Len(s) \in Nat
  BY DEF Range
<1> QED BY <1>1, SeqDef DEF IsSeq

(* It is a sequence over every set that has its elements.                    *)
LEMMA IsSeqIn ==
  ASSUME NEW s, IsSeq(s), NEW S, Range(s) \subseteq S
  PROVE  s \in Seq(S)
BY SeqMonotonic DEF IsSeq

(* Its length and its domain.                                                *)
LEMMA IsSeqFacts ==
  ASSUME NEW s, IsSeq(s)
  PROVE  /\ Len(s) \in Nat /\ DOMAIN s = 1..Len(s)
         /\ s = <<>> <=> Len(s) = 0
         /\ s # <<>> => Len(s) \in 1..Len(s) /\ Len(s) - 1 \in Nat
BY DEF IsSeq

(* The empty sequence and those of one element.                              *)
LEMMA IsSeqTuples ==
  /\ IsSeq(<<>>) /\ Len(<<>>) = 0
  /\ \A x : IsSeq(<<x>>) /\ Len(<<x>>) = 1 /\ Last(<<x>>) = x /\ <<x>> # <<>> /\ <<x>>[1] = x
<1>1. IsSeq(<<>>)
  <2>1. <<>> \in Seq({})
    OBVIOUS
  <2> QED BY <2>1, SeqIsSeq
<1>2. ASSUME NEW x PROVE IsSeq(<<x>>)
  <2>1. <<x>> \in Seq({x})
    OBVIOUS
  <2> QED BY <2>1, SeqIsSeq
<1> QED BY <1>1, <1>2 DEF Last

(* Pushing an element.                                                       *)
LEMMA IsSeqAppend ==
  ASSUME NEW s, IsSeq(s), NEW e
  PROVE  /\ IsSeq(Append(s, e))
         /\ Len(Append(s, e)) = Len(s) + 1
         /\ Append(s, e)[Len(s) + 1] = e
         /\ Append(s, e) # <<>>
         /\ Last(Append(s, e)) = e
         /\ Front(Append(s, e)) = s
         /\ \A i \in 1..Len(s) : Append(s, e)[i] = s[i]
<1> DEFINE S == Range(s) \cup {e}
<1>1. s \in Seq(S) /\ e \in S
  BY IsSeqIn
<1> HIDE DEF S
<1>2. /\ Append(s, e) \in Seq(S)
      /\ Len(Append(s, e)) = Len(s) + 1
      /\ Append(s, e)[Len(s) + 1] = e
      /\ Last(Append(s, e)) = e
      /\ Front(Append(s, e)) = s
      /\ \A i \in 1..Len(s) : Append(s, e)[i] = s[i]
  BY <1>1, PushFacts
<1>3. IsSeq(Append(s, e))
  BY <1>2, SeqIsSeq
<1>4. Append(s, e) # <<>>
  BY <1>2, <1>3, IsSeqFacts
<1> QED BY <1>2, <1>3, <1>4

(* Popping one.                                                              *)
LEMMA IsSeqFront ==
  ASSUME NEW s, IsSeq(s), s # <<>>
  PROVE  /\ IsSeq(Front(s))
         /\ Len(Front(s)) = Len(s) - 1
         /\ \A i \in 1..(Len(s) - 1) : Front(s)[i] = s[i]
<1>1. s \in Seq(Range(s))
  BY DEF IsSeq
<1>2. /\ Front(s) \in Seq(Range(s))
      /\ Len(Front(s)) = Len(s) - 1
      /\ \A i \in 1..(Len(s) - 1) : Front(s)[i] = s[i]
  BY <1>1, FrontFacts
<1> QED BY <1>2, SeqIsSeq

(* The first n elements.                                                     *)
LEMMA IsSeqPrefix ==
  ASSUME NEW s, IsSeq(s), NEW n \in 0..Len(s)
  PROVE  /\ IsSeq(SubSeq(s, 1, n))
         /\ Len(SubSeq(s, 1, n)) = n
         /\ \A i \in 1..n : SubSeq(s, 1, n)[i] = s[i]
<1>1. s \in Seq(Range(s)) /\ Len(s) \in Nat
  BY DEF IsSeq
<1>2. \A i \in 1..n : s[i] \in Range(s)
  BY <1>1
<1> DEFINE R == Range(s)  t == SubSeq(s, 1, n)
<1>3. /\ t \in Seq(R)
      /\ Len(t) = IF 1 <= n THEN n - 1 + 1 ELSE 0
      /\ \A i \in 1..(n - 1 + 1) : t[i] = s[1 + i - 1]
  BY <1>1, <1>2, SubSeqProperties
<1> HIDE DEF R, t
<1>4. n \in Nat
  BY <1>1
<1>5. Len(t) = n /\ \A i \in 1..n : t[i] = s[i]
  BY <1>3, <1>4
<1>6. IsSeq(t)
  BY <1>3, SeqIsSeq
<1> QED BY <1>5, <1>6 DEF t

(* Replacing the last element, as EXCEPT writes it.                          *)
LEMMA IsSeqReplaceTop ==
  ASSUME NEW s, IsSeq(s), s # <<>>, NEW e
  PROVE  LET r == [s EXCEPT ![Len(s)] = e] IN
         /\ IsSeq(r)
         /\ Len(r) = Len(s)
         /\ r # <<>>
         /\ Last(r) = e
         /\ r[Len(s)] = e
         /\ Front(r) = Front(s)
         /\ \A i \in 1..(Len(s) - 1) : r[i] = s[i]
<1> DEFINE S == Range(s) \cup {e}  r == [s EXCEPT ![Len(s)] = e]
<1>1. s \in Seq(S) /\ e \in S
  BY IsSeqIn
<1> HIDE DEF S
<1>2. /\ r \in Seq(S)
      /\ Len(r) = Len(s)
      /\ r[Len(s)] = e
      /\ Last(r) = e
      /\ \A i \in 1..(Len(s) - 1) : r[i] = s[i]
  BY <1>1, ReplaceTopFacts
<1>3. IsSeq(r)
  BY <1>2, SeqIsSeq
<1>4. r # <<>>
  BY <1>2, <1>3, IsSeqFacts
<1>5. Front(r) = Front(s)
  <2>1. IsSeq(Front(r)) /\ IsSeq(Front(s)) /\ Len(Front(r)) = Len(s) - 1 /\ Len(Front(s)) = Len(s) - 1
    BY <1>2, <1>3, <1>4, IsSeqFront
  <2>2. \A i \in 1..(Len(s) - 1) : Front(r)[i] = Front(s)[i]
    BY <1>2, <1>3, <1>4, IsSeqFront
  <2>3. IsSeq(s) /\ Len(s) - 1 \in Nat
    BY IsSeqFacts
  <2> DEFINE T == Range(Front(r)) \cup Range(Front(s))
  <2>4. Front(r) \in Seq(T) /\ Front(s) \in Seq(T)
    BY <2>1, IsSeqIn
  <2> HIDE DEF T
  <2> QED BY <2>1, <2>2, <2>3, <2>4, SeqEqual
<1> QED BY <1>2, <1>3, <1>4, <1>5 DEF r

(* Concatenation.                                                            *)
LEMMA IsSeqConcat ==
  ASSUME NEW s, NEW t, IsSeq(s), IsSeq(t)
  PROVE  IsSeq(s \o t) /\ Len(s \o t) = Len(s) + Len(t)
<1> DEFINE S == Range(s) \cup Range(t)
<1>1. s \in Seq(S) /\ t \in Seq(S)
  BY IsSeqIn
<1> HIDE DEF S
<1>2. s \o t \in Seq(S) /\ Len(s \o t) = Len(s) + Len(t)
  BY <1>1
<1> QED BY <1>2, SeqIsSeq

(* Two sequences with the same elements are the same.                      *)
LEMMA IsSeqEqual ==
  ASSUME NEW s, NEW t, IsSeq(s), IsSeq(t), Len(s) = Len(t), \A i \in 1..Len(s) : s[i] = t[i]
  PROVE  s = t
<1> DEFINE S == Range(s) \cup Range(t)
<1>1. s \in Seq(S) /\ t \in Seq(S)
  BY IsSeqIn
<1> HIDE DEF S
<1> QED BY <1>1, SeqEqual

(* A prefix of a prefix is one of the whole.                                 *)
LEMMA PrefixOfPrefix ==
  ASSUME NEW s, IsSeq(s), NEW m \in 0..Len(s), NEW k \in 0..m
  PROVE  SubSeq(SubSeq(s, 1, m), 1, k) = SubSeq(s, 1, k)
<1> DEFINE t == SubSeq(s, 1, m)  u == SubSeq(t, 1, k)  v == SubSeq(s, 1, k)
<1>0. k \in 0..Len(s) /\ m \in Nat /\ k \in Nat /\ k <= m
  BY IsSeqFacts
<1>1. IsSeq(t) /\ Len(t) = m /\ \A i \in 1..m : t[i] = s[i]
  BY IsSeqPrefix
<1>2. IsSeq(v) /\ Len(v) = k /\ \A i \in 1..k : v[i] = s[i]
  BY <1>0, IsSeqPrefix
<1> HIDE DEF t, v
<1>3. IsSeq(u) /\ Len(u) = k /\ \A i \in 1..k : u[i] = t[i]
  BY <1>0, <1>1, IsSeqPrefix
<1> HIDE DEF u
<1>4. \A i \in 1..k : u[i] = v[i]
  BY <1>0, <1>1, <1>2, <1>3
<1> QED BY <1>2, <1>3, <1>4, IsSeqEqual DEF t, u, v

(* The longest prefix is the whole.                                          *)
LEMMA PrefixWhole ==
  ASSUME NEW s, IsSeq(s)
  PROVE  SubSeq(s, 1, Len(s)) = s
<1>1. Len(s) \in 0..Len(s)
  BY IsSeqFacts
<1> QED BY <1>1, IsSeqPrefix, IsSeqEqual

(* What is pushed is in no shorter prefix.                                   *)
LEMMA PrefixOfAppend ==
  ASSUME NEW s, IsSeq(s), NEW e, NEW k \in 0..Len(s)
  PROVE  SubSeq(Append(s, e), 1, k) = SubSeq(s, 1, k)
<1> DEFINE a == Append(s, e)
<1>1. IsSeq(a) /\ Len(a) = Len(s) + 1 /\ Front(a) = s
  BY IsSeqAppend
<1>2. Front(a) = SubSeq(a, 1, Len(a) - 1)
  BY DEF Front
<1>3. Len(s) \in Nat /\ Len(s) \in 0..Len(a) /\ Len(a) - 1 = Len(s)
  BY <1>1, IsSeqFacts
<1> HIDE DEF a
<1>4. SubSeq(SubSeq(a, 1, Len(s)), 1, k) = SubSeq(a, 1, k)
  BY <1>1, <1>3, PrefixOfPrefix
<1> QED BY <1>1, <1>2, <1>3, <1>4 DEF a

(* A function on 1..n, as the brackets write it.                             *)
LEMMA IsSeqFunction ==
  ASSUME NEW n \in Nat, NEW f, f = [i \in 1..n |-> f[i]]
  PROVE  IsSeq(f) /\ Len(f) = n
<1>1. f \in [1..n -> Range(f)]
  BY DEF Range
<1>2. f \in Seq(Range(f))
  BY <1>1, SeqDef
<1> QED BY <1>1, <1>2 DEF IsSeq

(* All but the first element.                                                *)
LEMMA IsSeqRest ==
  ASSUME NEW s, IsSeq(s)
  PROVE  IsSeq(SubSeq(s, 2, Len(s))) /\ (s # <<>> => IsSeq(Tail(s)))
<1> DEFINE S == Range(s)
<1>1. s \in Seq(S) /\ Len(s) \in Int /\ 2 \in Int
  BY DEF IsSeq
<1> HIDE DEF S
<1>2. \A i \in 2..Len(s) : s[i] \in S
  BY <1>1
<1>3. SubSeq(s, 2, Len(s)) \in Seq(S)
  BY <1>1, <1>2, SubSeqProperties
<1>4. s # <<>> => Tail(s) \in Seq(S)
  BY <1>1, HeadTailProperties
<1> QED BY <1>3, <1>4, SeqIsSeq
-----------------------------------------------------------------------------
(* A set of naturals with 0 that is closed under successor is all of them:   *)
(* else the successor maps what it has up to a missing number one to one     *)
(* into that without 0, one element less.                                    *)
LEMMA SetInduction ==
  ASSUME NEW T \in SUBSET Nat, 0 \in T, \A n \in T : n + 1 \in T
  PROVE  T = Nat
<1> SUFFICES ASSUME NEW m \in Nat, m \notin T PROVE FALSE
  OBVIOUS
<1> DEFINE S == T \cap 0..m  U == S \ {0}  f == [n \in S |-> n + 1]
<1>1. IsFiniteSet(S)
  <2>1. IsFiniteSet(0..m) /\ S \in SUBSET (0..m)
    BY FS_Interval
  <2> QED BY <2>1, FS_Subset
<1>2. IsFiniteSet(U) /\ Cardinality(U) < Cardinality(S)
  <2>1. 0 \in S
    OBVIOUS
  <2>2. Cardinality(S) \in Nat
    BY <1>1, FS_CardinalityType
  <2> HIDE DEF S
  <2>3. IsFiniteSet(S \ {0}) /\ Cardinality(S \ {0}) = Cardinality(S) - 1
    BY <1>1, <2>1, FS_RemoveElement
  <2> QED BY <2>2, <2>3
<1>3. f \in [S -> U]
  <2> SUFFICES ASSUME NEW n \in S PROVE n + 1 \in U
    OBVIOUS
  <2>1. n # m /\ n \in T /\ n \in Nat /\ n <= m
    OBVIOUS
  <2>2. n + 1 \in T /\ n + 1 \in 0..m /\ n + 1 # 0
    BY <2>1
  <2> QED BY <2>2
<1>4. \A x, y \in S : f[x] = f[y] => x = y
  OBVIOUS
<1> HIDE DEF S, U, f
<1> QED BY <1>1, <1>2, <1>3, <1>4, FS_PigeonHole

(* A non-empty set of naturals has a least element.                          *)
LEMMA LeastOf ==
  ASSUME NEW S \in SUBSET Nat, S # {}
  PROVE  \E m \in S : \A k \in S : m <= k
<1> SUFFICES ASSUME \A m \in S : \E k \in S : k < m PROVE FALSE
  OBVIOUS
<1> DEFINE T == {n \in Nat : \A k \in 0..n : k \notin S}
<1>1. 0 \in T
  OBVIOUS
<1>2. ASSUME NEW n \in T PROVE n + 1 \in T
  <2>1. n \in Nat /\ \A k \in 0..n : k \notin S
    OBVIOUS
  <2>2. n + 1 \notin S
    <3> SUFFICES ASSUME n + 1 \in S PROVE FALSE
      OBVIOUS
    <3>1. PICK k \in S : k < n + 1
      OBVIOUS
    <3>2. k \in 0..n
      BY <2>1, <3>1
    <3> QED BY <2>1, <3>2
  <2> QED BY <2>1, <2>2
<1>3. T = Nat
  <2>1. T \in SUBSET Nat
    OBVIOUS
  <2> HIDE DEF T
  <2> QED BY <1>1, <1>2, <2>1, SetInduction
<1>4. \A n \in Nat : n \notin S
  <2> SUFFICES ASSUME NEW n \in Nat PROVE n \notin S
    OBVIOUS
  <2>1. n \in T /\ n \in 0..n
    BY <1>3
  <2> QED BY <2>1
<1> QED BY <1>4

(* A non-empty set of naturals below a bound has a greatest element.         *)
LEMMA GreatestOf ==
  ASSUME NEW n \in Nat, NEW S \in SUBSET (0..n), S # {}
  PROVE  \E m \in S : \A k \in S : k <= m
<1> DEFINE D == {n - k : k \in S}
<1>0. \A k \in S : k \in Int /\ k \in 0..n
  OBVIOUS
<1>1. D \in SUBSET Nat /\ D # {}
  <2>1. \A k \in S : n - k \in Nat
    BY <1>0
  <2> QED BY <2>1
<1>2. PICK d \in D : \A e \in D : d <= e
  <2> HIDE DEF D
  <2> QED BY <1>1, LeastOf
<1>3. PICK m \in S : d = n - m
  OBVIOUS
<1>4. \A k \in S : n - m <= n - k
  BY <1>2, <1>3
<1> QED BY <1>0, <1>4

(* What inserting behind the m-th element gives.                             *)
LEMMA InsertAtFacts ==
  ASSUME NEW S, NEW s \in Seq(S), NEW e \in S, NEW m \in 0..Len(s)
  PROVE  /\ InsertAt(s, 1 + m, e) \in Seq(S)
         /\ Len(InsertAt(s, 1 + m, e)) = Len(s) + 1
         /\ \A i \in 1..m : InsertAt(s, 1 + m, e)[i] = s[i]
         /\ InsertAt(s, 1 + m, e)[m + 1] = e
         /\ \A i \in (m + 2)..(Len(s) + 1) : InsertAt(s, 1 + m, e)[i] = s[i - 1]
<1> DEFINE n == Len(s)
           a == SubSeq(s, 1, m)
           b == SubSeq(s, 1 + m, n)
           c == a \o <<e>>
<1>1. n \in Nat /\ m \in Nat /\ m <= n /\ \A i \in 1..n : s[i] \in S
  OBVIOUS
<1>2. InsertAt(s, 1 + m, e) = c \o b
  <2>1. (1 + m) - 1 = m
    OBVIOUS
  <2> QED BY <2>1 DEF InsertAt
<1> HIDE DEF n
<1>3. a \in Seq(S) /\ Len(a) = m /\ \A i \in 1..m : a[i] = s[i]
  <2>1. \A i \in 1..m : s[i] \in S
    BY <1>1
  <2>2. /\ SubSeq(s, 1, m) \in Seq(S)
        /\ Len(SubSeq(s, 1, m)) = IF 1 <= m THEN m - 1 + 1 ELSE 0
        /\ \A i \in 1..(m - 1 + 1) : SubSeq(s, 1, m)[i] = s[1 + i - 1]
    BY <2>1, SubSeqProperties
  <2>3. Len(SubSeq(s, 1, m)) = m
    BY <1>1, <2>2
  <2> QED BY <2>2, <2>3
<1>4. b \in Seq(S) /\ Len(b) = n - m /\ \A i \in 1..(n - m) : b[i] = s[m + i]
  <2>1. \A i \in (1 + m)..n : s[i] \in S
    BY <1>1
  <2>0. 1 + m \in Int /\ n \in Int
    BY <1>1
  <2>2. /\ SubSeq(s, 1 + m, n) \in Seq(S)
        /\ Len(SubSeq(s, 1 + m, n)) = IF 1 + m <= n THEN n - (1 + m) + 1 ELSE 0
        /\ \A i \in 1..(n - (1 + m) + 1) : SubSeq(s, 1 + m, n)[i] = s[(1 + m) + i - 1]
    BY <2>0, <2>1, SubSeqProperties
  <2>3. Len(SubSeq(s, 1 + m, n)) = n - m
    BY <1>1, <2>2
  <2>4. ASSUME NEW i \in 1..(n - m) PROVE SubSeq(s, 1 + m, n)[i] = s[m + i]
    <3>1. i \in 1..(n - (1 + m) + 1) /\ (1 + m) + i - 1 = m + i
      BY <1>1
    <3> QED BY <2>2, <3>1
  <2> QED BY <2>2, <2>3, <2>4
<1> HIDE DEF a, b
<1>5. <<e>> \in Seq(S) /\ Len(<<e>>) = 1 /\ <<e>>[1] = e
  OBVIOUS
<1>6. c \in Seq(S) /\ Len(c) = m + 1 /\ (\A i \in 1..m : c[i] = s[i]) /\ c[m + 1] = e
  <2> DEFINE u == <<e>>
  <2>1. u \in Seq(S) /\ Len(u) = 1 /\ u[1] = e
    BY <1>5
  <2> HIDE DEF u
  <2>2. /\ a \o u \in Seq(S)
        /\ Len(a \o u) = Len(a) + Len(u)
        /\ \A i \in 1..(Len(a) + Len(u)) : (a \o u)[i] = IF i <= Len(a) THEN a[i] ELSE u[i - Len(a)]
    BY <1>3, <2>1, ConcatProperties
  <2>3. \A i \in 1..m : i \in 1..(Len(a) + Len(u)) /\ i <= Len(a)
    BY <1>1, <1>3, <2>1
  <2>4. m + 1 \in 1..(Len(a) + Len(u)) /\ ~(m + 1 <= Len(a)) /\ (m + 1) - Len(a) = 1
    BY <1>1, <1>3, <2>1
  <2>5. \A i \in 1..m : (a \o u)[i] = s[i]
    BY <1>3, <2>2, <2>3
  <2>6. (a \o u)[m + 1] = e
    BY <2>1, <2>2, <2>4
  <2>7. Len(a \o u) = m + 1
    BY <1>3, <2>1, <2>2
  <2> QED BY <2>2, <2>5, <2>6, <2>7 DEF u
<1> HIDE DEF c
<1>7. /\ c \o b \in Seq(S)
      /\ Len(c \o b) = Len(c) + Len(b)
      /\ \A i \in 1..(Len(c) + Len(b)) : (c \o b)[i] = IF i <= Len(c) THEN c[i] ELSE b[i - Len(c)]
  BY <1>4, <1>6, ConcatProperties
<1>8. Len(c) + Len(b) = n + 1
  BY <1>1, <1>4, <1>6
<1>9. \A i \in 1..(m + 1) : (c \o b)[i] = c[i]
  <2>1. \A i \in 1..(m + 1) : i \in 1..(Len(c) + Len(b)) /\ i <= Len(c)
    BY <1>1, <1>6, <1>8
  <2> QED BY <1>7, <2>1
<1>10. ASSUME NEW i \in (m + 2)..(n + 1) PROVE (c \o b)[i] = s[i - 1]
  <2>1. /\ i \in 1..(Len(c) + Len(b)) /\ ~(i <= Len(c))
        /\ i - Len(c) \in 1..(n - m) /\ m + (i - Len(c)) = i - 1
    BY <1>1, <1>6, <1>8
  <2> QED BY <1>4, <1>7, <2>1
<1>11. \A i \in 1..m : i \in 1..(m + 1)
  BY <1>1
<1>12. m + 1 \in 1..(m + 1)
  BY <1>1
<1> QED BY <1>2, <1>6, <1>7, <1>8, <1>9, <1>10, <1>11, <1>12 DEF n
==============================================================================
