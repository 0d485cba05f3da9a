---------------------------- MODULE EvaluatorProofs ----------------------------
(* The scopes and stacks that a node of the program pushes are popped however *)
(* it is left, a try's finally runs, and a constant stays what it is: proofs  *)
(* for Evaluator and Objects.                                                 *)
(*                                                                            *)
(* The invariant of the stacks says of every active node what it owns: the    *)
(* scopes it has pushed on the innermost stack, and a stack if it is a call.  *)
(* Under what it owns are the stacks it began with, to which its children may *)
(* have added names; a node inside it began with the stacks that it leaves    *)
(* behind. The phase a node is in says how many scopes it has pushed.         *)
(*                                                                            *)
(* The invariant of the heap, in the second half, says that what is const is  *)
(* held by const Data only (Heaps), that every name, value and frame refers   *)
(* to Data there is, and that each constant of the program has its own.       *)
EXTENDS Heaps, SequenceFacts

StackOK(t) == IsSeq(t) /\ t # <<>> /\ \A i \in 1..Len(t) : IsSeq(t[i])
StacksOK(s) == IsSeq(s) /\ s # <<>> /\ \A i \in 1..Len(s) : StackOK(s[i])

(* The stacks without the innermost n scopes.                                 *)
Pop(s, n) == [s EXCEPT ![Len(s)] = SubSeq(@, 1, Len(@) - n)]

(* A stack has a scope, and a scope is a sequence.                           *)
LEMMA StackFacts ==
  ASSUME NEW t, StackOK(t)
  PROVE  IsSeq(t) /\ t # <<>> /\ Len(t) \in Nat /\ Len(t) >= 1 /\ IsSeq(Last(t))
<1>1. Len(t) \in Nat /\ Len(t) \in 1..Len(t)
  BY IsSeqFacts DEF StackOK
<1> QED BY <1>1 DEF StackOK, Last

(* The n outermost scopes of a stack.                                        *)
LEMMA PrefixStack ==
  ASSUME NEW t, StackOK(t), NEW n \in 1..Len(t)
  PROVE  /\ StackOK(SubSeq(t, 1, n)) /\ Len(SubSeq(t, 1, n)) = n
         /\ Front(SubSeq(t, 1, n)) = SubSeq(t, 1, n - 1)
         /\ Last(SubSeq(t, 1, n)) = t[n]
<1>1. IsSeq(t) /\ Len(t) \in Nat /\ n \in 0..Len(t) /\ n - 1 \in 0..n
  BY StackFacts
<1> DEFINE u == SubSeq(t, 1, n)
<1>2. IsSeq(u) /\ Len(u) = n /\ \A i \in 1..n : u[i] = t[i]
  BY <1>1, IsSeqPrefix
<1>3. SubSeq(u, 1, n - 1) = SubSeq(t, 1, n - 1)
  BY <1>1, PrefixOfPrefix
<1> HIDE DEF u
<1>4. u # <<>>
  BY <1>1, <1>2, IsSeqFacts
<1>5. \A i \in 1..n : i \in 1..Len(t)
  BY <1>1
<1>6. StackOK(u)
  BY <1>2, <1>4, <1>5 DEF StackOK
<1> QED BY <1>1, <1>2, <1>3, <1>6 DEF Front, Last, u

(* There is a stack, and a call leaves the ones beneath it.                  *)
LEMMA StacksFacts ==
  ASSUME NEW s, StacksOK(s)
  PROVE  /\ IsSeq(s) /\ s # <<>> /\ Len(s) \in Nat /\ Len(s) >= 1 /\ StackOK(Last(s))
         /\ IsSeq(Front(s)) /\ Len(Front(s)) = Len(s) - 1
         /\ Len(s) > 1 => StacksOK(Front(s))
<1>1. IsSeq(s) /\ s # <<>> /\ Len(s) \in Nat /\ Len(s) \in 1..Len(s)
  BY IsSeqFacts DEF StacksOK
<1>2. IsSeq(Front(s)) /\ Len(Front(s)) = Len(s) - 1 /\ \A i \in 1..(Len(s) - 1) : Front(s)[i] = s[i]
  BY <1>1, IsSeqFront
<1>3. \A i \in 1..(Len(s) - 1) : i \in 1..Len(s)
  BY <1>1
<1>4. ASSUME Len(s) > 1 PROVE StacksOK(Front(s))
  <2>1. Front(s) # <<>>
    BY <1>1, <1>2, <1>4, IsSeqFacts
  <2> QED BY <1>2, <1>3, <2>1 DEF StacksOK
<1> QED BY <1>1, <1>2, <1>4 DEF StacksOK, Last

(* Replacing the innermost stack.                                            *)
LEMMA SetTop ==
  ASSUME NEW s, StacksOK(s), NEW t, StackOK(t)
  PROVE  LET r == [s EXCEPT ![Len(s)] = t] IN
         /\ StacksOK(r) /\ Len(r) = Len(s) /\ Last(r) = t /\ Front(r) = Front(s)
<1> DEFINE r == [s EXCEPT ![Len(s)] = t]
<1>1. IsSeq(s) /\ s # <<>> /\ Len(s) \in Nat /\ Len(s) >= 1
  BY StacksFacts
<1>2. /\ IsSeq(r) /\ Len(r) = Len(s) /\ r # <<>> /\ Last(r) = t /\ r[Len(s)] = t
      /\ Front(r) = Front(s) /\ \A i \in 1..(Len(s) - 1) : r[i] = s[i]
  BY <1>1, IsSeqReplaceTop
<1> HIDE DEF r
<1>3. \A i \in 1..Len(r) : StackOK(r[i])
  <2> SUFFICES ASSUME NEW i \in 1..Len(r) PROVE StackOK(r[i])
    OBVIOUS
  <2>1. CASE i = Len(s)
    BY <1>2, <2>1
  <2>2. CASE i # Len(s)
    <3>1. i \in 1..(Len(s) - 1) /\ i \in 1..Len(s)
      BY <1>1, <1>2, <2>2
    <3> QED BY <1>2, <3>1 DEF StacksOK
  <2> QED BY <2>1, <2>2
<1>4. StacksOK(r)
  BY <1>2, <1>3 DEF StacksOK
<1> QED BY <1>2, <1>4 DEF r

(* What popping scopes leaves alone.                                         *)
LEMMA PopFacts ==
  ASSUME NEW s, StacksOK(s), NEW n \in Nat, n < Len(Last(s))
  PROVE  /\ StacksOK(Pop(s, n)) /\ Len(Pop(s, n)) = Len(s) /\ Front(Pop(s, n)) = Front(s)
         /\ Last(Pop(s, n)) = SubSeq(Last(s), 1, Len(Last(s)) - n)
         /\ Len(Last(Pop(s, n))) = Len(Last(s)) - n
<1> DEFINE t == SubSeq(Last(s), 1, Len(Last(s)) - n)
<1>1. StackOK(Last(s)) /\ Len(Last(s)) \in Nat
  BY StacksFacts, StackFacts
<1>2. Len(Last(s)) - n \in 1..Len(Last(s))
  BY <1>1
<1>3. StackOK(t) /\ Len(t) = Len(Last(s)) - n
  BY <1>1, <1>2, PrefixStack
<1>4. Pop(s, n) = [s EXCEPT ![Len(s)] = t]
  BY DEF Pop, Last
<1> HIDE DEF t
<1>5. /\ StacksOK(Pop(s, n)) /\ Len(Pop(s, n)) = Len(s) /\ Front(Pop(s, n)) = Front(s)
      /\ Last(Pop(s, n)) = t
  BY <1>3, <1>4, SetTop
<1> QED BY <1>3, <1>5 DEF t

(* Stacks with the same innermost and the same outer ones are the same.      *)
LEMMA StacksEqual ==
  ASSUME NEW s, StacksOK(s), NEW t, StacksOK(t), Len(s) = Len(t), Front(s) = Front(t), Last(s) = Last(t)
  PROVE  s = t
<1>1. /\ IsSeq(s) /\ s # <<>> /\ Len(s) \in Nat /\ Len(s) >= 1
      /\ IsSeq(t) /\ t # <<>>
  BY StacksFacts
<1>2. \A i \in 1..(Len(s) - 1) : s[i] = t[i]
  BY <1>1, IsSeqFront
<1>3. s[Len(s)] = t[Len(s)]
  BY DEF Last
<1>4. \A i \in 1..Len(s) : i \in 1..(Len(s) - 1) \/ i = Len(s)
  BY <1>1
<1>5. \A i \in 1..Len(s) : s[i] = t[i]
  BY <1>2, <1>3, <1>4
<1> QED BY <1>1, <1>5, IsSeqEqual

(* Popping no scope.                                                         *)
LEMMA PopNothing ==
  ASSUME NEW s, StacksOK(s)
  PROVE  Pop(s, 0) = s /\ 0 < Len(Last(s))
<1>1. StackOK(Last(s)) /\ IsSeq(Last(s)) /\ Len(Last(s)) \in Nat /\ 0 < Len(Last(s))
  BY StacksFacts, StackFacts
<1>2. Last(Pop(s, 0)) = Last(s)
  BY <1>1, PopFacts, PrefixWhole
<1> QED BY <1>1, <1>2, PopFacts, StacksEqual

(* Popping m scopes and then n is popping them all.                           *)
LEMMA PopTwice ==
  ASSUME NEW s, StacksOK(s), NEW m \in Nat, NEW n \in Nat, m + n < Len(Last(s))
  PROVE  n < Len(Last(Pop(s, m))) /\ Pop(Pop(s, m), n) = Pop(s, m + n)
<1> DEFINE l == Last(s)  k == Len(l)
<1>1. StackOK(l) /\ IsSeq(l) /\ k \in Nat
  BY StacksFacts, StackFacts
<1> HIDE DEF l
<1>2. m < k /\ m + n \in Nat /\ n < k - m /\ k - m \in 0..k /\ (k - m) - n \in 0..(k - m) /\ (k - m) - n = k - (m + n)
  BY <1>1 DEF l
<1>3. /\ StacksOK(Pop(s, m)) /\ Len(Pop(s, m)) = Len(s) /\ Front(Pop(s, m)) = Front(s)
      /\ Last(Pop(s, m)) = SubSeq(l, 1, k - m) /\ Len(Last(Pop(s, m))) = k - m
  BY <1>2, PopFacts DEF l
<1>4. /\ StacksOK(Pop(s, m + n)) /\ Len(Pop(s, m + n)) = Len(s) /\ Front(Pop(s, m + n)) = Front(s)
      /\ Last(Pop(s, m + n)) = SubSeq(l, 1, k - (m + n))
  BY <1>2, PopFacts DEF l
<1>5. /\ StacksOK(Pop(Pop(s, m), n)) /\ Len(Pop(Pop(s, m), n)) = Len(s) /\ Front(Pop(Pop(s, m), n)) = Front(s)
      /\ Last(Pop(Pop(s, m), n)) = SubSeq(SubSeq(l, 1, k - m), 1, (k - m) - n)
  BY <1>2, <1>3, PopFacts
<1>6. SubSeq(SubSeq(l, 1, k - m), 1, (k - m) - n) = SubSeq(l, 1, k - (m + n))
  BY <1>1, <1>2, PrefixOfPrefix
<1> QED BY <1>2, <1>3, <1>4, <1>5, <1>6, StacksEqual

(* A scope pushed is one more to pop.                                         *)
LEMMA PushScope ==
  ASSUME NEW s, StacksOK(s), NEW scope, IsSeq(scope), NEW n \in Nat, n < Len(Last(s))
  PROVE  LET p == [s EXCEPT ![Len(s)] = Append(Last(s), scope)] IN
         /\ StacksOK(p) /\ Len(p) = Len(s) /\ n + 1 < Len(Last(p)) /\ Pop(p, n + 1) = Pop(s, n)
         /\ Len(Last(p)) = Len(Last(s)) + 1
<1> DEFINE l == Last(s)  t == Append(l, scope)  p == [s EXCEPT ![Len(s)] = t]
<1>1. StackOK(l) /\ IsSeq(l) /\ Len(l) \in Nat
  BY StacksFacts, StackFacts
<1>2. IsSeq(t) /\ Len(t) = Len(l) + 1 /\ t # <<>> /\ t[Len(l) + 1] = scope /\ \A i \in 1..Len(l) : t[i] = l[i]
  BY <1>1, IsSeqAppend
<1>3. \A i \in 1..Len(t) : i \in 1..Len(l) \/ i = Len(l) + 1
  BY <1>1, <1>2
<1> HIDE DEF l, t
<1>4. StackOK(t)
  BY <1>1, <1>2, <1>3 DEF StackOK
<1>5. StacksOK(p) /\ Len(p) = Len(s) /\ Last(p) = t /\ Front(p) = Front(s)
  BY <1>4, SetTop
<1> HIDE DEF p
<1>6. n < Len(l) /\ n + 1 < Len(t) /\ n + 1 \in Nat /\ Len(l) - n \in 0..Len(l) /\ Len(t) - (n + 1) = Len(l) - n
  BY <1>1, <1>2 DEF l
<1>7. SubSeq(t, 1, Len(l) - n) = SubSeq(l, 1, Len(l) - n)
  BY <1>1, <1>6, PrefixOfAppend DEF t
<1>8. /\ StacksOK(Pop(p, n + 1)) /\ Len(Pop(p, n + 1)) = Len(s) /\ Front(Pop(p, n + 1)) = Front(s)
      /\ Last(Pop(p, n + 1)) = SubSeq(t, 1, Len(t) - (n + 1))
  BY <1>5, <1>6, PopFacts
<1>9. /\ StacksOK(Pop(s, n)) /\ Len(Pop(s, n)) = Len(s) /\ Front(Pop(s, n)) = Front(s)
      /\ Last(Pop(s, n)) = SubSeq(l, 1, Len(l) - n)
  BY <1>6, PopFacts DEF l
<1>10. Pop(p, n + 1) = Pop(s, n)
  BY <1>6, <1>7, <1>8, <1>9, StacksEqual
<1> QED BY <1>2, <1>5, <1>6, <1>10 DEF p, t, l

(* A stack pushed is there to be popped.                                      *)
LEMMA PushStack ==
  ASSUME NEW s, StacksOK(s), NEW scope, IsSeq(scope)
  PROVE  LET p == Append(s, <<scope>>) IN
         StacksOK(p) /\ Len(p) > 1 /\ Front(p) = s
<1> DEFINE t == <<scope>>  p == Append(s, t)
<1>1. StackOK(t)
  BY IsSeqTuples DEF StackOK
<1> HIDE DEF t
<1>2. IsSeq(s) /\ Len(s) \in Nat /\ Len(s) >= 1
  BY StacksFacts
<1>3. /\ IsSeq(p) /\ Len(p) = Len(s) + 1 /\ p # <<>> /\ Front(p) = s /\ p[Len(s) + 1] = t
      /\ \A i \in 1..Len(s) : p[i] = s[i]
  BY <1>2, IsSeqAppend
<1> HIDE DEF p
<1>4. \A i \in 1..Len(p) : i \in 1..Len(s) \/ i = Len(s) + 1
  BY <1>2, <1>3
<1>5. \A i \in 1..Len(p) : StackOK(p[i])
  BY <1>1, <1>3, <1>4 DEF StacksOK
<1> QED BY <1>2, <1>3, <1>5 DEF StacksOK, p, t

-----------------------------------------------------------------------------
(* What Extends says, for stacks that are well-formed.                        *)
LEMMA ExtendsSelf ==
  ASSUME NEW s, StacksOK(s)
  PROVE  Extends(s, s)
<1>1. IsSeq(Last(Last(s))) /\ Len(Last(Last(s))) \in Nat
  BY StacksFacts, StackFacts, IsSeqFacts
<1> QED BY <1>1 DEF Extends, IsPrefix

(* Prefixes of prefixes.                                                     *)
LEMMA PrefixTransitive ==
  ASSUME NEW a, NEW b, NEW c, IsSeq(a), IsSeq(b), IsSeq(c), IsPrefix(a, b), IsPrefix(b, c)
  PROVE  IsPrefix(a, c)
<1>1. /\ Len(a) \in Nat /\ Len(b) \in Nat /\ Len(c) \in Nat /\ Len(a) <= Len(b) /\ Len(b) <= Len(c)
      /\ SubSeq(a, 1, Len(a)) = SubSeq(b, 1, Len(a)) /\ SubSeq(b, 1, Len(b)) = SubSeq(c, 1, Len(b))
  BY IsSeqFacts DEF IsPrefix
<1>2. Len(a) \in 0..Len(b) /\ Len(b) \in 0..Len(b) /\ Len(b) \in 0..Len(c)
  BY <1>1
<1>3. SubSeq(SubSeq(b, 1, Len(b)), 1, Len(a)) = SubSeq(b, 1, Len(a))
  BY <1>2, PrefixOfPrefix
<1>4. SubSeq(SubSeq(c, 1, Len(b)), 1, Len(a)) = SubSeq(c, 1, Len(a))
  BY <1>2, PrefixOfPrefix
<1> QED BY <1>1, <1>3, <1>4 DEF IsPrefix

(* Names added, and more names added.                                        *)
LEMMA ExtendsTransitive ==
  ASSUME NEW s, NEW t, NEW u, StacksOK(s), StacksOK(t), StacksOK(u), Extends(s, t), Extends(t, u)
  PROVE  Extends(s, u)
<1>1. /\ IsSeq(Last(Last(s))) /\ IsSeq(Last(Last(t))) /\ IsSeq(Last(Last(u)))
  BY StacksFacts, StackFacts
<1>2. IsPrefix(Last(Last(s)), Last(Last(u)))
  BY <1>1, PrefixTransitive DEF Extends
<1> QED BY <1>2 DEF Extends

(* What extends the stacks extends them below their innermost scopes too: not *)
(* at all, when there are some.                                               *)
LEMMA ExtendsBelow ==
  ASSUME NEW s, NEW t, StacksOK(s), StacksOK(t), Extends(s, t), NEW n \in Nat, n < Len(Last(s))
  PROVE  n < Len(Last(t)) /\ Extends(Pop(s, n), Pop(t, n))
<1> DEFINE a == Last(s)  b == Last(t)
<1>1. Len(t) = Len(s) /\ Front(t) = Front(s) /\ Len(b) = Len(a) /\ Front(b) = Front(a)
  BY DEF Extends
<1>2. StackOK(a) /\ StackOK(b) /\ IsSeq(a) /\ IsSeq(b) /\ Len(a) \in Nat
  BY StacksFacts, StackFacts
<1>3. CASE n = 0
  BY <1>1, <1>3, PopNothing
<1>4. CASE n # 0
  <2> DEFINE k == Len(a) - n
  <2>1. k \in 0..(Len(a) - 1) /\ Len(a) - 1 \in 0..Len(a) /\ Len(a) - n = k /\ Len(b) - n = k
    BY <1>1, <1>2, <1>4
  <2>2. SubSeq(a, 1, Len(a) - 1) = SubSeq(b, 1, Len(a) - 1)
    BY <1>1 DEF Front
  <2>3. SubSeq(SubSeq(a, 1, Len(a) - 1), 1, k) = SubSeq(a, 1, k)
    BY <1>2, <2>1, PrefixOfPrefix
  <2>4. SubSeq(SubSeq(b, 1, Len(a) - 1), 1, k) = SubSeq(b, 1, k)
    BY <1>1, <1>2, <2>1, PrefixOfPrefix
  <2>5. Last(Pop(s, n)) = SubSeq(a, 1, k) /\ StacksOK(Pop(s, n)) /\ Len(Pop(s, n)) = Len(s) /\ Front(Pop(s, n)) = Front(s)
    BY <2>1, PopFacts
  <2>6. Last(Pop(t, n)) = SubSeq(b, 1, k) /\ StacksOK(Pop(t, n)) /\ Len(Pop(t, n)) = Len(t) /\ Front(Pop(t, n)) = Front(t)
    BY <1>1, <2>1, PopFacts
  <2>7. Pop(s, n) = Pop(t, n)
    BY <1>1, <2>2, <2>3, <2>4, <2>5, <2>6, StacksEqual
  <2> QED BY <1>1, <2>5, <2>7, ExtendsSelf
<1> QED BY <1>3, <1>4

(* Binding a name extends the stacks.                                         *)
LEMMA BindExtends ==
  ASSUME NEW s, StacksOK(s), NEW b
  PROVE  LET t == [Last(s) EXCEPT ![Len(Last(s))] = Append(@, b)]
             r == [s EXCEPT ![Len(s)] = t]
         IN StacksOK(r) /\ Extends(s, r)
<1> DEFINE a == Last(s)  l == Last(a)  m == Append(l, b)
           t == [a EXCEPT ![Len(a)] = m]
           r == [s EXCEPT ![Len(s)] = t]
<1>1. StackOK(a) /\ IsSeq(a) /\ a # <<>> /\ Len(a) \in Nat /\ Len(a) >= 1 /\ IsSeq(l)
  BY StacksFacts, StackFacts
<1> HIDE DEF a
<1>2. IsSeq(m) /\ Len(m) = Len(l) + 1 /\ Len(l) \in Nat
  BY <1>1, IsSeqAppend, IsSeqFacts
<1>3. SubSeq(m, 1, Len(l)) = SubSeq(l, 1, Len(l))
  <2>1. Len(l) \in 0..Len(l)
    BY <1>2
  <2> QED BY <1>1, <2>1, PrefixOfAppend
<1> HIDE DEF l, m
<1>4. /\ IsSeq(t) /\ Len(t) = Len(a) /\ t # <<>> /\ Last(t) = m /\ t[Len(a)] = m /\ Front(t) = Front(a)
      /\ \A i \in 1..(Len(a) - 1) : t[i] = a[i]
  BY <1>1, IsSeqReplaceTop
<1>5. \A i \in 1..Len(a) : i \in 1..(Len(a) - 1) \/ i = Len(a)
  BY <1>1
<1> HIDE DEF t
<1>6. StackOK(t)
  BY <1>1, <1>2, <1>4, <1>5 DEF StackOK
<1>7. StacksOK(r) /\ Len(r) = Len(s) /\ Last(r) = t /\ Front(r) = Front(s)
  BY <1>6, SetTop
<1>8. IsPrefix(l, m)
  BY <1>2, <1>3 DEF IsPrefix
<1> HIDE DEF r
<1>9. Extends(s, r)
  BY <1>4, <1>7, <1>8 DEF Extends, a, l
<1>10. [Last(s) EXCEPT ![Len(Last(s))] = Append(@, b)] = t
  BY DEF t, m, l, a, Last
<1> QED BY <1>7, <1>9, <1>10 DEF r
-----------------------------------------------------------------------------
(* The stacks without the one that a call has pushed.                         *)
Beneath(f, s) == IF f.call THEN Front(s) ELSE s

(* The node of f may be left when the stacks are s: what it has pushed is     *)
(* there, and under it the stacks it began with.                              *)
Owns(f, s) ==
  /\ StacksOK(f.base) /\ StacksOK(s)
  /\ f.call => Len(s) > 1
  /\ f.scopes < Len(Last(Beneath(f, s)))
  /\ Extends(f.base, Pop(Beneath(f, s), f.scopes))

Fields == {"node", "vals", "phase", "at", "scopes", "call", "pending", "base"}
IsFrame(f) == f = [x \in Fields |-> f[x]]

(* The nodes that push a scope before their first child, and those that say   *)
(* where they are.                                                            *)
Scopers == {"Block", "Case", "Default", "Class"}
Phased == Loops \cup Callers \cup {"Ranged_For", "Compiled", "Switch", "Try"}

(* The scopes that a node has pushed at each of its phases.                   *)
ScopesOK(f) ==
  /\ f.scopes \in Nat
  /\ f.phase # "start" => f.node.kind \in Phased
  /\ f.phase = "start" /\ f.node.kind \notin Scopers => f.scopes = 0
  /\ f.node.kind \in Loops /\ f.phase \in {"step", "body"} => f.scopes = 1
  /\ f.node.kind \in Loops /\ f.phase = "test" => f.scopes = 2
  /\ f.node.kind = "Compiled" /\ f.phase = "body" => f.scopes = 1
  /\ f.node.kind = "Try" => f.phase \in {"start", "try", "handler", "finally"}
  /\ f.node.kind = "Try" /\ f.phase = "try" => f.scopes = 1
  /\ f.node.kind = "Try" /\ f.phase = "handler" => f.scopes = 2

FrameOK(f) ==
  /\ IsFrame(f) /\ IsSeq(f.vals) /\ ScopesOK(f)
  /\ f.call \in BOOLEAN /\ (f.call => f.node.kind \in Callers /\ f.phase = "body")

FramesOK == IsSeq(frames) /\ \A i \in 1..Len(frames) : FrameOK(frames[i])
Chained == \A i \in 1..(Len(frames) - 1) : Owns(frames[i], frames[i + 1].base)
Held == StacksOK(stacks) /\ (frames # <<>> => Owns(Top, stacks))

(* A try is in none of its phases only until it runs for the first time.      *)
Begun ==
  \A i \in 1..Len(frames) :
    frames[i].node.kind = "Try" /\ frames[i].phase = "start" => i = Len(frames) /\ ctl.kind = "run"
Fresh == Running(Scopers) /\ Top.vals = <<>> => Top.scopes = 0

StackInv == FramesOK /\ Chained /\ Held /\ Begun /\ Fresh

(* Captured values are as many as they were.                                  *)
LambdasOK == IsSeq(lambdas) /\ \A i \in 1..Len(lambdas) : IsSeq(lambdas[i].captured)
-----------------------------------------------------------------------------
(* What a node owns under different stacks, and with scopes pushed or popped. *)

(* What a node owns can be popped.                                           *)
LEMMA OwnsFacts ==
  ASSUME NEW f, FrameOK(f), NEW s, Owns(f, s)
  PROVE  /\ StacksOK(Beneath(f, s)) /\ StacksOK(Pop(Beneath(f, s), f.scopes))
         /\ Extends(f.base, Pop(Beneath(f, s), f.scopes)) /\ f.scopes < Len(Last(Beneath(f, s)))
<1>1. StacksOK(Beneath(f, s))
  BY StacksFacts DEF Owns, Beneath
<1>2. f.scopes \in Nat /\ f.scopes < Len(Last(Beneath(f, s)))
  BY DEF Owns, FrameOK, ScopesOK
<1>3. StacksOK(Pop(Beneath(f, s), f.scopes))
  BY <1>1, <1>2, PopFacts
<1> QED BY <1>1, <1>2, <1>3 DEF Owns

(* Names added beneath do not matter.                                        *)
LEMMA OwnsExtends ==
  ASSUME NEW f, FrameOK(f), NEW s, Owns(f, s), NEW t, StacksOK(t), Extends(s, t)
  PROVE  Owns(f, t)
<1>1. f.call \in BOOLEAN /\ f.scopes \in Nat
  BY DEF FrameOK, ScopesOK
<1>2. CASE f.call
  <2>1. Front(t) = Front(s) /\ Len(t) = Len(s)
    BY DEF Extends
  <2> QED BY <1>2, <2>1 DEF Owns, Beneath
<1>3. CASE ~f.call
  <2>1. /\ StacksOK(s) /\ StacksOK(f.base) /\ f.scopes < Len(Last(s))
        /\ Extends(f.base, Pop(s, f.scopes))
    BY <1>3 DEF Owns, Beneath
  <2>2. f.scopes < Len(Last(t)) /\ Extends(Pop(s, f.scopes), Pop(t, f.scopes))
    BY <1>1, <2>1, ExtendsBelow
  <2>3. StacksOK(Pop(s, f.scopes)) /\ StacksOK(Pop(t, f.scopes))
    BY <1>1, <2>1, <2>2, PopFacts
  <2>4. Extends(f.base, Pop(t, f.scopes))
    BY <2>1, <2>2, <2>3, ExtendsTransitive
  <2> QED BY <1>3, <2>1, <2>2, <2>4 DEF Owns, Beneath
<1> QED BY <1>1, <1>2, <1>3

(* A node that begins owns nothing.                                          *)
LEMMA OwnsNew ==
  ASSUME NEW n, NEW s, StacksOK(s)
  PROVE  LET f == Frame(n, s) IN
         FrameOK(f) /\ Owns(f, s) /\ f.node = n /\ f.phase = "start" /\ f.vals = <<>> /\ f.scopes = 0
         /\ ~f.call /\ f.base = s
<1> DEFINE f == Frame(n, s)
<1>1. /\ f.node = n /\ f.phase = "start" /\ f.vals = <<>> /\ f.scopes = 0 /\ f.call = FALSE /\ f.base = s
      /\ IsFrame(f)
  BY DEF Frame, IsFrame, Fields
<1> HIDE DEF f
<1>2. ScopesOK(f)
  BY <1>1 DEF ScopesOK, Loops
<1>3. FrameOK(f)
  BY <1>1, <1>2, IsSeqTuples DEF FrameOK
<1>4. Owns(f, s)
  BY <1>1, PopNothing, ExtendsSelf DEF Owns, Beneath
<1> QED BY <1>1, <1>3, <1>4 DEF f

(* A scope pushed is owned.                                                  *)
LEMMA OwnsScope ==
  ASSUME NEW f, FrameOK(f), ~f.call, NEW s, Owns(f, s), NEW scope, IsSeq(scope),
         NEW g, g.base = f.base, ~g.call, g.scopes = f.scopes + 1
  PROVE  Owns(g, [s EXCEPT ![Len(s)] = Append(Last(s), scope)])
<1> DEFINE p == [s EXCEPT ![Len(s)] = Append(Last(s), scope)]
<1>1. /\ f.scopes \in Nat /\ StacksOK(s) /\ StacksOK(f.base) /\ f.scopes < Len(Last(s))
      /\ Extends(f.base, Pop(s, f.scopes))
  BY DEF FrameOK, ScopesOK, Owns, Beneath
<1>2. StacksOK(p) /\ f.scopes + 1 < Len(Last(p)) /\ Pop(p, f.scopes + 1) = Pop(s, f.scopes)
  BY <1>1, PushScope
<1> HIDE DEF p
<1>3. Owns(g, p)
  BY <1>1, <1>2 DEF Owns, Beneath
<1> QED BY <1>3 DEF p

(* Scopes popped are owned no longer.                                        *)
LEMMA OwnsLess ==
  ASSUME NEW f, FrameOK(f), ~f.call, NEW s, Owns(f, s), NEW n \in 0..f.scopes,
         NEW g, g.base = f.base, ~g.call, g.scopes = f.scopes - n
  PROVE  Owns(g, Pop(s, n))
<1>1. /\ f.scopes \in Nat /\ StacksOK(s) /\ StacksOK(f.base) /\ f.scopes < Len(Last(s))
      /\ Extends(f.base, Pop(s, f.scopes))
  BY DEF FrameOK, ScopesOK, Owns, Beneath
<1>2. n \in Nat /\ g.scopes \in Nat /\ n + g.scopes = f.scopes /\ Len(Last(s)) \in Nat /\ n < Len(Last(s))
  BY <1>1, StacksFacts, StackFacts
<1>3. StacksOK(Pop(s, n)) /\ g.scopes < Len(Last(Pop(s, n))) /\ Pop(Pop(s, n), g.scopes) = Pop(s, f.scopes)
  <2>1. StacksOK(Pop(s, n))
    BY <1>1, <1>2, PopFacts
  <2>2. n + g.scopes < Len(Last(s))
    BY <1>1, <1>2
  <2>3. g.scopes < Len(Last(Pop(s, n))) /\ Pop(Pop(s, n), g.scopes) = Pop(s, n + g.scopes)
    BY <1>1, <1>2, <2>2, PopTwice
  <2> QED BY <1>2, <2>1, <2>3
<1> QED BY <1>1, <1>3 DEF Owns, Beneath

(* A stack pushed for a call is owned.                                       *)
LEMMA OwnsStack ==
  ASSUME NEW f, ~f.call, NEW s, Owns(f, s), NEW scope, IsSeq(scope),
         NEW g, g.base = f.base, g.call = TRUE, g.scopes = f.scopes
  PROVE  Owns(g, Append(s, <<scope>>))
<1>1. StacksOK(s) /\ StacksOK(f.base) /\ f.scopes < Len(Last(s)) /\ Extends(f.base, Pop(s, f.scopes))
  BY DEF Owns, Beneath
<1>2. StacksOK(Append(s, <<scope>>)) /\ Len(Append(s, <<scope>>)) > 1 /\ Front(Append(s, <<scope>>)) = s
  BY <1>1, PushStack
<1> QED BY <1>1, <1>2 DEF Owns, Beneath
-----------------------------------------------------------------------------
(* The frames, but for the innermost, are what they were.                     *)

(* What the invariant says of the innermost node.                            *)
LEMMA TopFacts ==
  ASSUME StackInv, frames # <<>>
  PROVE  /\ IsSeq(frames) /\ Len(frames) \in Nat /\ Len(frames) >= 1 /\ Top = frames[Len(frames)]
         /\ FrameOK(Top) /\ Owns(Top, stacks) /\ StacksOK(stacks)
         /\ IsSeq(Top.vals) /\ Len(Top.vals) \in Nat /\ Top.scopes \in Nat /\ Top.call \in BOOLEAN
<1>1. IsSeq(frames) /\ Len(frames) \in 1..Len(frames) /\ Len(frames) \in Nat
  BY IsSeqFacts DEF StackInv, FramesOK
<1>2. Top = frames[Len(frames)] /\ FrameOK(Top)
  BY <1>1 DEF StackInv, FramesOK, Top, Last
<1> QED BY <1>1, <1>2, IsSeqFacts DEF StackInv, Held, FrameOK, ScopesOK

(* The innermost node goes on with f in the place of its frame.               *)
LEMMA StayKeeps ==
  ASSUME StackInv, frames # <<>>, NEW f, FrameOK(f), f.base = Top.base, Owns(f, stacks'),
         frames' = [frames EXCEPT ![Len(frames)] = f],
         f.node.kind = "Try" => f.phase # "start",
         f.node.kind \notin Scopers
  PROVE  StackInv'
<1>1. IsSeq(frames) /\ Len(frames) \in Nat /\ Len(frames) >= 1 /\ Top = frames[Len(frames)]
  BY TopFacts
<1>2. /\ IsSeq(frames') /\ Len(frames') = Len(frames) /\ frames' # <<>> /\ Last(frames') = f /\ frames'[Len(frames)] = f
      /\ \A i \in 1..(Len(frames) - 1) : frames'[i] = frames[i]
  <2> DEFINE r == [frames EXCEPT ![Len(frames)] = f]
  <2>1. /\ IsSeq(r) /\ Len(r) = Len(frames) /\ r # <<>> /\ Last(r) = f /\ r[Len(frames)] = f
        /\ \A i \in 1..(Len(frames) - 1) : r[i] = frames[i]
    BY ZenonT(60), <1>1, IsSeqReplaceTop
  <2>2. frames' = r
    OBVIOUS
  <2> HIDE DEF r
  <2> QED BY <2>1, <2>2
<1>3. \A i \in 1..Len(frames) : i \in 1..(Len(frames) - 1) \/ i = Len(frames)
  BY <1>1
<1>4. FramesOK'
  BY <1>2, <1>3 DEF StackInv, FramesOK
<1>5. Chained'
  <2> SUFFICES ASSUME NEW i \in 1..(Len(frames') - 1) PROVE Owns(frames'[i], frames'[i + 1].base)
    BY DEF Chained
  <2>1. i \in 1..(Len(frames) - 1) /\ frames'[i] = frames[i]
    BY <1>2
  <2>2. frames'[i + 1].base = frames[i + 1].base
    <3>1. i + 1 \in 1..(Len(frames) - 1) \/ i + 1 = Len(frames)
      BY <1>1, <2>1
    <3> QED BY <1>1, <1>2, <3>1
  <2> QED BY <2>1, <2>2 DEF StackInv, Chained
<1>6. Held'
  BY <1>2 DEF Held, Top, Owns
<1>7. Begun'
  <2> SUFFICES ASSUME NEW i \in 1..Len(frames'), frames'[i].node.kind = "Try" /\ frames'[i].phase = "start"
               PROVE  FALSE
    BY DEF Begun
  <2>1. i # Len(frames)
    BY <1>2
  <2>2. i \in 1..Len(frames) /\ frames'[i] = frames[i]
    BY <1>2, <1>3, <2>1
  <2> QED BY <2>1, <2>2 DEF StackInv, Begun
<1>8. Fresh'
  BY <1>2 DEF Fresh, Running, Top
<1> QED BY <1>4, <1>5, <1>6, <1>7, <1>8 DEF StackInv

(* A child is entered.                                                        *)
LEMMA EnterKeeps ==
  ASSUME StackInv, frames # <<>>, NEW f, FrameOK(f), f.base = Top.base, NEW s, Owns(f, s),
         NEW n, Enter(f, n, s), f.node.kind = "Try" => f.phase # "start"
  PROVE  StackInv' /\ Len(frames') = Len(frames) + 1
<1> DEFINE c == Frame(n, s)  r == [frames EXCEPT ![Len(frames)] = f]
<1>1. IsSeq(frames) /\ Len(frames) \in Nat /\ Len(frames) >= 1 /\ Top = frames[Len(frames)]
  BY TopFacts
<1>2. /\ IsSeq(r) /\ Len(r) = Len(frames) /\ r[Len(frames)] = f
      /\ \A i \in 1..(Len(frames) - 1) : r[i] = frames[i]
  BY <1>1, IsSeqReplaceTop
<1>3. frames' = Append(r, c) /\ stacks' = s /\ ctl' = Run
  BY DEF Enter
<1>4. StacksOK(s)
  BY DEF Owns
<1>5. /\ FrameOK(c) /\ Owns(c, s) /\ c.node = n /\ c.phase = "start" /\ c.vals = <<>> /\ c.scopes = 0 /\ ~c.call
      /\ c.base = s
  BY <1>4, OwnsNew
<1> HIDE DEF c, r
<1>6. /\ IsSeq(frames') /\ Len(frames') = Len(frames) + 1 /\ frames'[Len(frames) + 1] = c /\ Last(frames') = c
      /\ frames'[Len(frames)] = f /\ \A i \in 1..(Len(frames) - 1) : frames'[i] = frames[i]
  <2>1. /\ IsSeq(frames') /\ Len(frames') = Len(r) + 1 /\ frames'[Len(r) + 1] = c /\ Last(frames') = c
        /\ \A i \in 1..Len(r) : frames'[i] = r[i]
    BY <1>2, <1>3, IsSeqAppend
  <2>2. Len(frames) \in 1..Len(frames) /\ \A i \in 1..(Len(frames) - 1) : i \in 1..Len(frames)
    BY <1>1
  <2> QED BY <1>2, <2>1, <2>2
<1>7. \A i \in 1..Len(frames') : i \in 1..(Len(frames) - 1) \/ i = Len(frames) \/ i = Len(frames) + 1
  BY <1>1, <1>6
<1>8. \A i \in 1..(Len(frames) - 1) : i \in 1..Len(frames)
  BY <1>1
<1>9. FramesOK'
  BY <1>5, <1>6, <1>7, <1>8 DEF StackInv, FramesOK
<1>10. Chained'
  <2> SUFFICES ASSUME NEW i \in 1..(Len(frames') - 1) PROVE Owns(frames'[i], frames'[i + 1].base)
    BY DEF Chained
  <2>1. CASE i = Len(frames)
    BY <1>5, <1>6, <2>1
  <2>2. CASE i # Len(frames)
    <3>1. i \in 1..(Len(frames) - 1) /\ (i + 1 \in 1..(Len(frames) - 1) \/ i + 1 = Len(frames))
      BY <1>1, <1>6, <2>2
    <3>2. frames'[i] = frames[i] /\ frames'[i + 1].base = frames[i + 1].base
      BY <1>1, <1>6, <3>1
    <3> QED BY <3>1, <3>2 DEF StackInv, Chained
  <2> QED BY <2>1, <2>2
<1>11. Held'
  BY <1>3, <1>4, <1>5, <1>6 DEF Held, Top
<1>12. Begun'
  <2> SUFFICES ASSUME NEW i \in 1..Len(frames'), frames'[i].node.kind = "Try" /\ frames'[i].phase = "start"
               PROVE  i = Len(frames') /\ ctl'.kind = "run"
    BY DEF Begun
  <2>1. ctl'.kind = "run"
    BY <1>3 DEF Run
  <2>2. i # Len(frames)
    BY <1>6
  <2>3. ASSUME i \in 1..(Len(frames) - 1) PROVE FALSE
    BY <1>1, <1>6, <1>8, <2>3 DEF StackInv, Begun
  <2> QED BY <1>6, <1>7, <2>1, <2>2, <2>3
<1>13. Fresh'
  BY <1>5, <1>6 DEF Fresh, Top
<1> QED BY <1>6, <1>9, <1>10, <1>11, <1>12, <1>13 DEF StackInv

(* The innermost node is left: the one around it gets a value, or goes on     *)
(* being left.                                                                *)
LEMMA DropKeeps ==
  ASSUME StackInv, frames # <<>>, StacksOK(stacks'), Extends(Top.base, stacks'),
         NEW o, o = Front(frames),
         \/ frames' = o /\ ctl'.kind # "run"
         \/ \E d : frames' = [o EXCEPT ![Len(o)].vals = Append(@, d)] /\ o # <<>>
  PROVE  StackInv'
<1>1. IsSeq(frames) /\ Len(frames) \in Nat /\ Len(frames) >= 1 /\ Top = frames[Len(frames)]
  BY TopFacts
<1>2. IsSeq(o) /\ Len(o) = Len(frames) - 1 /\ \A i \in 1..Len(o) : o[i] = frames[i]
  BY <1>1, IsSeqFront
<1>3. \A i \in 1..Len(o) : i \in 1..Len(frames) /\ i # Len(frames) /\ i \in 1..(Len(frames) - 1)
  BY <1>1, <1>2
<1>4. \A i \in 1..Len(o) : FrameOK(o[i]) /\ ~(o[i].node.kind = "Try" /\ o[i].phase = "start")
  BY <1>2, <1>3 DEF StackInv, FramesOK, Begun
<1>5. \A i \in 1..(Len(o) - 1) : Owns(o[i], o[i + 1].base)
  <2> SUFFICES ASSUME NEW i \in 1..(Len(o) - 1) PROVE Owns(o[i], o[i + 1].base)
    OBVIOUS
  <2>1. i \in 1..Len(o) /\ i + 1 \in 1..Len(o) /\ i \in 1..(Len(frames) - 1)
    BY <1>1, <1>2
  <2>2. o[i] = frames[i] /\ o[i + 1] = frames[i + 1]
    BY <1>2, <2>1
  <2> QED BY <2>1, <2>2 DEF StackInv, Chained
<1>6. ASSUME o # <<>>
      PROVE  Len(o) \in Nat /\ Len(o) \in 1..Len(o) /\ Owns(o[Len(o)], stacks') /\ FrameOK(o[Len(o)])
  <2>1. Len(o) \in 1..Len(o) /\ Len(o) \in Nat
    BY <1>2, <1>6, IsSeqFacts
  <2>2. Owns(frames[Len(o)], frames[Len(o) + 1].base) /\ Len(o) + 1 = Len(frames)
    BY <1>1, <1>2, <1>3, <2>1 DEF StackInv, Chained
  <2>3. Owns(o[Len(o)], Top.base) /\ FrameOK(o[Len(o)])
    BY <1>1, <1>2, <1>4, <2>1, <2>2
  <2> QED BY <2>1, <2>3, OwnsExtends
<1>7. CASE frames' = o /\ ctl'.kind # "run"
  <2>1. FramesOK' /\ Chained' /\ Begun'
    BY <1>2, <1>4, <1>5, <1>7 DEF FramesOK, Chained, Begun
  <2>2. Held'
    BY <1>6, <1>7 DEF Held, Top, Last
  <2>3. Fresh'
    BY <1>7 DEF Fresh, Running
  <2> QED BY <2>1, <2>2, <2>3 DEF StackInv
<1>8. CASE \E d : frames' = [o EXCEPT ![Len(o)].vals = Append(@, d)] /\ o # <<>>
  <2>1. PICK d : frames' = [o EXCEPT ![Len(o)].vals = Append(@, d)] /\ o # <<>>
    BY <1>8
  <2> DEFINE e == o[Len(o)]  v == Append(e.vals, d)  g == [e EXCEPT !.vals = v]
  <2>2. FrameOK(e) /\ Owns(e, stacks') /\ Len(o) \in 1..Len(o)
    BY <1>6, <2>1
  <2> HIDE DEF e
  <2>3. IsSeq(v) /\ v # <<>>
    BY <2>2, IsSeqAppend DEF FrameOK
  <2> HIDE DEF v
  <2>5. /\ g.node = e.node /\ g.vals = v /\ g.phase = e.phase /\ g.scopes = e.scopes /\ g.call = e.call /\ g.base = e.base
        /\ IsFrame(g)
    BY <2>2 DEF FrameOK, IsFrame, Fields
  <2> HIDE DEF g
  <2>6. FrameOK(g)
    BY <2>2, <2>3, <2>5 DEF FrameOK, ScopesOK
  <2>7. Owns(g, stacks')
    BY <2>2, <2>5 DEF Owns, Beneath
  <2>8. frames' = [o EXCEPT ![Len(o)] = g]
    BY <2>1 DEF g, v, e
  <2>9. /\ IsSeq(frames') /\ Len(frames') = Len(o) /\ frames' # <<>> /\ Last(frames') = g /\ frames'[Len(o)] = g
        /\ \A i \in 1..(Len(o) - 1) : frames'[i] = o[i]
    <3> DEFINE r == [o EXCEPT ![Len(o)] = g]
    <3>1. /\ IsSeq(r) /\ Len(r) = Len(o) /\ r # <<>> /\ Last(r) = g /\ r[Len(o)] = g
          /\ \A i \in 1..(Len(o) - 1) : r[i] = o[i]
      <4>1. IsSeq(o) /\ o # <<>>
        BY <1>2, <2>1
      <4> QED BY SMTT(20), <4>1, IsSeqReplaceTop
    <3>2. frames' = r
      BY <2>8
    <3> HIDE DEF r
    <3> QED BY <3>1, <3>2
  <2>10. Len(o) \in Nat /\ \A i \in 1..Len(o) : i \in 1..(Len(o) - 1) \/ i = Len(o)
    BY <1>2, IsSeqFacts
  <2>11. FramesOK'
    BY <1>4, <2>6, <2>9, <2>10 DEF FramesOK
  <2>12. Chained'
    <3> SUFFICES ASSUME NEW i \in 1..(Len(frames') - 1) PROVE Owns(frames'[i], frames'[i + 1].base)
      BY DEF Chained
    <3>1. i \in 1..(Len(o) - 1) /\ (i + 1 \in 1..(Len(o) - 1) \/ i + 1 = Len(o))
      BY <2>9, <2>10
    <3>2. frames'[i] = o[i] /\ frames'[i + 1].base = o[i + 1].base
      BY <2>5, <2>9, <3>1 DEF e
    <3> QED BY <1>5, <3>1, <3>2
  <2>13. Held'
    BY <2>7, <2>9 DEF Held, Top
  <2>14. Begun'
    <3> SUFFICES ASSUME NEW i \in 1..Len(frames'), frames'[i].node.kind = "Try" /\ frames'[i].phase = "start"
                 PROVE  FALSE
      BY DEF Begun
    <3>1. i \in 1..Len(o)
      BY <2>9
    <3>2. frames'[i].node = o[i].node /\ frames'[i].phase = o[i].phase
      BY <2>5, <2>9, <2>10, <3>1 DEF e
    <3> QED BY <1>4, <3>1, <3>2
  <2>15. Fresh'
    BY <2>3, <2>5, <2>9 DEF Fresh, Top
  <2> QED BY <2>11, <2>12, <2>13, <2>14, <2>15 DEF StackInv
<1> QED BY <1>7, <1>8
-----------------------------------------------------------------------------
(* What is proved of every step.                                              *)
Sound == StackInv' /\ (Len(frames') < Len(frames) => Extends(Top.base, stacks'))

(* Leaving a node restores the stacks it began with.                         *)
LEMMA LeftFacts ==
  ASSUME StackInv, frames # <<>>
  PROVE  StacksOK(Left) /\ Extends(Top.base, Left)
<1>1. Left = Pop(Beneath(Top, stacks), Top.scopes)
  BY DEF Left, Pop, Beneath
<1> QED BY <1>1, TopFacts, OwnsFacts

(* A node ends with a value, under stacks that extend its own.               *)
LEMMA ReturnSound ==
  ASSUME StackInv, frames # <<>>, NEW d, NEW s, StacksOK(s), Extends(Top.base, s), Return(d, s)
  PROVE  Sound
<1> DEFINE o == Front(frames)
<1>1. stacks' = s
  BY DEF Return
<1>2. CASE o = <<>>
  <2>1. frames' = o /\ ctl'.kind # "run"
    BY <1>2 DEF Return
  <2> QED BY <1>1, <2>1, DropKeeps DEF Sound
<1>3. CASE o # <<>>
  <2>1. frames' = [o EXCEPT ![Len(o)].vals = Append(@, d)]
    BY <1>3 DEF Return
  <2> HIDE DEF o
  <2>2. o = Front(frames)
    BY DEF o
  <2> QED BY <1>1, <1>3, <2>1, <2>2, DropKeeps DEF Sound
<1> QED BY <1>2, <1>3

(* A node ends with a value, and pops what it owns.                          *)
LEMMA EndSound ==
  ASSUME StackInv, frames # <<>>, NEW d, End(d)
  PROVE  Sound
BY LeftFacts, ReturnSound DEF End

(* A node is left from now on.                                               *)
LEMMA RaiseSound ==
  ASSUME StackInv, frames # <<>>, frames' = frames, stacks' = stacks, ctl'.kind # "run",
         Top.node.kind = "Try" => Top.phase # "start"
  PROVE  Sound
<1>1. FramesOK' /\ Chained' /\ Held'
  BY DEF StackInv, FramesOK, Chained, Held, Top
<1>2. Begun'
  <2>1. Len(frames) \in Nat /\ Top = frames[Len(frames)]
    BY TopFacts
  <2> QED BY <2>1 DEF StackInv, Begun
<1>3. Fresh'
  BY DEF Fresh, Running
<1>4. ~(Len(frames') < Len(frames))
  BY TopFacts
<1> QED BY <1>1, <1>2, <1>3, <1>4 DEF StackInv, Sound

(* A child begins.                                                           *)
LEMMA EnterSound ==
  ASSUME StackInv, frames # <<>>, NEW f, FrameOK(f), f.base = Top.base, NEW s, Owns(f, s),
         NEW n, Enter(f, n, s), f.node.kind = "Try" => f.phase # "start"
  PROVE  Sound
<1>1. StackInv' /\ Len(frames') = Len(frames) + 1 /\ Len(frames) \in Nat
  BY EnterKeeps, TopFacts
<1> QED BY <1>1 DEF Sound

(* A node goes on with no child.                                             *)
LEMMA StaySound ==
  ASSUME StackInv, frames # <<>>, NEW f, FrameOK(f), f.base = Top.base, Owns(f, stacks'),
         frames' = [frames EXCEPT ![Len(frames)] = f],
         f.node.kind = "Try" => f.phase # "start",
         f.node.kind \notin Scopers
  PROVE  Sound
<1>1. StackInv'
  BY StayKeeps
<1>2. Len(frames') = Len(frames) /\ Len(frames) \in Nat
  <2>1. IsSeq(frames) /\ Len(frames) \in Nat
    BY TopFacts
  <2> QED BY <2>1, IsSeqReplaceTop
<1> QED BY <1>1, <1>2 DEF Sound

(* The steps that leave the scopes alone: to a child, out with a value, or    *)
(* out without one.                                                           *)
Moves ==
  \/ \E n : Enter(Top, n, stacks)
  \/ \E d : End(d)
  \/ \E kind, d : kind # "run" /\ Raise(kind, d)

(* The steps above are sound.                                                *)
LEMMA MovesSound ==
  ASSUME StackInv, frames # <<>>, Top.node.kind # "Try", Moves
  PROVE  Sound
<1>1. FrameOK(Top) /\ Owns(Top, stacks)
  BY TopFacts
<1>2. ASSUME NEW n, Enter(Top, n, stacks) PROVE Sound
  BY <1>1, <1>2, EnterSound
<1>3. ASSUME NEW kind, NEW d, kind # "run", Raise(kind, d) PROVE Sound
  <2>1. frames' = frames /\ stacks' = stacks /\ ctl'.kind # "run"
    BY <1>3 DEF Raise
  <2> QED BY <2>1, RaiseSound
<1> QED BY <1>2, <1>3, EndSound DEF Moves

(* An error is one of them.                                                  *)
LEMMA ErrorMoves ==
  ASSUME NEW heap, RaiseErrorIn(heap)
  PROVE  Moves
<1>1. "throw" # "run"
  OBVIOUS
<1> QED BY <1>1 DEF RaiseErrorIn, Moves

(* So is a new value.                                                        *)
LEMMA NewMoves ==
  ASSUME NEW v, NEW const, NEW temp, EndNew(v, const, temp)
  PROVE  Moves
BY DEF EndNew, Moves
-----------------------------------------------------------------------------
(* Steps that only move.                                                      *)

(* The actions that only move, one lemma for each part of the evaluator.     *)
LEMMA OperandSound ==
  ASSUME StackInv, EvalOperand
  PROVE  Sound
<1>1. frames # <<>> /\ Enter(Top, Operands(Top.node)[Len(Top.vals) + 1], stacks)
  BY DEF EvalOperand
<1>2. Len(Top.vals) \in Nat /\ Len(Top.vals) < Len(Operands(Top.node))
  BY <1>1, TopFacts DEF EvalOperand
<1>3. ASSUME Top.node.kind = "Try" PROVE FALSE
  <2>1. Operands(Top.node) = <<>>
    BY <1>3 DEF Operands, Callers, Calls
  <2> QED BY <1>2, <2>1, IsSeqTuples
<1> QED BY <1>1, <1>3, MovesSound DEF Moves

LEMMA LeavesSound ==
  ASSUME StackInv, EvalConstant \/ EvalNoop \/ EvalId
  PROVE  Sound
<1>1. frames # <<>> /\ Top.node.kind # "Try"
  BY DEF EvalConstant, EvalNoop, EvalId, Running
<1>2. CASE EvalConstant
  <2>1. (\E d : End(d)) \/ \E v, c, t : EndNew(v, c, t)
    BY <1>2 DEF EvalConstant
  <2> QED BY <1>1, <2>1, NewMoves, MovesSound DEF Moves
<1>3. CASE EvalNoop
  BY <1>1, <1>3, MovesSound DEF EvalNoop, Moves
<1>4. CASE EvalId
  <2>1. (\E d : End(d)) \/ \E h : RaiseErrorIn(h)
    BY <1>4 DEF EvalId, RaiseError
  <2> QED BY <1>1, <2>1, ErrorMoves, MovesSound DEF Moves
<1> QED BY <1>2, <1>3, <1>4

LEMMA EquationSound ==
  ASSUME StackInv, EvalEquation
  PROVE  Sound
<1>1. frames # <<>> /\ Top.node.kind # "Try"
  BY DEF EvalEquation, Evaluated, InPhase, Running
<1>2. (\E d : End(d)) \/ \E h : RaiseErrorIn(h)
  BY DEF EvalEquation, AssignNumber, AssignReference, AssignFirst, AssignObject, AssignPointer, AssignObjects, RaiseError
<1> QED BY <1>1, <1>2, ErrorMoves, MovesSound DEF Moves

LEMMA OperatorsSound ==
  ASSUME StackInv, EvalBinary \/ EvalPrefix \/ EvalLogical \/ EvalInlineArray \/ EvalArrayCall
  PROVE  Sound
<1>1. frames # <<>> /\ Top.node.kind # "Try"
  BY DEF EvalBinary, EvalPrefix, EvalLogical, EvalInlineArray, EvalArrayCall, Evaluated, InPhase, Running
<1> DEFINE Ends == (\E d : End(d)) \/ (\E v, c, t : EndNew(v, c, t)) \/ (\E h : RaiseErrorIn(h)) \/ (\E n : Enter(Top, n, stacks))
<1>2. CASE EvalBinary
  <2>1. Ends
    BY <1>2 DEF EvalBinary, RaiseError
  <2> QED BY <1>1, <2>1, ErrorMoves, NewMoves, MovesSound DEF Moves
<1>3. CASE EvalPrefix
  <2>1. Ends
    BY <1>3 DEF EvalPrefix, Increment, RaiseError
  <2> QED BY <1>1, <2>1, ErrorMoves, NewMoves, MovesSound DEF Moves
<1>4. CASE EvalLogical
  <2>1. Ends
    BY <1>4 DEF EvalLogical, RaiseError
  <2> QED BY <1>1, <2>1, ErrorMoves, NewMoves, MovesSound DEF Moves
<1>5. CASE EvalInlineArray
  <2>1. Ends
    BY <1>5 DEF EvalInlineArray
  <2> QED BY <1>1, <2>1, ErrorMoves, NewMoves, MovesSound DEF Moves
<1>6. CASE EvalArrayCall
  <2>1. Ends
    BY <1>6 DEF EvalArrayCall, RaiseError
  <2> QED BY <1>1, <2>1, ErrorMoves, NewMoves, MovesSound DEF Moves
<1> QED BY <1>2, <1>3, <1>4, <1>5, <1>6

LEMMA StatementsSound ==
  ASSUME StackInv, EvalIf \/ EvalReturn \/ EvalJump \/ BreakLoop \/ BreakRange \/ BreakCount \/ BreakSwitch
  PROVE  Sound
<1>1. frames # <<>> /\ Top.node.kind # "Try"
  BY DEF EvalIf, EvalReturn, EvalJump, BreakLoop, BreakRange, BreakCount, BreakSwitch, Evaluated, InPhase, Running, Thrown, Loops
<1>2. CASE EvalIf
  <2>1. (\E n : Enter(Top, n, stacks)) \/ (\E d : End(d)) \/ (\E h : RaiseErrorIn(h))
    BY <1>2 DEF EvalIf, RaiseError
  <2> QED BY <1>1, <2>1, ErrorMoves, MovesSound DEF Moves
<1>3. CASE EvalReturn
  <2>1. \E d : Raise("return", d)
    BY <1>3 DEF EvalReturn
  <2>2. "return" # "run"
    OBVIOUS
  <2> QED BY <1>1, <2>1, <2>2, MovesSound DEF Moves
<1>4. CASE EvalJump
  <2>1. Raise("break", VoidVar) \/ Raise("continue", VoidVar)
    BY <1>4 DEF EvalJump
  <2>2. "break" # "run" /\ "continue" # "run"
    OBVIOUS
  <2> QED BY <1>1, <2>1, <2>2, MovesSound DEF Moves
<1>5. CASE BreakLoop \/ BreakRange \/ BreakCount \/ BreakSwitch
  <2>1. End(VoidVar)
    BY <1>5 DEF BreakLoop, BreakRange, BreakCount, BreakSwitch
  <2> QED BY <1>1, <2>1, MovesSound DEF Moves
<1> QED BY <1>2, <1>3, <1>4, <1>5

LEMMA FunctionsSound ==
  ASSUME StackInv, EvalDef \/ EvalLambda \/ CallHost \/ CallUnknown \/ FinishCall \/ CatchReturn \/ JumpOutOfFile
  PROVE  Sound
<1>1. frames # <<>> /\ Top.node.kind # "Try"
  BY DEF EvalDef, EvalLambda, CallHost, CallUnknown, FinishCall, CatchReturn, JumpOutOfFile, CalledByName,
         Evaluated, InPhase, Running, Thrown, Callers, Calls
<1> DEFINE Ends == (\E d : End(d)) \/ (\E v, c, t : EndNew(v, c, t)) \/ (\E h : RaiseErrorIn(h)) \/ (\E d : Raise("throw", d))
<1>2. Ends => Moves
  <2>1. "throw" # "run"
    OBVIOUS
  <2> QED BY <2>1, ErrorMoves, NewMoves DEF Moves
<1>3. CASE EvalDef
  <2>1. Ends
    BY <1>3 DEF EvalDef, RaiseError
  <2> QED BY <1>1, <1>2, <2>1, MovesSound
<1>4. CASE EvalLambda
  <2>1. Ends
    BY <1>4 DEF EvalLambda
  <2> QED BY <1>1, <1>2, <2>1, MovesSound
<1>5. CASE CallHost
  <2>1. Ends
    BY <1>5 DEF CallHost, RaiseError
  <2> QED BY <1>1, <1>2, <2>1, MovesSound
<1>6. CASE CallUnknown
  <2>1. Ends
    BY <1>6 DEF CallUnknown, RaiseError
  <2> QED BY <1>1, <1>2, <2>1, MovesSound
<1>7. CASE FinishCall
  <2>1. Ends
    BY <1>7 DEF FinishCall
  <2> QED BY <1>1, <1>2, <2>1, MovesSound
<1>8. CASE CatchReturn
  <2>1. Ends
    BY <1>8 DEF CatchReturn
  <2> QED BY <1>1, <1>2, <2>1, MovesSound
<1>9. CASE JumpOutOfFile
  <2>1. Ends
    BY <1>9 DEF JumpOutOfFile, RaiseError
  <2> QED BY <1>1, <1>2, <2>1, MovesSound
<1> QED BY <1>3, <1>4, <1>5, <1>6, <1>7, <1>8, <1>9
-----------------------------------------------------------------------------
(* g is the frame f at another phase, with other scopes.                      *)
Becomes(g, f, phase, scopes, call) ==
  /\ IsFrame(g) /\ g.node = f.node /\ g.vals = f.vals /\ g.base = f.base
  /\ g.phase = phase /\ g.scopes = scopes /\ g.call = call

(* What EXCEPT makes of a frame, in the forms the actions have.              *)
LEMMA FrameExcept ==
  ASSUME NEW f, IsFrame(f), NEW p, NEW a, NEW k, NEW q
  PROVE  /\ Becomes([f EXCEPT !.scopes = k], f, f.phase, k, f.call)
         /\ Becomes([f EXCEPT !.phase = p], f, p, f.scopes, f.call)
         /\ Becomes([f EXCEPT !.phase = p, !.scopes = k], f, p, k, f.call)
         /\ Becomes([f EXCEPT !.phase = p, !.at = a], f, p, f.scopes, f.call)
         /\ Becomes([f EXCEPT !.phase = p, !.at = a, !.scopes = k], f, p, k, f.call)
         /\ Becomes([[f EXCEPT !.at = a, !.scopes = k] EXCEPT !.phase = p], f, p, k, f.call)
         /\ Becomes([f EXCEPT !.phase = p, !.scopes = k, !.pending = q], f, p, k, f.call)
         /\ Becomes([f EXCEPT !.phase = p, !.call = TRUE], f, p, f.scopes, TRUE)
         /\ Becomes([[f EXCEPT !.at = a] EXCEPT !.phase = p, !.call = TRUE], f, p, f.scopes, TRUE)
         /\ Becomes([[f EXCEPT !.scopes = k] EXCEPT !.phase = p, !.call = TRUE], f, p, k, TRUE)
BY DEF Becomes, IsFrame, Fields

(* The phases say what has been pushed.                                       *)
LEMMA TopPhase ==
  ASSUME StackInv, frames # <<>>
  PROVE  /\ IsFrame(Top) /\ Top.scopes \in Nat
         /\ Top.node.kind \notin Callers \/ Top.phase # "body" => ~Top.call
         /\ Top.node.kind \notin Phased => Top.phase = "start"
         /\ Top.node.kind \notin Scopers /\ Top.phase = "start" => Top.scopes = 0
         /\ Top.node.kind \in Loops /\ Top.phase \in {"step", "body"} => Top.scopes = 1
         /\ Top.node.kind \in Loops /\ Top.phase = "test" => Top.scopes = 2
         /\ Top.node.kind = "Compiled" /\ Top.phase = "body" => Top.scopes = 1
         /\ Top.node.kind = "Try" /\ Top.phase = "try" => Top.scopes = 1
         /\ Top.node.kind = "Try" /\ Top.phase = "handler" => Top.scopes = 2
  BY TopFacts DEF FrameOK, ScopesOK

(* Such a frame is still one.                                                *)
LEMMA BecomesOK ==
  ASSUME StackInv, frames # <<>>, NEW g, NEW p, NEW k, NEW c, Becomes(g, Top, p, k, c), ScopesOK(g),
         c = FALSE \/ (c = TRUE /\ g.node.kind \in Callers /\ p = "body")
  PROVE  FrameOK(g) /\ g.base = Top.base
BY TopFacts DEF FrameOK, Becomes

(* A child begins in a new scope.                                            *)
LEMMA PushSound ==
  ASSUME StackInv, frames # <<>>, ~Top.call, NEW g, NEW p, Becomes(g, Top, p, Top.scopes + 1, FALSE), ScopesOK(g),
         g.node.kind = "Try" => p # "start", NEW scope, IsSeq(scope), NEW n, Enter(g, n, Scoped(scope))
  PROVE  Sound
<1> DEFINE s == [stacks EXCEPT ![Len(stacks)] = Append(Last(stacks), scope)]
<1>1. FrameOK(g) /\ g.base = Top.base /\ g.phase = p
  BY BecomesOK DEF Becomes
<1>2. Owns(g, s)
  BY TopFacts, OwnsScope DEF Becomes
<1>3. Scoped(scope) = s
  BY DEF Scoped, SetCurrent, Current
<1> HIDE DEF s
<1> QED BY <1>1, <1>2, <1>3, EnterSound

(* A child begins with k scopes less.                                        *)
LEMMA LessSound ==
  ASSUME StackInv, frames # <<>>, ~Top.call, NEW k \in 0..Top.scopes,
         NEW g, NEW p, Becomes(g, Top, p, Top.scopes - k, FALSE), ScopesOK(g),
         g.node.kind = "Try" => p # "start", NEW n, Enter(g, n, SetCurrent(Unscoped(k)))
  PROVE  Sound
<1>1. FrameOK(g) /\ g.base = Top.base /\ g.phase = p
  BY BecomesOK DEF Becomes
<1>2. Owns(g, Pop(stacks, k))
  BY TopFacts, OwnsLess DEF Becomes
<1>3. SetCurrent(Unscoped(k)) = Pop(stacks, k)
  BY DEF Unscoped, SetCurrent, Current, Pop, Last
<1> QED BY <1>1, <1>2, <1>3, EnterSound

(* A step to a child under the same stacks, with the same scopes.             *)
LEMMA GoSound ==
  ASSUME StackInv, frames # <<>>, ~Top.call, NEW g, NEW p, Becomes(g, Top, p, Top.scopes, FALSE), ScopesOK(g),
         g.node.kind = "Try" => p # "start", NEW n, Enter(g, n, stacks)
  PROVE  Sound
<1>1. FrameOK(g) /\ g.base = Top.base /\ g.phase = p
  BY BecomesOK DEF Becomes
<1>2. Owns(g, stacks)
  BY TopFacts DEF Becomes, Owns, Beneath
<1> QED BY <1>1, <1>2, EnterSound
-----------------------------------------------------------------------------
(* Declarations bind a name in the scope around the node, which has none.     *)
LEMMA BindSound ==
  ASSUME StackInv, frames # <<>>, ~Top.call, Top.scopes = 0, NEW d, NEW name, NEW e, Return(d, Bind(name, e))
  PROVE  Sound
<1> DEFINE r == [stacks EXCEPT ![Len(stacks)] = [Last(stacks) EXCEPT ![Len(Last(stacks))] = Append(@, Binding(name, e))]]
<1>1. StacksOK(stacks) /\ StacksOK(Top.base) /\ Extends(Top.base, stacks)
  BY TopFacts, PopNothing DEF Owns, Beneath
<1>2. StacksOK(r) /\ Extends(stacks, r)
  BY <1>1, BindExtends
<1>3. Bind(name, e) = r
  BY DEF Bind, SetCurrent, Current
<1> HIDE DEF r
<1>4. Extends(Top.base, r)
  BY <1>1, <1>2, ExtendsTransitive
<1> QED BY <1>2, <1>3, <1>4, ReturnSound

(* Declarations.                                                             *)
LEMMA DeclarationsSound ==
  ASSUME StackInv, EvalDeclaration \/ EvalAssignDecl
  PROVE  Sound
<1>1. frames # <<>> /\ Top.node.kind \in {"Var_Decl", "Reference", "Assign_Decl"}
  BY DEF EvalDeclaration, EvalAssignDecl, Evaluated, InPhase, Running
<1>2. Top.node.kind \notin Phased \cup Scopers \cup {"Try"}
  BY <1>1 DEF Phased, Scopers, Loops, Callers, Calls
<1>3. ~Top.call /\ Top.scopes = 0
  BY <1>1, <1>2, TopPhase DEF Phased
<1>4. (\E d, name, e : Return(d, Bind(name, e))) \/ \E h : RaiseErrorIn(h)
  BY DEF EvalDeclaration, EvalAssignDecl, RaiseError
<1> QED BY <1>1, <1>2, <1>3, <1>4, BindSound, ErrorMoves, MovesSound

(* The next element of an array.                                             *)
LEMMA CloneElementSound ==
  ASSUME StackInv, CloneElement
  PROVE  Sound
<1>1. frames # <<>> /\ Top.node.kind = "Inline_Array"
  BY DEF CloneElement, Running
<1>2. CASE \E h : RaiseErrorIn(h)
  BY <1>1, <1>2, ErrorMoves, MovesSound
<1>3. CASE /\ \E d : frames' = [frames EXCEPT ![Len(frames)].vals = Append(Front(@), d), ![Len(frames)].at = Len(Top.vals)]
           /\ UNCHANGED stacks
  <2>1. PICK d : frames' = [frames EXCEPT ![Len(frames)].vals = Append(Front(@), d), ![Len(frames)].at = Len(Top.vals)]
    BY <1>3
  <2>2. IsFrame(Top) /\ FrameOK(Top) /\ Owns(Top, stacks) /\ IsSeq(Top.vals) /\ Top = frames[Len(frames)]
        /\ Len(frames) \in 1..Len(frames) /\ IsSeq(frames)
    BY <1>1, TopFacts DEF FrameOK
  <2> DEFINE v == Append(Front(Top.vals), d)
             g == [Top EXCEPT !.vals = v, !.at = Len(Top.vals)]
  <2>3. IsSeq(v)
    <3>1. CASE Top.vals # <<>>
      BY <2>2, <3>1, IsSeqFront, IsSeqAppend
    <3>2. CASE Top.vals = <<>>
      <4>1. Front(Top.vals) = <<>>
        BY <3>2 DEF Front
      <4> QED BY <4>1, IsSeqTuples, IsSeqAppend
    <3> QED BY <3>1, <3>2
  <2>5. frames' = [frames EXCEPT ![Len(frames)] = g]
    <3>1. DOMAIN frames = 1..Len(frames)
      BY <2>2, IsSeqFacts
    <3> QED BY <2>1, <2>2, <3>1
  <2> HIDE DEF v
  <2>6. /\ g.node = Top.node /\ g.vals = v /\ g.phase = Top.phase /\ g.scopes = Top.scopes /\ g.call = Top.call
        /\ g.base = Top.base /\ IsFrame(g)
    BY <2>2 DEF IsFrame, Fields
  <2> HIDE DEF g
  <2>7. FrameOK(g)
    BY <2>2, <2>3, <2>6 DEF FrameOK, ScopesOK
  <2>8. Owns(g, stacks')
    BY <1>3, <2>2, <2>6 DEF Owns, Beneath
  <2> QED BY <1>1, <2>5, <2>6, <2>7, <2>8, StaySound DEF Scopers
<1>4. CloneElement => (\E h : RaiseErrorIn(h)) \/
          (/\ \E d : frames' = [frames EXCEPT ![Len(frames)].vals = Append(Front(@), d), ![Len(frames)].at = Len(Top.vals)]
           /\ UNCHANGED stacks)
  BY DEF CloneElement, RaiseError
<1> QED BY <1>1, <1>2, <1>3, <1>4
-----------------------------------------------------------------------------
(* Nodes that have a scope from their first child on.                         *)
LEMMA ScoperPushes ==
  ASSUME StackInv, Running(Scopers), Top.vals = <<>>, NEW scope, IsSeq(scope), NEW n,
         Enter([Top EXCEPT !.scopes = 1], n, Scoped(scope))
  PROVE  Sound
<1> DEFINE g == [Top EXCEPT !.scopes = 1]
<1>1. frames # <<>> /\ Top.node.kind \in Scopers
  BY DEF Running
<1>2. Top.scopes = 0
  BY DEF StackInv, Fresh
<1>3. Top.node.kind \notin Phased /\ Top.node.kind \notin Callers /\ Top.node.kind # "Try"
  BY <1>1 DEF Scopers, Phased, Loops, Callers, Calls
<1>4. Top.phase = "start" /\ ~Top.call /\ Top.call = FALSE /\ IsFrame(Top)
  BY <1>1, <1>3, TopPhase, TopFacts
<1>5. Becomes(g, Top, "start", Top.scopes + 1, FALSE)
  <2>1. Becomes(g, Top, Top.phase, 1, Top.call)
    BY <1>4, FrameExcept
  <2>2. 1 = Top.scopes + 1
    BY <1>2
  <2> QED BY <1>4, <2>1, <2>2, Zenon
<1>6. ScopesOK(g)
  BY <1>1, <1>2, <1>3, <1>5 DEF ScopesOK, Becomes, Scopers, Loops, Phased
<1> HIDE DEF g
<1>7. g.node.kind # "Try"
  BY <1>3, <1>5 DEF Becomes
<1> QED BY <1>1, <1>4, <1>5, <1>6, <1>7, PushSound DEF g

(* Blocks, files and cases.                                                  *)
LEMMA SequencesSound ==
  ASSUME StackInv, EvalSequence \/ EvalCase
  PROVE  Sound
<1>1. frames # <<>> /\ Top.node.kind # "Try"
  BY DEF EvalSequence, EvalCase, Running
<1>2. Len(Top.vals) = 0 <=> Top.vals = <<>>
  BY <1>1, TopFacts, IsSeqFacts
<1>3. CASE EvalSequence
  <2>1. \/ /\ Top.vals = <<>> /\ Running(Scopers)
           /\ \E n : Enter([Top EXCEPT !.scopes = 1], n, Scoped(<<>>))
        \/ \E n : Enter(Top, n, stacks)
        \/ \E d : End(d)
    BY <1>2, <1>3 DEF EvalSequence, Running, Scopers
  <2> QED BY <1>1, <2>1, ScoperPushes, IsSeqTuples, MovesSound DEF Moves
<1>4. CASE EvalCase
  <2>1. \/ /\ Top.vals = <<>> /\ Running(Scopers)
           /\ \E n : Enter([Top EXCEPT !.scopes = 1], n, Scoped(<<>>))
        \/ \E d : End(d)
    BY <1>4 DEF EvalCase, Running, Scopers
  <2> QED BY <1>1, <2>1, ScoperPushes, IsSeqTuples, MovesSound DEF Moves
<1> QED BY <1>3, <1>4

(* Classes.                                                                  *)
LEMMA ClassSound ==
  ASSUME StackInv, EvalClass
  PROVE  Sound
<1>1. frames # <<>> /\ Top.node.kind # "Try"
  BY DEF EvalClass, Running
<1>2. \/ /\ Top.vals = <<>> /\ Running(Scopers)
         /\ \E n, b : Enter([Top EXCEPT !.scopes = 1], n, Scoped(<<b>>))
      \/ \E d : End(d)
  BY DEF EvalClass, Running, Scopers
<1> QED BY <1>1, <1>2, ScoperPushes, IsSeqTuples, MovesSound DEF Moves
-----------------------------------------------------------------------------
(* The same node goes on, and ctl may change.                                 *)
LEMMA HereSound ==
  ASSUME StackInv, frames # <<>>, UNCHANGED <<frames, stacks>>,
         Top.node.kind = "Try" => Top.phase # "start", Top.node.kind \notin Scopers
  PROVE  Sound
<1> DEFINE r == [frames EXCEPT ![Len(frames)] = Top]
<1>1. IsSeq(frames) /\ Len(frames) \in Nat /\ Top = frames[Len(frames)] /\ FrameOK(Top) /\ Owns(Top, stacks)
  BY TopFacts
<1>2. /\ IsSeq(r) /\ Len(r) = Len(frames) /\ r[Len(frames)] = Top
      /\ \A i \in 1..(Len(frames) - 1) : r[i] = frames[i]
  BY <1>1, IsSeqReplaceTop
<1>3. \A i \in 1..Len(frames) : i \in 1..(Len(frames) - 1) \/ i = Len(frames)
  BY <1>1
<1> HIDE DEF r
<1>4. r = frames
  BY <1>1, <1>2, <1>3, IsSeqEqual
<1>5. frames' = [frames EXCEPT ![Len(frames)] = Top]
  BY <1>4 DEF r
<1>6. Owns(Top, stacks')
  BY <1>1 DEF Owns, Beneath
<1> QED BY <1>1, <1>5, <1>6, StaySound

(* Loops: one scope, and one more for the condition.                          *)
LEMMA TestSound ==
  ASSUME StackInv, frames # <<>>, Top.node.kind \in Loops, ~Top.call, Top.scopes = 1, Test(Scoped(<<>>))
  PROVE  Sound
<1> DEFINE g == [Top EXCEPT !.phase = "test", !.scopes = 2]
<1>1. PICK n : Enter(g, n, Scoped(<<>>))
  BY DEF Test
<1>2. Becomes(g, Top, "test", Top.scopes + 1, FALSE)
  <2>1. Becomes(g, Top, "test", 2, Top.call)
    BY TopPhase, FrameExcept
  <2>2. 2 = Top.scopes + 1 /\ Top.call = FALSE
    BY TopFacts
  <2> QED BY <2>1, <2>2, Zenon
<1> HIDE DEF g
<1>3. ScopesOK(g)
  BY <1>2 DEF ScopesOK, Becomes, Loops, Phased
<1>4. g.node.kind # "Try"
  BY <1>2 DEF Becomes, Loops
<1> QED BY <1>1, <1>2, <1>3, <1>4, PushSound, IsSeqTuples

(* A while pushes two scopes at once.                                        *)
LEMMA StartLoopSound ==
  ASSUME StackInv, StartLoop
  PROVE  Sound
<1>1. frames # <<>> /\ Top.node.kind \in Loops /\ Top.phase = "start"
  BY DEF StartLoop, InPhase, Running
<1>2. Top.node.kind \notin Scopers /\ Top.node.kind \notin Callers /\ Top.node.kind # "Try" /\ Top.node.kind \in Phased
  BY <1>1 DEF Scopers, Loops, Callers, Calls, Phased
<1>3. ~Top.call /\ Top.call = FALSE /\ Top.scopes = 0 /\ IsFrame(Top) /\ FrameOK(Top) /\ Owns(Top, stacks)
  BY <1>1, <1>2, TopPhase, TopFacts
<1>4. CASE \E n : Enter([Top EXCEPT !.phase = "step", !.scopes = 1], n, Scoped(<<>>))
  <2> DEFINE g == [Top EXCEPT !.phase = "step", !.scopes = 1]
  <2>1. Becomes(g, Top, "step", Top.scopes + 1, FALSE)
    <3>1. Becomes(g, Top, "step", 1, Top.call)
      BY <1>3, FrameExcept
    <3>2. 1 = Top.scopes + 1
      BY <1>3
    <3> QED BY <1>3, <3>1, <3>2, Zenon
  <2>2. PICK n : Enter(g, n, Scoped(<<>>))
    BY <1>4
  <2> HIDE DEF g
  <2>3. ScopesOK(g)
    BY <1>1, <1>2, <1>3, <2>1 DEF ScopesOK, Becomes, Loops
  <2>4. g.node.kind # "Try"
    BY <1>2, <2>1 DEF Becomes
  <2> QED BY <1>1, <1>3, <2>1, <2>2, <2>3, <2>4, PushSound, IsSeqTuples
<1>5. CASE Test(SetCurrent(Current \o <<<<>>, <<>>>>))
  <2> DEFINE g == [Top EXCEPT !.phase = "test", !.scopes = 2]
             h == [Top EXCEPT !.scopes = 1]
             p == [stacks EXCEPT ![Len(stacks)] = Append(Last(stacks), <<>>)]
             q == [p EXCEPT ![Len(p)] = Append(Last(p), <<>>)]
  <2>1. Becomes(g, Top, "test", 2, FALSE) /\ Becomes(h, Top, "start", 1, FALSE)
    <3>1. Becomes(g, Top, "test", 2, Top.call) /\ Becomes(h, Top, Top.phase, 1, Top.call)
      BY <1>3, FrameExcept
    <3> QED BY <1>1, <1>3, <3>1, Zenon
  <2>2. PICK n : Enter(g, n, SetCurrent(Current \o <<<<>>, <<>>>>))
    BY <1>5 DEF Test
  <2> HIDE DEF g, h
  <2>3. Owns(h, p)
    BY <1>3, <2>1, OwnsScope, IsSeqTuples DEF Becomes
  <2>4. StacksOK(stacks) /\ IsSeq(stacks) /\ stacks # <<>> /\ IsSeq(Last(stacks)) /\ IsSeq(<<>>)
    BY <1>1, TopFacts, StacksFacts, StackFacts, IsSeqTuples
  <2>5. StacksOK(p) /\ 0 + 1 < Len(Last(p)) /\ Len(p) = Len(stacks)
    BY <2>4, PopNothing, PushScope
  <2>6. StacksOK(q) /\ Pop(q, 1 + 1) = Pop(p, 1) /\ 1 + 1 < Len(Last(q))
    <3> HIDE DEF p
    <3>1. 1 \in Nat /\ 1 < Len(Last(p))
      BY <2>5
    <3> QED BY <2>4, <2>5, <3>1, PushScope
  <2>7. Owns(g, q)
    <3>1. Extends(Top.base, Pop(p, 1)) /\ StacksOK(Top.base)
      BY <2>1, <2>3 DEF Owns, Becomes, Beneath
    <3>2. Pop(q, 2) = Pop(p, 1) /\ 2 < Len(Last(q))
      BY <2>6
    <3> HIDE DEF p, q
    <3> QED BY <2>1, <2>6, <3>1, <3>2 DEF Owns, Becomes, Beneath
  <2>8. SetCurrent(Current \o <<<<>>, <<>>>>) = q
    <3>1. Last(p) = Append(Last(stacks), <<>>)
      BY <2>4, IsSeqReplaceTop
    <3>2. Append(Last(p), <<>>) = Last(stacks) \o <<<<>>, <<>>>>
      <4>1. Append(Append(Last(stacks), <<>>), <<>>) = Last(stacks) \o <<<<>>, <<>>>>
        <5> DEFINE S == Range(Last(stacks)) \cup {<<>>}
        <5>1. Last(stacks) \in Seq(S) /\ <<>> \in S
          BY <2>4, IsSeqIn
        <5> HIDE DEF S
        <5> QED BY <5>1
      <4> QED BY <3>1, <4>1
    <3>3. q = [stacks EXCEPT ![Len(stacks)] = Append(Last(p), <<>>)]
      <4> DEFINE x == Append(Last(stacks), <<>>)  y == Append(Last(p), <<>>)
      <4>1. Len(p) = Len(stacks)
        BY <2>5
      <4>2. q = [p EXCEPT ![Len(stacks)] = y]
        BY <4>1
      <4>3. p = [stacks EXCEPT ![Len(stacks)] = x]
        OBVIOUS
      <4> HIDE DEF p, q, x, y
      <4> QED BY <4>2, <4>3 DEF y
    <3> HIDE DEF p, q
    <3> QED BY <3>2, <3>3 DEF SetCurrent, Current
  <2> HIDE DEF q, p
  <2>9. ScopesOK(g)
    BY <1>1, <1>2, <1>3, <2>1 DEF ScopesOK, Becomes, Loops
  <2>10. FrameOK(g) /\ g.base = Top.base /\ g.node.kind # "Try"
    BY <1>1, <1>2, <2>1, <2>9, BecomesOK DEF Becomes
  <2> QED BY <1>1, <2>2, <2>7, <2>8, <2>10, EnterSound
<1>6. (\E n : Enter([Top EXCEPT !.phase = "step", !.scopes = 1], n, Scoped(<<>>)))
      \/ Test(SetCurrent(Current \o <<<<>>, <<>>>>))
  BY DEF StartLoop
<1> QED BY <1>4, <1>5, <1>6
-----------------------------------------------------------------------------
(* What the steps make of a frame without a call.                             *)
LEMMA TopExcept ==
  ASSUME StackInv, frames # <<>>, ~Top.call, NEW p, NEW a, NEW k, NEW q
  PROVE  /\ Becomes([Top EXCEPT !.phase = p], Top, p, Top.scopes, FALSE)
         /\ Becomes([Top EXCEPT !.phase = p, !.scopes = k], Top, p, k, FALSE)
         /\ Becomes([Top EXCEPT !.phase = p, !.at = a], Top, p, Top.scopes, FALSE)
         /\ Becomes([Top EXCEPT !.phase = p, !.at = a, !.scopes = k], Top, p, k, FALSE)
         /\ Becomes([[Top EXCEPT !.at = a, !.scopes = k] EXCEPT !.phase = p], Top, p, k, FALSE)
         /\ Becomes([Top EXCEPT !.phase = p, !.scopes = k, !.pending = q], Top, p, k, FALSE)
<1>1. IsFrame(Top) /\ Top.call = FALSE
  BY TopFacts DEF FrameOK
<1>2. /\ Becomes([Top EXCEPT !.phase = p], Top, p, Top.scopes, Top.call)
      /\ Becomes([Top EXCEPT !.phase = p, !.scopes = k], Top, p, k, Top.call)
      /\ Becomes([Top EXCEPT !.phase = p, !.at = a], Top, p, Top.scopes, Top.call)
      /\ Becomes([Top EXCEPT !.phase = p, !.at = a, !.scopes = k], Top, p, k, Top.call)
      /\ Becomes([[Top EXCEPT !.at = a, !.scopes = k] EXCEPT !.phase = p], Top, p, k, Top.call)
      /\ Becomes([Top EXCEPT !.phase = p, !.scopes = k, !.pending = q], Top, p, k, Top.call)
  BY <1>1, FrameExcept
<1> QED BY <1>1, <1>2, Zenon

(* A loop goes on after its first step or a round.                           *)
LEMMA NextRoundSound ==
  ASSUME StackInv, NextRound
  PROVE  Sound
<1>1. frames # <<>> /\ Top.node.kind \in Loops /\ Top.phase \in {"step", "body"}
  BY DEF NextRound, InPhase, Running
<1>2. Top.node.kind \notin Scopers /\ Top.node.kind \notin Callers /\ Top.node.kind # "Try" /\ Top.node.kind \in Phased
  BY <1>1 DEF Scopers, Loops, Callers, Calls, Phased
<1>3. ~Top.call /\ Top.scopes = 1
  BY <1>1, <1>2, TopPhase
<1>4. CASE \E n : Enter([Top EXCEPT !.phase = "step"], n, stacks)
  <2> DEFINE g == [Top EXCEPT !.phase = "step"]
  <2>1. PICK n : Enter(g, n, stacks)
    BY <1>4
  <2>2. Becomes(g, Top, "step", Top.scopes, FALSE)
    BY <1>1, <1>3, TopExcept
  <2> HIDE DEF g
  <2>3. ScopesOK(g) /\ g.node.kind # "Try"
    BY <1>1, <1>2, <1>3, <2>2 DEF ScopesOK, Becomes, Loops
  <2> QED BY <1>1, <1>3, <2>1, <2>2, <2>3, GoSound
<1>5. CASE Test(Scoped(<<>>))
  BY <1>1, <1>3, <1>5, TestSound
<1> QED BY <1>4, <1>5 DEF NextRound

(* A loop goes on or ends after its condition.                               *)
LEMMA TestedSound ==
  ASSUME StackInv, Tested
  PROVE  Sound
<1>1. frames # <<>> /\ Top.node.kind \in Loops /\ Top.phase = "test"
  BY DEF Tested, InPhase, Running
<1>2. Top.node.kind \notin Scopers /\ Top.node.kind \notin Callers /\ Top.node.kind # "Try" /\ Top.node.kind \in Phased
  BY <1>1 DEF Scopers, Loops, Callers, Calls, Phased
<1>3. ~Top.call /\ Top.scopes = 2
  BY <1>1, <1>2, TopPhase
<1>4. CASE \E n : Enter([Top EXCEPT !.phase = "body", !.scopes = 1], n, SetCurrent(Unscoped(1)))
  <2> DEFINE g == [Top EXCEPT !.phase = "body", !.scopes = 1]
  <2>1. PICK n : Enter(g, n, SetCurrent(Unscoped(1)))
    BY <1>4
  <2>2. Becomes(g, Top, "body", Top.scopes - 1, FALSE)
    <3>1. Becomes(g, Top, "body", 1, FALSE)
      BY <1>1, <1>3, TopExcept
    <3>2. 1 = Top.scopes - 1
      BY <1>3
    <3> QED BY <3>1, <3>2, Zenon
  <2> HIDE DEF g
  <2>3. ScopesOK(g) /\ g.node.kind # "Try" /\ 1 \in 0..Top.scopes
    BY <1>1, <1>2, <1>3, <2>2 DEF ScopesOK, Becomes, Loops
  <2> QED BY <1>1, <1>3, <2>1, <2>2, <2>3, LessSound
<1>5. CASE (\E d : End(d)) \/ (\E h : RaiseErrorIn(h))
  BY <1>1, <1>2, <1>5, ErrorMoves, MovesSound DEF Moves
<1> QED BY <1>4, <1>5 DEF Tested, RaiseError

(* continue.                                                                 *)
LEMMA ContinueSound ==
  ASSUME StackInv, ContinueLoop
  PROVE  Sound
<1>1. frames # <<>> /\ Top.node.kind # "Try" /\ Top.node.kind \notin Scopers
  BY DEF ContinueLoop, Thrown, Loops, Scopers
<1> QED BY <1>1, HereSound DEF ContinueLoop

(* The range of a for.                                                       *)
LEMMA RangeSound ==
  ASSUME StackInv, EvalRange
  PROVE  Sound
<1>1. frames # <<>> /\ Top.node.kind = "Ranged_For" /\ Top.phase = "start"
  BY DEF EvalRange, InPhase, Running
<1>2. Top.node.kind \notin Callers
  BY <1>1 DEF Callers, Calls
<1>3. ~Top.call /\ Top.scopes \in Nat
  BY <1>1, <1>2, TopPhase
<1> DEFINE g == [Top EXCEPT !.phase = "range"]
<1>4. PICK n : Enter(g, n, stacks)
  BY DEF EvalRange
<1>5. Becomes(g, Top, "range", Top.scopes, FALSE)
  BY <1>1, <1>3, TopExcept
<1> HIDE DEF g
<1>6. ScopesOK(g) /\ g.node.kind # "Try"
  BY <1>1, <1>3, <1>5 DEF ScopesOK, Becomes, Loops, Phased
<1> QED BY <1>1, <1>3, <1>4, <1>5, <1>6, GoSound

(* The scope of the next round takes the place of the last one's.             *)
LEMMA NewScopeSound ==
  ASSUME StackInv, frames # <<>>, ~Top.call, NEW g, NEW p, Becomes(g, Top, p, 1, FALSE), ScopesOK(g),
         g.node.kind # "Try", NEW scope, IsSeq(scope), NEW n,
         Enter(g, n, SetCurrent(Append(Unscoped(Top.scopes), scope)))
  PROVE  Sound
<1> DEFINE l == SubSeq(Last(stacks), 1, Len(Last(stacks)) - Top.scopes)
           s == [stacks EXCEPT ![Len(stacks)] = l]
           t == [s EXCEPT ![Len(s)] = Append(Last(s), scope)]
<1>1. Left = s
  BY DEF Left, Last
<1>2. StacksOK(s) /\ Extends(Top.base, s) /\ StacksOK(Top.base) /\ Len(s) = Len(stacks) /\ Last(s) = l
  <2>1. Pop(stacks, Top.scopes) = s
    BY DEF Pop, Last
  <2>2. StacksOK(stacks) /\ Top.scopes \in Nat /\ Top.scopes < Len(Last(stacks)) /\ StacksOK(Top.base)
    BY TopFacts DEF Owns, Beneath
  <2>3. /\ StacksOK(Pop(stacks, Top.scopes)) /\ Len(Pop(stacks, Top.scopes)) = Len(stacks)
        /\ Last(Pop(stacks, Top.scopes)) = l
    BY <2>2, PopFacts
  <2> HIDE DEF s, l
  <2> QED BY <1>1, <2>1, <2>2, <2>3, LeftFacts
<1>3. SetCurrent(Append(Unscoped(Top.scopes), scope)) = t
  <2>1. SetCurrent(Append(Unscoped(Top.scopes), scope)) = [stacks EXCEPT ![Len(stacks)] = Append(l, scope)]
    BY DEF SetCurrent, Unscoped, Current
  <2> DEFINE x == Append(l, scope)  y == Append(Last(s), scope)
  <2>2. t = [s EXCEPT ![Len(stacks)] = y] /\ x = y
    BY <1>2
  <2>3. s = [stacks EXCEPT ![Len(stacks)] = l]
    OBVIOUS
  <2>4. [stacks EXCEPT ![Len(stacks)] = Append(l, scope)] = [stacks EXCEPT ![Len(stacks)] = x]
    OBVIOUS
  <2> HIDE DEF s, t, l, x, y
  <2> QED BY <2>1, <2>2, <2>3, <2>4
<1> HIDE DEF s, l
<1>4. StacksOK(t) /\ 0 + 1 < Len(Last(t)) /\ Pop(t, 0 + 1) = Pop(s, 0) /\ Pop(s, 0) = s
  BY <1>2, PopNothing, PushScope
<1> HIDE DEF t
<1>5. FrameOK(g) /\ g.base = Top.base
  BY BecomesOK
<1>6. Owns(g, t)
  BY <1>2, <1>4 DEF Becomes, Owns, Beneath
<1> QED BY <1>3, <1>5, <1>6, EnterSound

(* The next element of the range.                                            *)
LEMMA NextElementSound ==
  ASSUME StackInv, NextElement
  PROVE  Sound
<1>1. frames # <<>> /\ Top.node.kind = "Ranged_For"
  BY DEF NextElement, InPhase, Running
<1>2. Top.node.kind \notin Callers
  BY <1>1 DEF Callers, Calls
<1>3. ~Top.call
  BY <1>1, <1>2, TopPhase
<1>4. CASE \E n, a, b : Enter([Top EXCEPT !.phase = "body", !.at = a, !.scopes = 1], n,
                              SetCurrent(Append(Unscoped(Top.scopes), <<b>>)))
  <2>1. PICK n, a, b : Enter([Top EXCEPT !.phase = "body", !.at = a, !.scopes = 1], n,
                             SetCurrent(Append(Unscoped(Top.scopes), <<b>>)))
    BY <1>4
  <2> DEFINE g == [Top EXCEPT !.phase = "body", !.at = a, !.scopes = 1]
  <2>2. Becomes(g, Top, "body", 1, FALSE)
    BY <1>1, <1>3, TopExcept
  <2>3. Enter(g, n, SetCurrent(Append(Unscoped(Top.scopes), <<b>>)))
    BY <2>1
  <2> HIDE DEF g
  <2>4. ScopesOK(g) /\ g.node.kind # "Try"
    BY <1>1, <2>2 DEF ScopesOK, Becomes, Loops, Phased
  <2> QED BY <1>1, <1>3, <2>2, <2>3, <2>4, NewScopeSound, IsSeqTuples
<1>5. CASE (\E d : End(d)) \/ (\E h : RaiseErrorIn(h))
  BY <1>1, <1>5, ErrorMoves, MovesSound DEF Moves
<1> QED BY <1>4, <1>5 DEF NextElement, RaiseError
-----------------------------------------------------------------------------
(* The compiled loop ends at once or pushes its variable.                    *)
LEMMA StartCountingSound ==
  ASSUME StackInv, StartCounting
  PROVE  Sound
<1>1. frames # <<>> /\ Top.node.kind = "Compiled" /\ Top.phase = "start"
  BY DEF StartCounting, InPhase, Running
<1>2. Top.node.kind \notin Callers /\ Top.node.kind \notin Scopers
  BY <1>1 DEF Callers, Calls, Scopers
<1>3. ~Top.call /\ Top.scopes = 0
  BY <1>1, <1>2, TopPhase
<1>4. PICK b, a : CountOn(Top.node.from, Scoped(<<b>>), [Top EXCEPT !.at = a, !.scopes = 1])
  BY DEF StartCounting
<1>5. CASE \E n : Enter([[Top EXCEPT !.at = a, !.scopes = 1] EXCEPT !.phase = "body"], n, Scoped(<<b>>))
  <2> DEFINE g == [[Top EXCEPT !.at = a, !.scopes = 1] EXCEPT !.phase = "body"]
  <2>1. PICK n : Enter(g, n, Scoped(<<b>>))
    BY <1>5
  <2>2. Becomes(g, Top, "body", Top.scopes + 1, FALSE)
    <3>1. Becomes(g, Top, "body", 1, FALSE)
      BY <1>1, <1>3, TopExcept
    <3>2. 1 = Top.scopes + 1
      BY <1>3
    <3> QED BY <3>1, <3>2, Zenon
  <2> HIDE DEF g
  <2>3. ScopesOK(g) /\ g.node.kind # "Try"
    BY <1>1, <1>3, <2>2 DEF ScopesOK, Becomes, Loops, Phased
  <2> QED BY <1>1, <1>3, <2>1, <2>2, <2>3, PushSound, IsSeqTuples
<1>6. ASSUME NEW s, s = Scoped(<<b>>), Return(VoidVar, SetCurrent(SubSeq(Last(s), 1, Len(Last(s)) - 1)))
      PROVE  Sound
  <2> DEFINE l == Last(stacks)  m == Append(l, <<b>>)
  <2>1. StacksOK(stacks) /\ IsSeq(stacks) /\ stacks # <<>> /\ IsSeq(l)
    BY <1>1, TopFacts, StacksFacts, StackFacts
  <2>2. Last(s) = m
    <3> DEFINE r == [stacks EXCEPT ![Len(stacks)] = m]
    <3>1. s = r
      BY <1>6 DEF Scoped, SetCurrent, Current
    <3>2. Last(r) = m
      <4> HIDE DEF m
      <4> QED BY <2>1, IsSeqReplaceTop
    <3> QED BY <3>1, <3>2
  <2> HIDE DEF l
  <2>3. SubSeq(m, 1, Len(m) - 1) = l
    <3>1. Front(m) = l
      BY <2>1, IsSeqAppend
    <3> QED BY <3>1 DEF Front
  <2>4. SetCurrent(l) = Pop(stacks, 0)
    <3>1. SubSeq(l, 1, Len(l) - 0) = l
      <4>1. Len(l) - 0 = Len(l)
        BY <2>1, IsSeqFacts
      <4> QED BY <2>1, <4>1, PrefixWhole
    <3> QED BY <3>1 DEF Pop, SetCurrent, l, Last
  <2>5. StacksOK(stacks) /\ Extends(Top.base, stacks) /\ Pop(stacks, 0) = stacks
    BY <1>1, <1>3, TopFacts, PopNothing DEF Owns, Beneath
  <2> HIDE DEF m
  <2>6. Return(VoidVar, stacks)
    BY <1>6, <2>2, <2>3, <2>4, <2>5
  <2> QED BY <1>1, <2>5, <2>6, ReturnSound
<1> QED BY <1>4, <1>5, <1>6 DEF CountOn

(* The compiled loop goes on or ends.                                        *)
LEMMA NextCountSound ==
  ASSUME StackInv, NextCount
  PROVE  Sound
<1>1. frames # <<>> /\ Top.node.kind = "Compiled" /\ Top.phase = "body"
  BY DEF NextCount, InPhase, Running
<1>2. Top.node.kind \notin Callers /\ Top.node.kind \notin Scopers
  BY <1>1 DEF Callers, Calls, Scopers
<1>3. ~Top.call /\ Top.call = FALSE /\ Top.scopes = 1
  BY <1>1, <1>2, TopPhase, TopFacts
<1>4. CASE \E n : Enter([Top EXCEPT !.phase = "body"], n, stacks)
  <2> DEFINE g == [Top EXCEPT !.phase = "body"]
  <2>1. PICK n : Enter(g, n, stacks)
    BY <1>4
  <2>2. Becomes(g, Top, "body", Top.scopes, FALSE)
    BY <1>1, <1>3, TopExcept
  <2> HIDE DEF g
  <2>3. ScopesOK(g) /\ g.node.kind # "Try"
    BY <1>1, <1>3, <2>2 DEF ScopesOK, Becomes, Loops, Phased
  <2> QED BY <1>1, <1>3, <2>1, <2>2, <2>3, GoSound
<1>5. CASE Return(VoidVar, SetCurrent(SubSeq(Last(stacks), 1, Len(Last(stacks)) - 1)))
  <2>1. Left = SetCurrent(SubSeq(Last(stacks), 1, Len(Last(stacks)) - 1))
    BY <1>3 DEF Left, SetCurrent, Last
  <2> QED BY <1>1, <1>5, <2>1, LeftFacts, ReturnSound
<1> QED BY <1>4, <1>5 DEF NextCount, CountOn
-----------------------------------------------------------------------------
(* A switch begins,                                                          *)
LEMMA StartSwitchSound ==
  ASSUME StackInv, StartSwitch
  PROVE  Sound
<1>1. frames # <<>> /\ Top.node.kind = "Switch" /\ Top.phase = "start"
  BY DEF StartSwitch, InPhase, Running
<1>2. Top.node.kind \notin Callers /\ Top.node.kind \notin Scopers
  BY <1>1 DEF Callers, Calls, Scopers
<1>3. ~Top.call /\ Top.scopes = 0
  BY <1>1, <1>2, TopPhase
<1> DEFINE g == [Top EXCEPT !.phase = "open", !.at = 1, !.scopes = 1]
<1>4. PICK n : Enter(g, n, Scoped(<<>>))
  BY DEF StartSwitch
<1>5. Becomes(g, Top, "open", Top.scopes + 1, FALSE)
  <2>1. Becomes(g, Top, "open", 1, FALSE)
    BY <1>1, <1>3, TopExcept
  <2>2. 1 = Top.scopes + 1
    BY <1>3
  <2> QED BY <2>1, <2>2, Zenon
<1> HIDE DEF g
<1>6. ScopesOK(g) /\ g.node.kind # "Try"
  BY <1>1, <1>3, <1>5 DEF ScopesOK, Becomes, Loops, Phased
<1> QED BY <1>1, <1>3, <1>4, <1>5, <1>6, PushSound, IsSeqTuples

(* Between its cases a switch goes on to a child, or not.                     *)
LEMMA SwitchGoes ==
  ASSUME StackInv, frames # <<>>, Top.node.kind = "Switch", NEW p, p # "start", NEW g,
         Becomes(g, Top, p, Top.scopes, FALSE)
  PROVE  (\E n : Enter(g, n, stacks)) \/ (frames' = [frames EXCEPT ![Len(frames)] = g] /\ UNCHANGED stacks) => Sound
<1>1. Top.node.kind \notin Callers /\ Top.node.kind \notin Scopers
  BY DEF Callers, Calls, Scopers
<1>2. ~Top.call /\ Top.scopes \in Nat
  BY <1>1, TopPhase
<1>3. ScopesOK(g) /\ g.node.kind # "Try" /\ g.node.kind \notin Scopers
  BY <1>1, <1>2 DEF ScopesOK, Becomes, Loops, Phased
<1>4. CASE \E n : Enter(g, n, stacks)
  BY <1>2, <1>3, <1>4, GoSound
<1>5. CASE frames' = [frames EXCEPT ![Len(frames)] = g] /\ UNCHANGED stacks
  <2>1. FrameOK(g) /\ g.base = Top.base
    BY <1>3, BecomesOK
  <2>2. Owns(g, stacks')
    BY <1>2, <1>5, TopFacts DEF Becomes, Owns, Beneath
  <2> QED BY <1>3, <1>5, <2>1, <2>2, StaySound
<1> QED BY <1>4, <1>5

(* comes to its next case,                                                   *)
LEMMA NextCaseSound ==
  ASSUME StackInv, NextCase
  PROVE  Sound
<1>1. frames # <<>> /\ Top.node.kind = "Switch"
  BY DEF NextCase, InPhase, Running
<1>2. Top.node.kind \notin Callers /\ Top.node.kind # "Try"
  BY <1>1 DEF Callers, Calls
<1>3. ~Top.call
  BY <1>1, <1>2, TopPhase
<1>4. ASSUME NEW p \in {"guard", "matched guard", "matched"}, NEW a, NEW n,
             Enter([Top EXCEPT !.phase = p, !.at = a], n, stacks)
      PROVE  Sound
  <2> DEFINE g == [Top EXCEPT !.phase = p, !.at = a]
  <2>1. Becomes(g, Top, p, Top.scopes, FALSE) /\ p # "start"
    BY <1>1, <1>3, TopExcept
  <2>2. Enter(g, n, stacks)
    BY <1>4
  <2> HIDE DEF g
  <2> QED BY <1>1, <2>1, <2>2, SwitchGoes
<1>5. CASE \E d : End(d)
  BY <1>1, <1>5, EndSound
<1>6. \/ \E a, n : Enter([Top EXCEPT !.phase = IF Top.phase = "open" THEN "guard" ELSE "matched guard", !.at = a], n, stacks)
      \/ \E a, n : Enter([Top EXCEPT !.phase = "matched", !.at = a], n, stacks)
      \/ \E d : End(d)
  BY DEF NextCase
<1>7. (IF Top.phase = "open" THEN "guard" ELSE "matched guard") \in {"guard", "matched guard", "matched"}
      /\ "matched" \in {"guard", "matched guard", "matched"}
  OBVIOUS
<1> QED BY <1>4, <1>5, <1>6, <1>7

(* and compares it.                                                          *)
LEMMA TestCaseSound ==
  ASSUME StackInv, TestCase
  PROVE  Sound
<1>1. frames # <<>> /\ Top.node.kind = "Switch"
  BY DEF TestCase, InPhase, Running
<1>2. Top.node.kind \notin Callers /\ Top.node.kind # "Try"
  BY <1>1 DEF Callers, Calls
<1>3. ~Top.call
  BY <1>1, <1>2, TopPhase
<1>4. CASE \E n : Enter([Top EXCEPT !.phase = "matched"], n, stacks)
  <2> DEFINE g == [Top EXCEPT !.phase = "matched"]
  <2>1. Becomes(g, Top, "matched", Top.scopes, FALSE)
    BY <1>1, <1>3, TopExcept
  <2>2. \E n : Enter(g, n, stacks)
    BY <1>4
  <2> HIDE DEF g
  <2> QED BY <1>1, <2>1, <2>2, SwitchGoes
<1>5. CASE frames' = [frames EXCEPT ![Len(frames)].phase = "open"] /\ UNCHANGED stacks
  <2> DEFINE g == [Top EXCEPT !.phase = "open"]
  <2>1. Becomes(g, Top, "open", Top.scopes, FALSE)
    BY <1>1, <1>3, TopExcept
  <2>2. frames' = [frames EXCEPT ![Len(frames)] = g]
    <3>1. DOMAIN frames = 1..Len(frames) /\ Len(frames) \in 1..Len(frames) /\ Top = frames[Len(frames)]
      BY <1>1, TopFacts, IsSeqFacts
    <3> QED BY <1>5, <3>1
  <2> HIDE DEF g
  <2> QED BY <1>1, <1>5, <2>1, <2>2, SwitchGoes
<1>6. CASE \E h : RaiseErrorIn(h)
  BY <1>1, <1>2, <1>6, ErrorMoves, MovesSound
<1> QED BY <1>4, <1>5, <1>6 DEF TestCase, RaiseError
-----------------------------------------------------------------------------
(* this is bound or not.                                                     *)
LEMMA ThisFacts ==
  ASSUME NEW s, NEW args
  PROVE  IsSeq(This(s, args))
<1>1. This(s, args) = <<>> \/ \E b : This(s, args) = <<b>>
  BY DEF This
<1> QED BY <1>1, IsSeqTuples

(* The scope of parameters.                                                  *)
LEMMA BindingsFacts ==
  ASSUME NEW names, NEW ds, IsSeq(ds)
  PROVE  IsSeq(Bindings(names, ds))
<1> DEFINE f == [i \in 1..Len(ds) |-> Binding(names[i], ds[i])]
<1>1. Len(ds) \in Nat /\ Bindings(names, ds) = f
  BY IsSeqFacts DEF Bindings
<1>2. f = [i \in 1..Len(ds) |-> f[i]]
  OBVIOUS
<1> HIDE DEF f
<1> QED BY <1>1, <1>2, IsSeqFunction
-----------------------------------------------------------------------------
(* A node that calls has a phase while the function's body runs.              *)
LEMMA BodyOK ==
  ASSUME StackInv, frames # <<>>, Top.node.kind \in Callers, NEW g, NEW k \in Nat, Becomes(g, Top, "body", k, TRUE)
  PROVE  FrameOK(g) /\ g.base = Top.base /\ g.node.kind # "Try" /\ g.call = TRUE /\ g.scopes = k
<1>1. ScopesOK(g) /\ g.node.kind # "Try" /\ g.node.kind \in Callers
  BY DEF ScopesOK, Becomes, Callers, Calls, Loops, Phased
<1> QED BY <1>1, BecomesOK DEF Becomes

(* A function begins on a stack of its own.                                  *)
LEMMA CallSound ==
  ASSUME StackInv, frames # <<>>, Top.node.kind \in Callers, Top.phase = "start",
         NEW f, NEW a, f = Top \/ f = [Top EXCEPT !.at = a],
         NEW body, NEW scope, IsSeq(scope), EvalFunction(f, body, stacks, scope)
  PROVE  Sound
<1> DEFINE g == [f EXCEPT !.phase = "body", !.call = TRUE]
<1>1. ~Top.call /\ IsFrame(Top) /\ Top.scopes \in Nat /\ FrameOK(Top) /\ Owns(Top, stacks)
  BY TopPhase, TopFacts
<1>2. Becomes(g, Top, "body", Top.scopes, TRUE)
  BY <1>1, FrameExcept
<1>3. Enter(g, body, Append(stacks, <<scope>>))
  BY DEF EvalFunction
<1> HIDE DEF g
<1>4. FrameOK(g) /\ g.base = Top.base /\ g.node.kind # "Try" /\ g.call = TRUE /\ g.scopes = Top.scopes
  BY <1>1, <1>2, BodyOK
<1>5. Owns(g, Append(stacks, <<scope>>))
  BY <1>1, <1>4, OwnsStack
<1> QED BY <1>3, <1>4, <1>5, EnterSound

(* The same with a scope on the caller's stack that tells the object.         *)
LEMMA FoistedSound ==
  ASSUME StackInv, frames # <<>>, Top.node.kind \in Callers, Top.phase = "start",
         NEW foisted, IsSeq(foisted), NEW body, NEW scope, IsSeq(scope),
         EvalFunction([Top EXCEPT !.scopes = 1], body, Scoped(foisted), scope)
  PROVE  Sound
<1> DEFINE h == [Top EXCEPT !.scopes = 1]
           g == [h EXCEPT !.phase = "body", !.call = TRUE]
           s == [stacks EXCEPT ![Len(stacks)] = Append(Last(stacks), foisted)]
<1>1. ~Top.call /\ Top.call = FALSE /\ IsFrame(Top) /\ FrameOK(Top) /\ Owns(Top, stacks)
  BY TopPhase, TopFacts
<1>2. Top.scopes = 0
  <2>1. Top.node.kind \notin Scopers
    BY DEF Scopers, Callers, Calls
  <2> QED BY <2>1, TopPhase
<1>3. Becomes(g, Top, "body", 1, TRUE)
  BY <1>1, FrameExcept
<1>4. h.base = Top.base /\ ~h.call /\ h.scopes = Top.scopes + 1
  <2>1. Becomes(h, Top, Top.phase, 1, Top.call)
    BY <1>1, FrameExcept
  <2> HIDE DEF h
  <2> QED BY <1>1, <1>2, <2>1 DEF Becomes
<1>5. Enter(g, body, Append(s, <<scope>>))
  BY DEF EvalFunction, Scoped, SetCurrent, Current
<1> HIDE DEF g, h
<1>6. Owns(h, s)
  BY <1>1, <1>4, OwnsScope
<1> HIDE DEF s
<1>7. FrameOK(g) /\ g.base = Top.base /\ g.node.kind # "Try" /\ g.call = TRUE /\ g.scopes = 1
  BY <1>3, BodyOK
<1>8. Owns(g, Append(s, <<scope>>))
  <2>1. g.base = h.base /\ g.scopes = h.scopes
    BY <1>2, <1>4, <1>7
  <2> QED BY <1>4, <1>6, <1>7, <2>1, OwnsStack
<1> QED BY <1>5, <1>7, <1>8, EnterSound

(* A function of the script is called.                                       *)
LEMMA InvokeSound ==
  ASSUME StackInv, frames # <<>>, Top.node.kind \in Callers, Top.phase = "start",
         NEW name, NEW f \in Taking(name, Top.vals), Invoke(f, Top.vals)
  PROVE  Sound
<1> DEFINE made == Len(data) + 1
           all == IF f.kind = "constructor" THEN <<made>> \o Top.vals ELSE Top.vals
           given == IF f.kind = "constructor" \/ f.kind = "method" THEN Tail(all) ELSE all
           scope == This(stacks, all) \o Bindings(f.params, given)
           a == IF f.kind = "constructor" THEN made ELSE 0
           g == [Top EXCEPT !.at = a]
<1>1. IsSeq(Top.vals)
  BY TopFacts
<1>2. IsSeq(all) /\ (f.kind = "constructor" \/ f.kind = "method" => all # <<>>)
  <2>1. CASE f.kind = "constructor"
    <3>1. IsSeq(<<made>> \o Top.vals) /\ Len(<<made>> \o Top.vals) = 1 + Len(Top.vals)
      BY <1>1, IsSeqTuples, IsSeqConcat
    <3>2. Len(<<made>> \o Top.vals) # 0
      BY <1>1, <3>1, IsSeqFacts
    <3> QED BY <2>1, <3>1, <3>2, IsSeqFacts
  <2>2. CASE f.kind # "constructor"
    BY <1>1, <2>2 DEF Taking, Takes
  <2> QED BY <2>1, <2>2
<1>3. EvalFunction(g, f.body, stacks, scope)
  BY DEF Invoke
<1> HIDE DEF all
<1>4. IsSeq(given)
  BY <1>2, IsSeqRest
<1> HIDE DEF given
<1>5. IsSeq(scope)
  BY <1>4, ThisFacts, BindingsFacts, IsSeqConcat
<1> HIDE DEF scope, a
<1>6. g = [Top EXCEPT !.at = a]
  OBVIOUS
<1> HIDE DEF g
<1> QED BY <1>3, <1>5, <1>6, CallSound

(* The scope of a lambda's call.                                              *)
LEMMA ClosureScope ==
  ASSUME LambdasOK, NEW frame, NEW args, IsSeq(args), NEW v, NEW i \in Callees(v, args), NEW s,
         InvokeClosure(frame, i, args, s)
  PROVE  \E body, scope : IsSeq(scope) /\ EvalFunction(frame, body, s, scope)
<1> DEFINE fun == lambdas[i].node
           names == [k \in DOMAIN fun.children |-> fun.children[k].text]
           this == IF \E k \in DOMAIN names : names[k] = "this" THEN <<>> ELSE This(s, args)
           captured == Bindings(names, lambdas[i].captured)
           params == Bindings(fun.params, args)
<1>1. IsSeq(lambdas[i].captured)
  BY IsSeqFacts DEF LambdasOK, Callees
<1>2. IsSeq(captured) /\ IsSeq(params) /\ IsSeq(this)
  BY <1>1, BindingsFacts, ThisFacts, IsSeqTuples
<1>3. EvalFunction(frame, fun.body, s, this \o captured \o params)
  BY DEF InvokeClosure
<1> HIDE DEF this, captured, params
<1>4. IsSeq(this \o captured \o params)
  BY <1>2, IsSeqConcat
<1> QED BY <1>3, <1>4
-----------------------------------------------------------------------------
(* Calls by name,                                                            *)
LEMMA CallFunctionSound ==
  ASSUME StackInv, CallFunction \/ CallMethod
  PROVE  Sound
<1>1. frames # <<>> /\ Top.node.kind \in Callers /\ Top.phase = "start" /\ Top.node.kind # "Try"
  BY DEF CallFunction, CallMethod, CalledByName, AtMember, Evaluated, InPhase, Running, Callers, Calls
<1>2. \E name : \E f \in Taking(name, Top.vals) : Invoke(f, Top.vals) \/ ReadAttr(f, Top.vals)
  BY DEF CallFunction, CallMethod
<1> SUFFICES ASSUME NEW name, NEW f \in Taking(name, Top.vals), Invoke(f, Top.vals) \/ ReadAttr(f, Top.vals)
             PROVE  Sound
  BY <1>2
<1>3. CASE Invoke(f, Top.vals)
  BY <1>1, <1>3, InvokeSound
<1>4. CASE ReadAttr(f, Top.vals)
  BY <1>1, <1>4, EndSound DEF ReadAttr
<1> QED BY <1>3, <1>4

(* of what a variable holds,                                                 *)
LEMMA CallVariableSound ==
  ASSUME StackInv, LambdasOK, CallVariable
  PROVE  Sound
<1>1. frames # <<>> /\ Top.node.kind \in Callers /\ Top.phase = "start" /\ Top.node.kind # "Try"
  BY DEF CallVariable, Evaluated, InPhase, Running, Callers, Calls
<1>2. CASE \E v : \E i \in Callees(v, Top.vals) : InvokeClosure(Top, i, Top.vals, stacks)
  <2>1. \E body, scope : IsSeq(scope) /\ EvalFunction(Top, body, stacks, scope)
    BY <1>1, <1>2, TopFacts, ClosureScope
  <2> QED BY <1>1, <2>1, CallSound
<1>3. CASE \E h : RaiseErrorIn(h)
  BY <1>1, <1>3, ErrorMoves, MovesSound
<1> QED BY <1>2, <1>3 DEF CallVariable, RaiseError

(* of what an attribute holds,                                               *)
LEMMA AttributeSound ==
  ASSUME StackInv, LambdasOK, AtMember, NEW attribute, CallAttribute(attribute)
  PROVE  Sound
<1>1. frames # <<>> /\ Top.node.kind \in Callers /\ Top.phase = "start" /\ Top.node.kind # "Try"
  BY DEF AtMember, Evaluated, InPhase, Running, Callers, Calls
<1>2. CASE \E v : \E i \in Callees(v, Arguments) :
             InvokeClosure([Top EXCEPT !.scopes = 1], i, Arguments, Scoped(<<Binding("__this", Receiver)>>))
  <2> DEFINE s == Scoped(<<Binding("__this", Receiver)>>)  f == [Top EXCEPT !.scopes = 1]
  <2>1. IsSeq(Arguments)
    BY <1>1, TopFacts, IsSeqRest DEF Arguments
  <2>2. \E v : \E i \in Callees(v, Arguments) : InvokeClosure(f, i, Arguments, s)
    BY <1>2
  <2> HIDE DEF f, s
  <2>3. \E body, scope : IsSeq(scope) /\ EvalFunction(f, body, s, scope)
    BY <2>1, <2>2, ClosureScope
  <2>4. IsSeq(<<Binding("__this", Receiver)>>)
    BY IsSeqTuples
  <2> QED BY <1>1, <2>3, <2>4, FoistedSound DEF f, s
<1>3. CASE (\E d : End(d)) \/ (\E h : RaiseErrorIn(h))
  BY <1>1, <1>3, ErrorMoves, MovesSound DEF Moves
<1> QED BY <1>2, <1>3 DEF CallAttribute

(* of a member,                                                              *)
LEMMA MissingSound ==
  ASSUME StackInv, LambdasOK, CallDeclaredAttribute \/ CallMissing
  PROVE  Sound
<1>1. AtMember /\ frames # <<>> /\ Top.node.kind # "Try"
  BY DEF CallDeclaredAttribute, CallMissing, AtMember, Evaluated, InPhase, Running
<1>2. (\E attribute : CallAttribute(attribute)) \/ (\E d : End(d)) \/ (\E h : RaiseErrorIn(h))
  BY DEF CallDeclaredAttribute, CallMissing, RaiseError
<1> QED BY <1>1, <1>2, AttributeSound, ErrorMoves, MovesSound DEF Moves

(* and of the method for those that are missing.                             *)
LEMMA MethodMissingSound ==
  ASSUME StackInv, CallMethodMissing
  PROVE  Sound
<1>1. frames # <<>> /\ Top.node.kind \in Callers /\ Top.phase = "start"
  BY DEF CallMethodMissing, AtMember, Evaluated, InPhase, Running, Callers, Calls
<1>2. PICK f, ds : EvalFunction(Top, f.body, stacks, This(stacks, Top.vals) \o Bindings(f.params, ds)) /\ IsSeq(ds)
  <2>1. \E f, a, b : EvalFunction(Top, f.body, stacks, This(stacks, Top.vals) \o Bindings(f.params, <<a, b>>))
    BY DEF CallMethodMissing
  <2>2. \A a, b : IsSeq(<<a, b>>)
    <3> SUFFICES ASSUME NEW a, NEW b PROVE IsSeq(<<a, b>>)
      OBVIOUS
    <3>1. <<a, b>> \in Seq({a, b})
      OBVIOUS
    <3> QED BY <3>1, SeqIsSeq
  <2> QED BY <2>1, <2>2
<1> DEFINE scope == This(stacks, Top.vals) \o Bindings(f.params, ds)
<1>3. IsSeq(scope)
  BY <1>2, ThisFacts, BindingsFacts, IsSeqConcat
<1> HIDE DEF scope
<1> QED BY <1>1, <1>2, <1>3, CallSound DEF scope
-----------------------------------------------------------------------------
(* A try begins;                                                             *)
LEMMA StartTrySound ==
  ASSUME StackInv, StartTry
  PROVE  Sound
<1>1. frames # <<>> /\ Top.node.kind = "Try" /\ Top.phase = "start"
  BY DEF StartTry, InPhase, Running
<1>2. Top.node.kind \notin Callers /\ Top.node.kind \notin Scopers
  BY <1>1 DEF Callers, Calls, Scopers
<1>3. ~Top.call /\ Top.scopes = 0
  BY <1>1, <1>2, TopPhase
<1> DEFINE g == [Top EXCEPT !.phase = "try", !.scopes = 1]
<1>4. PICK n : Enter(g, n, Scoped(<<>>))
  BY DEF StartTry
<1>5. Becomes(g, Top, "try", Top.scopes + 1, FALSE)
  <2>1. Becomes(g, Top, "try", 1, FALSE)
    BY <1>1, <1>3, TopExcept
  <2>2. 1 = Top.scopes + 1
    BY <1>3
  <2> QED BY <2>1, <2>2, Zenon
<1> HIDE DEF g
<1>6. ScopesOK(g)
  BY <1>1, <1>3, <1>5 DEF ScopesOK, Becomes, Loops, Phased
<1> QED BY <1>1, <1>3, <1>4, <1>5, <1>6, PushSound, IsSeqTuples

(* a handler begins;                                                         *)
LEMMA HandleSound ==
  ASSUME StackInv, Handle
  PROVE  Sound
<1>1. frames # <<>> /\ Top.node.kind = "Try" /\ Top.phase = "try"
  BY DEF Handle, Thrown
<1>2. Top.node.kind \notin Callers /\ Top.node.kind \notin Scopers
  BY <1>1 DEF Callers, Calls, Scopers
<1>3. ~Top.call /\ Top.scopes = 1
  BY <1>1, <1>2, TopPhase
<1> DEFINE g == [Top EXCEPT !.phase = "handler", !.scopes = 2]
<1>4. PICK n, scope : Enter(g, n, Scoped(scope)) /\ IsSeq(scope)
  <2>1. (\E n : Enter(g, n, Scoped(<<>>))) \/ \E n, b : Enter(g, n, Scoped(<<b>>))
    BY DEF Handle
  <2> HIDE DEF g
  <2> QED BY <2>1, IsSeqTuples
<1>5. Becomes(g, Top, "handler", Top.scopes + 1, FALSE)
  <2>1. Becomes(g, Top, "handler", 2, FALSE)
    BY <1>1, <1>3, TopExcept
  <2>2. 2 = Top.scopes + 1
    BY <1>3
  <2> QED BY <2>1, <2>2, Zenon
<1> HIDE DEF g
<1>6. ScopesOK(g)
  BY <1>1, <1>3, <1>5 DEF ScopesOK, Becomes, Loops, Phased
<1> QED BY <1>1, <1>3, <1>4, <1>5, <1>6, PushSound

(* its finally begins, with one scope left;                                  *)
LEMMA FinallySound ==
  ASSUME StackInv, frames # <<>>, Top.node.kind = "Try", Top.phase \in {"try", "handler"},
         NEW again, Finally(again)
  PROVE  Sound
<1>2. Top.node.kind \notin Callers /\ Top.node.kind \notin Scopers
  BY DEF Callers, Calls, Scopers
<1>3. ~Top.call /\ Top.scopes \in {1, 2}
  BY <1>2, TopPhase
<1> DEFINE g == [Top EXCEPT !.phase = "finally", !.scopes = 1, !.pending = again]  k == Top.scopes - 1
<1>4. PICK n : Enter(g, n, SetCurrent(Unscoped(k)))
  BY DEF Finally
<1>5. Becomes(g, Top, "finally", Top.scopes - k, FALSE)
  <2>1. Becomes(g, Top, "finally", 1, FALSE)
    BY <1>3, TopExcept
  <2>2. 1 = Top.scopes - k
    BY <1>3
  <2> QED BY <2>1, <2>2, Zenon
<1> HIDE DEF g
<1>6. k \in 0..Top.scopes /\ Top.scopes - k \in Nat
  BY <1>3
<1> HIDE DEF k
<1>7. ScopesOK(g)
  BY <1>3, <1>5, <1>6 DEF ScopesOK, Becomes, Loops, Phased
<1> QED BY <1>3, <1>4, <1>5, <1>6, <1>7, LessSound

(* it ends or its finally begins;                                            *)
LEMMA LeaveTrySound ==
  ASSUME StackInv, LeaveTry \/ HandleNone \/ JumpOutOfTry
  PROVE  Sound
<1>1. frames # <<>> /\ Top.node.kind = "Try" /\ Top.phase \in {"try", "handler"}
  BY DEF LeaveTry, HandleNone, JumpOutOfTry, InPhase, Running, Thrown
<1>2. (\E again : Finally(again)) \/ (\E d : End(d))
  BY DEF LeaveTry, HandleNone, JumpOutOfTry
<1> QED BY <1>1, <1>2, FinallySound, EndSound

(* its finally has ended.                                                    *)
LEMMA LeaveFinallySound ==
  ASSUME StackInv, LeaveFinally
  PROVE  Sound
<1>1. frames # <<>> /\ Top.node.kind = "Try" /\ Top.phase = "finally" /\ Top.node.kind \notin Scopers
  BY DEF LeaveFinally, InPhase, Running, Scopers
<1>2. (UNCHANGED <<frames, stacks>>) \/ (\E d : End(d))
  BY DEF LeaveFinally
<1> QED BY <1>1, <1>2, HereSound, EndSound

(* A node is left by a jump or an exception.                                 *)
LEMMA UnwindSound ==
  ASSUME StackInv, Unwind
  PROVE  Sound
<1>1. frames # <<>> /\ frames' = Front(frames) /\ stacks' = Left /\ ctl'.kind # "run"
  BY DEF Unwind
<1>2. StacksOK(stacks') /\ Extends(Top.base, stacks')
  BY <1>1, LeftFacts
<1>3. StackInv'
  BY <1>1, <1>2, DropKeeps
<1> QED BY <1>2, <1>3 DEF Sound
-----------------------------------------------------------------------------
(* Only a Lambda node makes a function object.                                *)
LEMMA LambdasKept ==
  ASSUME StackInv, LambdasOK, ObjectsNext
  PROVE  LambdasOK'
<1>1. CASE EvalLambda
  <2> DEFINE c == [node |-> Top.node, captured |-> Top.vals]
  <2>1. lambdas' = Append(lambdas, c) /\ IsSeq(c.captured)
    BY <1>1, TopFacts DEF EvalLambda, Evaluated, InPhase, Running
  <2> HIDE DEF c
  <2> DEFINE n == Len(lambdas)
  <2>2. /\ IsSeq(lambdas') /\ Len(lambdas') = n + 1 /\ lambdas'[n + 1] = c /\ n \in Nat
        /\ \A i \in 1..n : lambdas'[i] = lambdas[i]
    BY <2>1, IsSeqAppend, IsSeqFacts DEF LambdasOK
  <2>3. \A i \in 1..Len(lambdas') : i \in 1..n \/ i = n + 1
    BY <2>2
  <2> HIDE DEF n
  <2> QED BY <2>1, <2>2, <2>3 DEF LambdasOK, n
<1>2. CASE UNCHANGED lambdas
  BY <1>2 DEF LambdasOK
<1>3. ASSUME \/ EvalOperand \/ EvalConstant \/ EvalNoop \/ EvalId
             \/ EvalDeclaration \/ EvalAssignDecl \/ EvalEquation
             \/ EvalBinary \/ EvalPrefix \/ EvalLogical \/ CloneElement \/ EvalInlineArray \/ EvalArrayCall
             \/ EvalSequence \/ EvalIf \/ EvalReturn \/ EvalJump
      PROVE  UNCHANGED lambdas
  BY <1>3 DEF EvalOperand, EvalConstant, EvalNoop, EvalId, EvalDeclaration, EvalAssignDecl, EvalEquation,
       EvalBinary, EvalPrefix, EvalLogical, CloneElement, EvalInlineArray, EvalArrayCall,
       EvalSequence, EvalIf, EvalReturn, EvalJump, Rest
<1>4. ASSUME \/ StartLoop \/ NextRound \/ Tested \/ ContinueLoop \/ BreakLoop
             \/ EvalRange \/ NextElement \/ BreakRange
             \/ StartCounting \/ NextCount \/ BreakCount
             \/ StartSwitch \/ NextCase \/ TestCase \/ BreakSwitch \/ EvalCase
      PROVE  UNCHANGED lambdas
  BY <1>4 DEF StartLoop, NextRound, Tested, ContinueLoop, BreakLoop, EvalRange, NextElement, BreakRange,
       StartCounting, NextCount, BreakCount, StartSwitch, NextCase, TestCase, BreakSwitch, EvalCase, Rest
<1>5. ASSUME \/ EvalDef \/ CallFunction \/ CallVariable \/ CallHost \/ CallUnknown \/ FinishCall \/ CatchReturn
             \/ StartTry \/ LeaveTry \/ Handle \/ HandleNone \/ JumpOutOfTry \/ LeaveFinally
             \/ JumpOutOfFile \/ Unwind
             \/ EvalClass \/ CallDeclaredAttribute \/ CallMethod \/ CallMethodMissing \/ CallMissing
      PROVE  UNCHANGED lambdas
  BY <1>5 DEF EvalDef, CallFunction, CallVariable, CallHost, CallUnknown, FinishCall, CatchReturn,
       StartTry, LeaveTry, Handle, HandleNone, JumpOutOfTry, LeaveFinally, JumpOutOfFile, Unwind,
       EvalClass, CallDeclaredAttribute, CallMethod, CallMethodMissing, CallMissing, Rest
<1> QED BY <1>1, <1>2, <1>3, <1>4, <1>5 DEF ObjectsNext, Next

(* Every step keeps the stacks, and restores them when a node is left.       *)
LEMMA StepSound ==
  ASSUME StackInv, LambdasOK, ObjectsNext
  PROVE  Sound
<1>1. ASSUME \/ EvalOperand \/ EvalConstant \/ EvalNoop \/ EvalId
             \/ EvalDeclaration \/ EvalAssignDecl \/ EvalEquation
             \/ EvalBinary \/ EvalPrefix \/ EvalLogical \/ CloneElement \/ EvalInlineArray \/ EvalArrayCall
             \/ EvalSequence \/ EvalIf \/ EvalReturn \/ EvalJump
      PROVE  Sound
  BY <1>1, OperandSound, LeavesSound, DeclarationsSound, EquationSound, OperatorsSound, CloneElementSound,
     SequencesSound, StatementsSound
<1>2. ASSUME \/ StartLoop \/ NextRound \/ Tested \/ ContinueLoop \/ BreakLoop
             \/ EvalRange \/ NextElement \/ BreakRange
             \/ StartCounting \/ NextCount \/ BreakCount
             \/ StartSwitch \/ NextCase \/ TestCase \/ BreakSwitch \/ EvalCase
      PROVE  Sound
  BY <1>2, StartLoopSound, NextRoundSound, TestedSound, ContinueSound, StatementsSound, RangeSound,
     NextElementSound, StartCountingSound, NextCountSound, StartSwitchSound, NextCaseSound, TestCaseSound, SequencesSound
<1>3. ASSUME \/ EvalDef \/ EvalLambda \/ CallFunction \/ CallVariable \/ CallHost \/ CallUnknown \/ FinishCall \/ CatchReturn
             \/ JumpOutOfFile
             \/ EvalClass \/ CallDeclaredAttribute \/ CallMethod \/ CallMethodMissing \/ CallMissing
      PROVE  Sound
  BY <1>3, FunctionsSound, CallFunctionSound, CallVariableSound, ClassSound, MissingSound, MethodMissingSound
<1>4. ASSUME \/ StartTry \/ LeaveTry \/ Handle \/ HandleNone \/ JumpOutOfTry \/ LeaveFinally \/ Unwind
      PROVE  Sound
  BY <1>4, StartTrySound, LeaveTrySound, HandleSound, LeaveFinallySound, UnwindSound
<1> QED BY <1>1, <1>2, <1>3, <1>4 DEF ObjectsNext, Next
-----------------------------------------------------------------------------
(* The inductive invariant.                                                   *)
IInv == StackInv /\ LambdasOK

(* One node, which has begun.                                                *)
LEMMA InitIInv ==
  ASSUME Init
  PROVE  IInv
<1>1. StacksOK(Bare)
  <2> DEFINE stack == << <<>> >>
  <2>1. StackOK(stack)
    BY IsSeqTuples DEF StackOK
  <2> HIDE DEF stack
  <2>2. IsSeq(<<stack>>) /\ Len(<<stack>>) = 1 /\ <<stack>> # <<>> /\ <<stack>>[1] = stack
    BY IsSeqTuples
  <2>3. Bare = <<stack>>
    BY DEF Bare, stack
  <2> QED BY <2>1, <2>2, <2>3 DEF StacksOK
<1>2. PICK p : frames = <<Frame(p, Bare)>>
  BY DEF Init
<1> DEFINE f == Frame(p, Bare)
<1>3. FrameOK(f) /\ Owns(f, Bare) /\ f.vals = <<>> /\ f.scopes = 0
  BY <1>1, OwnsNew
<1> HIDE DEF f
<1>4. IsSeq(frames) /\ Len(frames) = 1 /\ Last(frames) = f /\ frames[1] = f /\ frames # <<>>
  BY <1>2, IsSeqTuples DEF f
<1>5. FramesOK /\ Chained
  BY <1>3, <1>4 DEF FramesOK, Chained
<1>6. Held
  BY <1>1, <1>3, <1>4 DEF Held, Init, Top
<1>7. Begun
  <2>1. ctl.kind = "run"
    BY DEF Init, Run
  <2> QED BY <1>4, <2>1 DEF Begun
<1>8. Fresh
  BY <1>3, <1>4 DEF Fresh, Top
<1>9. LambdasOK
  BY IsSeqTuples DEF Init, LambdasOK
<1> QED BY <1>5, <1>6, <1>7, <1>8, <1>9 DEF IInv, StackInv

(* The invariant is about frames, stacks, ctl and lambdas only.              *)
LEMMA StutterIInv ==
  ASSUME IInv, UNCHANGED vars
  PROVE  IInv'
<1>1. UNCHANGED <<frames, stacks, ctl, lambdas>>
  BY DEF vars
<1>2. FramesOK' /\ Chained' /\ Held' /\ Begun' /\ Fresh' /\ LambdasOK'
  BY <1>1 DEF IInv, StackInv, FramesOK, Chained, Held, Begun, Fresh, LambdasOK, Top, Running
<1> QED BY <1>2 DEF IInv, StackInv

(* The invariant holds of every program, for every way that values are copied. *)
THEOREM IInvHolds == ObjectsSpec => []IInv
<1>1. Init => IInv
  BY InitIInv
<1>2. IInv /\ [ObjectsNext]_vars => IInv'
  BY StepSound, LambdasKept, StutterIInv DEF IInv, Sound
<1> QED BY <1>1, <1>2, PTL DEF ObjectsSpec

(* Whichever way a node is left, by a value, a jump or an exception, its scopes *)
(* and stacks are popped and none of its callers': the destructors of        *)
(* chaiscript_eval.hpp keep Stack_Holder balanced.                           *)
THEOREM StacksAlwaysRestored == ObjectsSpec => StacksRestored
<1>1. IInv /\ [ObjectsNext]_vars => [Len(frames') < Len(frames) => Extends(Top.base, stacks')]_vars
  BY StepSound DEF IInv, Sound
<1> QED BY <1>1, IInvHolds, PTL DEF ObjectsSpec, StacksRestored
-----------------------------------------------------------------------------
(* Entering a child leaves no node.                                          *)
LEMMA EnterLonger ==
  ASSUME StackInv, frames # <<>>, NEW f, NEW n, NEW s, Enter(f, n, s)
  PROVE  ~(Len(frames') < Len(frames))
<1> DEFINE r == [frames EXCEPT ![Len(frames)] = f]
<1>1. IsSeq(r) /\ Len(r) = Len(frames) /\ Len(frames) \in Nat
  BY TopFacts, IsSeqReplaceTop
<1>2. frames' = Append(r, Frame(n, s))
  BY DEF Enter
<1> HIDE DEF r
<1>3. Len(frames') = Len(r) + 1
  BY <1>1, <1>2, IsSeqAppend
<1> QED BY <1>1, <1>3

(* The steps of a try.                                                        *)
LEMMA TrySteps ==
  ASSUME StackInv, ObjectsNext, frames # <<>>, Top.node.kind = "Try"
  PROVE  StartTry \/ LeaveTry \/ Handle \/ HandleNone \/ JumpOutOfTry \/ LeaveFinally \/ Unwind
<1>1. ASSUME \/ EvalConstant \/ EvalNoop \/ EvalId
             \/ EvalDeclaration \/ EvalAssignDecl \/ EvalEquation
             \/ EvalBinary \/ EvalPrefix \/ EvalLogical \/ CloneElement \/ EvalInlineArray \/ EvalArrayCall
             \/ EvalSequence \/ EvalIf \/ EvalReturn \/ EvalJump
      PROVE  FALSE
  BY <1>1 DEF EvalConstant, EvalNoop, EvalId, EvalDeclaration, EvalAssignDecl, EvalEquation,
       EvalBinary, EvalPrefix, EvalLogical, CloneElement, EvalInlineArray, EvalArrayCall,
       EvalSequence, EvalIf, EvalReturn, EvalJump, Evaluated, InPhase, Running
<1>2. ASSUME \/ StartLoop \/ NextRound \/ Tested \/ ContinueLoop \/ BreakLoop
             \/ EvalRange \/ NextElement \/ BreakRange
             \/ StartCounting \/ NextCount \/ BreakCount
             \/ StartSwitch \/ NextCase \/ TestCase \/ BreakSwitch \/ EvalCase
      PROVE  FALSE
  BY <1>2 DEF StartLoop, NextRound, Tested, ContinueLoop, BreakLoop, EvalRange, NextElement, BreakRange,
       StartCounting, NextCount, BreakCount, StartSwitch, NextCase, TestCase, BreakSwitch, EvalCase,
       Loops, InPhase, Running, Thrown
<1>3. ASSUME \/ EvalDef \/ EvalLambda \/ CallFunction \/ CallVariable \/ CallHost \/ CallUnknown
             \/ FinishCall \/ CatchReturn \/ JumpOutOfFile
             \/ EvalClass \/ CallDeclaredAttribute \/ CallMethod \/ CallMethodMissing \/ CallMissing
      PROVE  FALSE
  BY <1>3 DEF EvalDef, EvalLambda, CallFunction, CallVariable, CallHost, CallUnknown, FinishCall, CatchReturn, JumpOutOfFile,
       EvalClass, CallDeclaredAttribute, CallMethod, CallMethodMissing, CallMissing,
       CalledByName, AtMember, Callers, Calls, Evaluated, InPhase, Running, Thrown
<1>4. ASSUME EvalOperand PROVE FALSE
  <2>1. Operands(Top.node) = <<>>
    BY DEF Operands, Callers, Calls
  <2>2. Len(Top.vals) \in Nat /\ Len(Top.vals) < Len(Operands(Top.node))
    BY <1>4, TopFacts DEF EvalOperand
  <2> QED BY <2>1, <2>2, IsSeqTuples
<1> QED BY <1>1, <1>2, <1>3, <1>4 DEF ObjectsNext, Next

(* A try with a finally is left after the finally, or out of a handler.      *)
THEOREM FinallyAlwaysRuns == ObjectsSpec => FinallyRuns
<1> DEFINE Ended == Top.phase = "finally" \/ (Top.phase = "handler" /\ ctl.kind # "run")
           Ends == (Len(frames') < Len(frames) /\ Top.node.kind = "Try" /\ HasFinally) => Ended
<1>1. ASSUME IInv, ObjectsNext PROVE Ends
  <2> SUFFICES ASSUME Len(frames') < Len(frames), Top.node.kind = "Try", HasFinally
               PROVE  Ended
    OBVIOUS
  <2>1. StackInv
    BY <1>1 DEF IInv
  <2>2. frames # <<>>
    <3>1. Len(frames') \in Nat
      BY <1>1, StepSound, IsSeqFacts DEF IInv, Sound, StackInv, FramesOK
    <3>2. Len(frames) \in Nat /\ (frames = <<>> <=> Len(frames) = 0)
      BY <2>1, IsSeqFacts DEF StackInv, FramesOK
    <3> QED BY <3>1, <3>2
  <2>3. StartTry \/ LeaveTry \/ Handle \/ HandleNone \/ JumpOutOfTry \/ LeaveFinally \/ Unwind
    BY <1>1, <2>1, <2>2, TrySteps
  <2>4. CASE StartTry \/ Handle \/ JumpOutOfTry \/ LeaveTry \/ HandleNone
    <3>1. \E f, n, s : Enter(f, n, s)
      BY <2>4 DEF StartTry, Handle, JumpOutOfTry, LeaveTry, HandleNone, Finally
    <3> QED BY <2>1, <2>2, <3>1, EnterLonger
  <2>5. CASE LeaveFinally
    BY <2>5 DEF LeaveFinally, InPhase
  <2>6. CASE Unwind
    <3>1. Top.phase \in {"start", "try", "handler", "finally"}
      BY <2>1, <2>2, TopFacts DEF FrameOK, ScopesOK
    <3>2. ctl.kind # "run" /\ Top.phase # "try"
      BY <2>6 DEF Unwind, HandlesIt, Loops, Callers, Calls
    <3>3. Top.phase # "start"
      <4>1. Len(frames) \in Nat /\ Len(frames) >= 1 /\ Top = frames[Len(frames)]
        BY <2>1, <2>2, TopFacts
      <4> QED BY <2>1, <3>2, <4>1 DEF StackInv, Begun
    <3> QED BY <3>1, <3>2, <3>3
  <2> QED BY <2>3, <2>4, <2>5, <2>6
<1>2. IInv /\ [ObjectsNext]_vars => [Ends]_vars
  BY <1>1
<1> QED BY <1>2, IInvHolds, PTL DEF ObjectsSpec, FinallyRuns
-----------------------------------------------------------------------------
(* The heaps that the evaluator comes to.                                    *)

(* A sequence is one over every set that has its elements.                   *)
LEMMA IsSeqOver ==
  ASSUME NEW s, IsSeq(s), NEW S, \A i \in 1..Len(s) : s[i] \in S
  PROVE  s \in Seq(S)
<1>1. DOMAIN s = 1..Len(s)
  BY IsSeqFacts
<1>2. Range(s) \subseteq S
  BY <1>1 DEF Range
<1> QED BY <1>2, IsSeqIn

(* What a sound heap is, element by element,                                 *)
LEMMA HeapFacts ==
  ASSUME NEW h, SoundHeap(h)
  PROVE  /\ IsSeq(h.data) /\ IsSeq(h.objs) /\ Len(h.data) \in Nat /\ Len(h.data) >= 1 /\ Len(h.objs) \in Nat
         /\ 1 \in Handles(h)
         /\ \A d \in Handles(h) : /\ h.data[d] \in DataOf(h) /\ h.data[d].obj \in 0..Len(h.objs)
                                  /\ h.data[d].const \in BOOLEAN /\ h.data[d].temp \in BOOLEAN
         /\ \A i \in 1..Len(h.objs) : ValueFits(h.objs[i], Handles(h))
         /\ \A d \in Handles(h) : h.data[d].obj \in ConstObjects(h) => h.data[d].const
<1>1. IsSeq(h.data) /\ IsSeq(h.objs) /\ h.data # <<>>
  BY SeqIsSeq DEF SoundHeap
<1>2. Len(h.data) \in Nat /\ Len(h.data) # 0 /\ Len(h.objs) \in Nat
  BY <1>1, IsSeqFacts
<1>3. \A d \in Handles(h) : h.data[d] \in DataOf(h)
  BY DEF SoundHeap, Handles
<1>4. \A b \in DataOf(h) : b.obj \in 0..Len(h.objs) /\ b.const \in BOOLEAN /\ b.temp \in BOOLEAN
  BY DEF DataOf
<1> QED BY <1>1, <1>2, <1>3, <1>4 DEF SoundHeap, Handles

(* and what makes one sound.                                                 *)
LEMMA HeapSound ==
  ASSUME NEW h, IsSeq(h.data), IsSeq(h.objs), h.data # <<>>,
         \A d \in Handles(h) : h.data[d] \in DataOf(h),
         \A i \in 1..Len(h.objs) : ValueFits(h.objs[i], Handles(h)),
         \A d \in Handles(h) : h.data[d].obj \in ConstObjects(h) => h.data[d].const
  PROVE  SoundHeap(h)
<1>1. h.data \in Seq(DataOf(h))
  BY IsSeqOver DEF Handles
<1> QED BY <1>1 DEF SoundHeap, IsSeq

(* A value fits a heap with more handles.                                    *)
LEMMA FitsMore ==
  ASSUME NEW v, NEW H, ValueFits(v, H), NEW K, H \subseteq K
  PROVE  ValueFits(v, K)
<1>1. v.elems \in Seq(K)
  BY SeqMonotonic DEF ValueFits
<1> QED BY <1>1 DEF ValueFits

(* Only the Data and the objects count.                                      *)
LEMMA KeepsSame ==
  ASSUME NEW h, NEW a, NEW b, a.data = b.data, a.objs = b.objs
  PROVE  Keeps(h, a) => Keeps(h, b)
<1>1. Handles(a) = Handles(b) /\ DataOf(a) = DataOf(b) /\ ConstObjects(a) = ConstObjects(b)
  BY DEF Handles, DataOf, ConstObjects
<1>2. SoundHeap(a) => SoundHeap(b)
  BY <1>1 DEF SoundHeap
<1> QED BY <1>1, <1>2 DEF Keeps

(* A heap may stay.                                                          *)
LEMMA KeepsSelf ==
  ASSUME NEW h, SoundHeap(h)
  PROVE  Keeps(h, h)
<1>1. Len(h.data) \in Nat /\ Len(h.objs) \in Nat
  BY HeapFacts
<1> QED BY <1>1 DEF Keeps

LEMMA KeepsTransitive ==
  ASSUME NEW a, NEW b, NEW c, SoundHeap(a), Keeps(a, b), Keeps(b, c)
  PROVE  Keeps(a, c)
<1>1. /\ Len(a.data) \in Nat /\ Len(b.data) \in Nat /\ Len(c.data) \in Nat
      /\ Len(a.objs) \in Nat /\ Len(b.objs) \in Nat /\ Len(c.objs) \in Nat
  BY HeapFacts DEF Keeps
<1>2. Len(a.data) <= Len(c.data) /\ Len(a.objs) <= Len(c.objs) /\ SoundHeap(c)
  BY <1>1 DEF Keeps
<1>3. Handles(a) \subseteq Handles(b) /\ 1..Len(a.objs) \subseteq 1..Len(b.objs)
  BY <1>1 DEF Keeps, Handles
<1>4. ConstObjects(a) \subseteq ConstObjects(b)
  <2> SUFFICES ASSUME NEW i \in ConstObjects(a) PROVE i \in ConstObjects(b)
    OBVIOUS
  <2>1. b.objs[i] = a.objs[i] /\ i \in 1..Len(b.objs) /\ a.objs[i].type \notin Shared
    BY <1>3 DEF Keeps, ConstObjects
  <2>2. PICK d \in Handles(a) : a.data[d].const /\ a.data[d].obj = i
    BY DEF ConstObjects
  <2>3. d \in Handles(b) /\ b.data[d].const /\ b.data[d].obj = i
    BY <1>3, <2>2 DEF Keeps
  <2> QED BY <2>1, <2>3 DEF ConstObjects
<1>5. \A d \in Handles(a) : a.data[d].const => c.data[d].const /\ c.data[d].obj = a.data[d].obj
  BY <1>3 DEF Keeps
<1>6. \A i \in ConstObjects(a) : c.objs[i] = a.objs[i]
  BY <1>4 DEF Keeps
<1>7. \A i \in 1..Len(a.objs) : i \in ConstObjects(c) => i \in ConstObjects(a)
  BY <1>3 DEF Keeps
<1> QED BY <1>2, <1>5, <1>6, <1>7 DEF Keeps

(* What a kept heap still has.                                               *)
LEMMA KeepsFacts ==
  ASSUME NEW h, NEW a, SoundHeap(h), Keeps(h, a)
  PROVE  /\ SoundHeap(a) /\ Handles(h) \subseteq Handles(a) /\ 0..Len(h.data) \subseteq 0..Len(a.data)
         /\ 0..Len(h.objs) \subseteq 0..Len(a.objs)
         /\ \A i \in 0..Len(h.objs) : i \in ConstObjects(a) => i \in ConstObjects(h)
<1>1. Len(h.data) \in Nat /\ Len(h.objs) \in Nat /\ Len(a.data) \in Nat /\ Len(a.objs) \in Nat
  BY HeapFacts DEF Keeps
<1>2. Handles(h) \subseteq Handles(a) /\ 0..Len(h.data) \subseteq 0..Len(a.data) /\ 0..Len(h.objs) \subseteq 0..Len(a.objs)
  BY <1>1 DEF Keeps, Handles
<1>3. 0 \notin ConstObjects(a)
  BY DEF ConstObjects
<1>4. \A i \in 0..Len(h.objs) : i = 0 \/ i \in 1..Len(h.objs)
  BY <1>1
<1> QED BY <1>2, <1>3, <1>4 DEF Keeps
-----------------------------------------------------------------------------
(* What the steps do to the heap.                                            *)

(* New Data, for no object or for one that may be written.                   *)
NewBox(o, const, temp) == [obj |-> o, const |-> const, temp |-> temp]

(* A new Data with a new object.                                             *)
LEMMA NewValueKeeps ==
  ASSUME NEW h, SoundHeap(h), NEW v, ValueFits(v, Handles(h)), NEW const \in BOOLEAN, NEW temp \in BOOLEAN,
         NEW a, a.data = Append(h.data, NewBox(Len(h.objs) + 1, const, temp)), a.objs = Append(h.objs, v)
  PROVE  /\ Keeps(h, a) /\ Len(h.data) + 1 \in Handles(a) /\ Len(h.objs) + 1 \in 1..Len(a.objs)
         /\ a.data[Len(h.data) + 1] = NewBox(Len(h.objs) + 1, const, temp)
         /\ a.objs[Len(h.objs) + 1] = v /\ Len(a.data) = Len(h.data) + 1 /\ Len(a.objs) = Len(h.objs) + 1
         /\ Len(h.objs) + 1 \in ConstObjects(a) => const
<1> DEFINE m == Len(h.data)  n == Len(h.objs)  b == NewBox(n + 1, const, temp)
<1>1. /\ IsSeq(h.data) /\ IsSeq(h.objs) /\ m \in Nat /\ n \in Nat
      /\ \A d \in 1..m : h.data[d] \in DataOf(h) /\ h.data[d].obj \in 0..n
      /\ \A i \in 1..n : ValueFits(h.objs[i], Handles(h))
  BY HeapFacts DEF Handles
<1> HIDE DEF b
<1>2. /\ IsSeq(a.data) /\ Len(a.data) = m + 1 /\ a.data # <<>> /\ a.data[m + 1] = b
      /\ \A i \in 1..m : a.data[i] = h.data[i]
  BY <1>1, IsSeqAppend DEF b
<1>3. IsSeq(a.objs) /\ Len(a.objs) = n + 1 /\ a.objs[n + 1] = v /\ \A i \in 1..n : a.objs[i] = h.objs[i]
  BY <1>1, IsSeqAppend
<1>4. b.obj = n + 1 /\ b.const = const /\ b.temp = temp /\ b \in DataOf(a)
  BY <1>1, <1>3 DEF b, NewBox, DataOf
<1> HIDE DEF m, n
<1>5. Handles(a) = 1..(m + 1) /\ Handles(h) = 1..m
  BY <1>2 DEF Handles, m
<1>6. \A d \in 1..(m + 1) : d \in 1..m \/ d = m + 1
  BY <1>1
<1>7. \A i \in 1..(n + 1) : i \in 1..n \/ i = n + 1
  BY <1>1
<1>8. DataOf(h) \subseteq DataOf(a) /\ n + 1 \notin 0..n /\ Handles(h) \subseteq Handles(a)
  BY <1>1, <1>3, <1>5 DEF DataOf, n
<1>9. \A d \in Handles(a) : a.data[d] \in DataOf(a)
  BY <1>1, <1>2, <1>4, <1>5, <1>6, <1>8
<1>10. \A i \in 1..Len(a.objs) : ValueFits(a.objs[i], Handles(a))
  BY <1>1, <1>3, <1>7, <1>8, FitsMore
<1>11. \A i \in 1..n : i \in ConstObjects(a) => i \in ConstObjects(h)
  <2> SUFFICES ASSUME NEW i \in 1..n, i \in ConstObjects(a) PROVE i \in ConstObjects(h)
    OBVIOUS
  <2>1. PICK d \in Handles(a) : a.data[d].const /\ a.data[d].obj = i
    BY DEF ConstObjects
  <2>2. d # m + 1
    BY <1>2, <1>4, <1>8, <2>1
  <2>3. d \in Handles(h) /\ h.data[d] = a.data[d]
    BY <1>2, <1>5, <1>6, <2>2
  <2>4. h.objs[i] = a.objs[i]
    BY <1>3
  <2> QED BY <2>1, <2>3, <2>4 DEF ConstObjects, n
<1>12. n + 1 \in ConstObjects(a) => const
  <2> SUFFICES ASSUME n + 1 \in ConstObjects(a) PROVE const
    OBVIOUS
  <2>1. PICK d \in Handles(a) : a.data[d].const /\ a.data[d].obj = n + 1
    BY DEF ConstObjects
  <2>2. d = m + 1
    BY <1>1, <1>2, <1>5, <1>6, <1>8, <2>1
  <2> QED BY <1>2, <1>4, <2>1, <2>2
<1>13. \A d \in Handles(a) : a.data[d].obj \in ConstObjects(a) => a.data[d].const
  <2> SUFFICES ASSUME NEW d \in Handles(a), a.data[d].obj \in ConstObjects(a) PROVE a.data[d].const
    OBVIOUS
  <2>1. CASE d = m + 1
    BY <1>2, <1>4, <1>12, <2>1
  <2>2. CASE d \in 1..m
    <3>1. a.data[d] = h.data[d] /\ h.data[d].obj \in 0..n /\ h.data[d].obj # 0 /\ d \in Handles(h)
      BY <1>1, <1>2, <1>5, <2>2 DEF ConstObjects
    <3>2. h.data[d].obj \in 1..n /\ h.data[d].obj \in ConstObjects(a)
      <4>1. \A x \in 0..n : x # 0 => x \in 1..n
        BY <1>1
      <4> QED BY <3>1, <4>1
    <3>3. h.data[d].obj \in ConstObjects(h)
      BY <1>11, <3>2
    <3> QED BY <3>1, <3>3, HeapFacts
  <2> QED BY <1>5, <1>6, <2>1, <2>2
<1>14. SoundHeap(a)
  BY <1>2, <1>3, <1>9, <1>10, <1>13, HeapSound
<1>15. \A d \in Handles(h) : a.data[d] = h.data[d]
  BY <1>2, <1>5
<1>16. \A i \in ConstObjects(h) : a.objs[i] = h.objs[i]
  BY <1>3 DEF ConstObjects, n
<1>17. m <= m + 1 /\ n <= n + 1 /\ m + 1 \in 1..(m + 1) /\ n + 1 \in 1..(n + 1)
  BY <1>1
<1>18. Keeps(h, a)
  BY <1>2, <1>3, <1>11, <1>14, <1>15, <1>16, <1>17 DEF Keeps, m, n
<1> QED BY <1>2, <1>3, <1>5, <1>12, <1>17, <1>18 DEF m, n, b

(* A new Data that holds what may be written, or nothing.                    *)
LEMMA NewAliasKeeps ==
  ASSUME NEW h, SoundHeap(h), NEW o \in 0..Len(h.objs), o \notin ConstObjects(h),
         NEW a, a.data = Append(h.data, NewBox(o, FALSE, FALSE)), a.objs = h.objs
  PROVE  Keeps(h, a) /\ Len(h.data) + 1 \in Handles(a)
<1> DEFINE m == Len(h.data)  b == NewBox(o, FALSE, FALSE)
<1>1. /\ IsSeq(h.data) /\ IsSeq(h.objs) /\ m \in Nat /\ Len(h.objs) \in Nat
      /\ \A d \in 1..m : h.data[d] \in DataOf(h)
      /\ \A i \in 1..Len(h.objs) : ValueFits(h.objs[i], Handles(h))
  BY HeapFacts DEF Handles
<1>2. b.obj = o /\ b.const = FALSE /\ b \in DataOf(h) /\ DataOf(a) = DataOf(h)
  BY <1>1 DEF NewBox, DataOf
<1> HIDE DEF b
<1>3. /\ IsSeq(a.data) /\ Len(a.data) = m + 1 /\ a.data # <<>> /\ a.data[m + 1] = b
      /\ \A i \in 1..m : a.data[i] = h.data[i]
  <2> DEFINE r == Append(h.data, b)
  <2>1. /\ IsSeq(r) /\ Len(r) = m + 1 /\ r # <<>> /\ r[m + 1] = b
        /\ \A i \in 1..m : r[i] = h.data[i]
    BY <1>1, IsSeqAppend
  <2>2. a.data = r
    BY DEF b
  <2> HIDE DEF r
  <2> QED BY <2>1, <2>2
<1> HIDE DEF m
<1>4. Handles(a) = 1..(m + 1) /\ Handles(h) = 1..m /\ Handles(h) \subseteq Handles(a)
  BY <1>1, <1>3 DEF Handles, m
<1>5. \A d \in 1..(m + 1) : d \in 1..m \/ d = m + 1
  BY <1>1
<1>6. \A d \in Handles(a) : a.data[d] \in DataOf(a)
  BY <1>1, <1>2, <1>3, <1>4, <1>5
<1>7. \A i \in 1..Len(a.objs) : ValueFits(a.objs[i], Handles(a))
  BY <1>1, <1>4, FitsMore
<1>8. ConstObjects(a) = ConstObjects(h)
  <2>1. \A i : (\E d \in Handles(a) : a.data[d].const /\ a.data[d].obj = i) <=> (\E d \in Handles(h) : h.data[d].const /\ h.data[d].obj = i)
    BY <1>2, <1>3, <1>4, <1>5
  <2> QED BY <2>1 DEF ConstObjects
<1>10. \A d \in Handles(a) : a.data[d].obj \in ConstObjects(a) => a.data[d].const
  BY <1>2, <1>3, <1>4, <1>5, <1>8, HeapFacts
<1>11. SoundHeap(a)
  BY <1>1, <1>3, <1>6, <1>7, <1>10, HeapSound
<1>12. m <= m + 1 /\ Len(h.objs) <= Len(h.objs) /\ m + 1 \in 1..(m + 1)
  BY <1>1
<1>13. \A d \in Handles(h) : a.data[d] = h.data[d]
  BY <1>3, <1>4
<1> QED BY <1>3, <1>4, <1>8, <1>11, <1>12, <1>13 DEF Keeps, m

LEMMA NewUndefinedKeeps ==
  ASSUME NEW h, SoundHeap(h), NEW a, a.data = Append(h.data, NewBox(0, FALSE, FALSE)), a.objs = h.objs
  PROVE  Keeps(h, a) /\ Len(h.data) + 1 \in Handles(a)
<1>1. 0 \in 0..Len(h.objs)
  BY HeapFacts
<1>2. 0 \notin ConstObjects(h)
  BY DEF ConstObjects
<1> QED BY <1>1, <1>2, NewAliasKeeps

(* Replacing one element of a sequence.                                      *)
LEMMA IsSeqReplace ==
  ASSUME NEW s, IsSeq(s), NEW k \in 1..Len(s), NEW e
  PROVE  LET r == [s EXCEPT ![k] = e] IN
         IsSeq(r) /\ Len(r) = Len(s) /\ r[k] = e /\ \A i \in 1..Len(s) : i # k => r[i] = s[i]
<1> DEFINE r == [s EXCEPT ![k] = e]
<1>1. DOMAIN s = 1..Len(s) /\ Len(s) \in Nat
  BY IsSeqFacts
<1>2. r = [i \in 1..Len(s) |-> IF i = k THEN e ELSE s[i]]
  BY <1>1
<1>3. r[k] = e /\ \A i \in 1..Len(s) : i # k => r[i] = s[i]
  BY <1>2
<1>4. r = [i \in 1..Len(s) |-> r[i]]
  BY <1>2
<1> HIDE DEF r
<1>5. IsSeq(r) /\ Len(r) = Len(s)
  BY <1>1, <1>4, IsSeqFunction
<1> QED BY <1>3, <1>5 DEF r

(* A Data refers to what another refers to, and is const if that must be; a  *)
(* const Data keeps its object.                                              *)
LEMMA RebindKeeps ==
  ASSUME NEW h, SoundHeap(h), NEW c, Keeps(h, c), NEW l \in Handles(c), NEW b \in DataOf(c),
         b.obj \in ConstObjects(c) => b.const,
         b.const => b.obj = 0 \/ b.obj \in ConstObjects(c) \/ c.objs[b.obj].type \in Shared,
         l \in Handles(h) /\ h.data[l].const => b.const /\ b.obj = h.data[l].obj,
         NEW a, a.data = [c.data EXCEPT ![l] = b], a.objs = c.objs
  PROVE  Keeps(h, a) /\ Handles(a) = Handles(c) /\ a.data[l] = b
<1>1. SoundHeap(c) /\ IsSeq(c.data) /\ IsSeq(c.objs) /\ Len(c.data) \in Nat /\ Len(c.data) >= 1 /\ l \in 1..Len(c.data)
  BY HeapFacts DEF Keeps, Handles
<1>2. /\ IsSeq(a.data) /\ Len(a.data) = Len(c.data) /\ a.data[l] = b
      /\ \A d \in Handles(c) : d # l => a.data[d] = c.data[d]
  <2> DEFINE r == [c.data EXCEPT ![l] = b]
  <2>1. IsSeq(r) /\ Len(r) = Len(c.data) /\ r[l] = b /\ \A i \in 1..Len(c.data) : i # l => r[i] = c.data[i]
    BY <1>1, IsSeqReplace
  <2>2. a.data = r
    OBVIOUS
  <2> HIDE DEF r
  <2> QED BY <2>1, <2>2 DEF Handles
<1>3. Handles(a) = Handles(c) /\ DataOf(a) = DataOf(c) /\ a.data # <<>>
  <2>1. a.data # <<>>
    BY <1>1, <1>2, IsSeqFacts
  <2> QED BY <1>2, <2>1 DEF Handles, DataOf
<1>4. \A d \in Handles(a) : a.data[d] \in DataOf(a)
  <2>1. \A d \in Handles(c) : c.data[d] \in DataOf(c)
    BY <1>1, HeapFacts
  <2> QED BY <1>2, <1>3, <2>1
<1>5. \A i \in 1..Len(a.objs) : ValueFits(a.objs[i], Handles(a))
  BY <1>1, <1>3, HeapFacts
<1>6. \A i : i \in ConstObjects(a) => i \in ConstObjects(c)
  <2> SUFFICES ASSUME NEW i \in ConstObjects(a) PROVE i \in ConstObjects(c)
    OBVIOUS
  <2>1. PICK d \in Handles(a) : a.data[d].const /\ a.data[d].obj = i
    BY DEF ConstObjects
  <2>2. i \in 1..Len(c.objs) /\ c.objs[i].type \notin Shared
    BY DEF ConstObjects
  <2>3. CASE d = l
    <3>1. b.const /\ b.obj = i /\ i # 0
      BY <1>2, <2>1, <2>2, <2>3
    <3> QED BY <2>2, <3>1
  <2>4. CASE d # l
    <3>1. c.data[d] = a.data[d] /\ d \in Handles(c)
      BY <1>2, <1>3, <2>4
    <3> QED BY <2>1, <2>2, <3>1 DEF ConstObjects
  <2> QED BY <2>3, <2>4
<1>7. \A d \in Handles(a) : a.data[d].obj \in ConstObjects(a) => a.data[d].const
  <2> SUFFICES ASSUME NEW d \in Handles(a), a.data[d].obj \in ConstObjects(a) PROVE a.data[d].const
    OBVIOUS
  <2>1. a.data[d].obj \in ConstObjects(c)
    BY <1>6
  <2>2. CASE d = l
    BY <1>2, <2>1, <2>2
  <2>3. CASE d # l
    <3>1. a.data[d] = c.data[d] /\ d \in Handles(c)
      BY <1>2, <1>3, <2>3
    <3> QED BY <1>1, <2>1, <3>1, HeapFacts
  <2> QED BY <2>2, <2>3
<1>8. SoundHeap(a)
  BY <1>1, <1>2, <1>3, <1>4, <1>5, <1>7, HeapSound
<1>9. \A d \in Handles(h) : h.data[d].const => a.data[d].const /\ a.data[d].obj = h.data[d].obj
  <2> SUFFICES ASSUME NEW d \in Handles(h), h.data[d].const
               PROVE  a.data[d].const /\ a.data[d].obj = h.data[d].obj
    OBVIOUS
  <2>1. CASE d = l
    BY <1>2, <2>1
  <2>2. CASE d # l
    <3>1. d \in Handles(c)
      BY KeepsFacts
    <3>2. a.data[d] = c.data[d]
      BY <1>2, <2>2, <3>1
    <3> QED BY <3>2 DEF Keeps
  <2> QED BY <2>1, <2>2
<1> QED BY <1>2, <1>3, <1>6, <1>8, <1>9 DEF Keeps

(* An object that no const Data holds is written, with a value that is no    *)
(* more to be protected than the old one.                                    *)
LEMMA WriteKeeps ==
  ASSUME NEW h, SoundHeap(h), NEW o \in 1..Len(h.objs), o \notin ConstObjects(h),
         NEW v, ValueFits(v, Handles(h)), h.objs[o].type \in Shared => v.type \in Shared,
         NEW a, a.data = h.data, a.objs = [h.objs EXCEPT ![o] = v]
  PROVE  Keeps(h, a) /\ Handles(a) = Handles(h) /\ Len(a.objs) = Len(h.objs)
<1>1. IsSeq(h.data) /\ IsSeq(h.objs) /\ Len(h.data) \in Nat /\ Len(h.data) >= 1 /\ Len(h.objs) \in Nat
  BY HeapFacts
<1>2. /\ IsSeq(a.objs) /\ Len(a.objs) = Len(h.objs) /\ a.objs[o] = v
      /\ \A i \in 1..Len(h.objs) : i # o => a.objs[i] = h.objs[i]
  <2> DEFINE r == [h.objs EXCEPT ![o] = v]
  <2>1. IsSeq(r) /\ Len(r) = Len(h.objs) /\ r[o] = v /\ \A i \in 1..Len(h.objs) : i # o => r[i] = h.objs[i]
    BY <1>1, IsSeqReplace
  <2>2. a.objs = r
    OBVIOUS
  <2> HIDE DEF r
  <2> QED BY <2>1, <2>2
<1>3. Handles(a) = Handles(h) /\ DataOf(a) = DataOf(h) /\ a.data # <<>>
  <2>1. a.data # <<>>
    BY <1>1, IsSeqFacts
  <2> QED BY <1>2, <2>1 DEF Handles, DataOf
<1>4. \A i \in 1..Len(a.objs) : ValueFits(a.objs[i], Handles(a))
  BY <1>2, <1>3, HeapFacts
<1>5. \A i \in 1..Len(h.objs) : (\E d \in Handles(a) : a.data[d].const /\ a.data[d].obj = i) <=> (\E d \in Handles(h) : h.data[d].const /\ h.data[d].obj = i)
  BY <1>3
<1>6. \A i : i \in ConstObjects(a) => i \in ConstObjects(h)
  <2> SUFFICES ASSUME NEW i \in ConstObjects(a) PROVE i \in ConstObjects(h)
    OBVIOUS
  <2>1. i \in 1..Len(h.objs) /\ a.objs[i].type \notin Shared /\ \E d \in Handles(h) : h.data[d].const /\ h.data[d].obj = i
    BY <1>2, <1>5 DEF ConstObjects
  <2>2. h.objs[i].type \notin Shared
    BY <1>2, <2>1
  <2> QED BY <2>1, <2>2 DEF ConstObjects
<1>7. \A d \in Handles(a) : a.data[d].obj \in ConstObjects(a) => a.data[d].const
  BY <1>3, <1>6, HeapFacts
<1>8. \A d \in Handles(a) : a.data[d] \in DataOf(a)
  BY <1>3, HeapFacts
<1>9. SoundHeap(a)
  BY <1>1, <1>2, <1>3, <1>4, <1>7, <1>8, HeapSound
<1>10. \A i \in ConstObjects(h) : a.objs[i] = h.objs[i]
  BY <1>2 DEF ConstObjects
<1> QED BY <1>1, <1>2, <1>3, <1>6, <1>9, <1>10 DEF Keeps

(* What a Data holds is a value that fits.                                   *)
LEMMA ValFits ==
  ASSUME NEW h, SoundHeap(h), NEW d \in Handles(h)
  PROVE  /\ ValueFits(ValIn(h, d), Handles(h))
         /\ ValIn(h, d).type # "undef" => h.data[d].obj \in 1..Len(h.objs) /\ ValIn(h, d) = h.objs[h.data[d].obj]
<1>1. h.data[d].obj \in 0..Len(h.objs) /\ Len(h.objs) \in Nat /\ \A i \in 1..Len(h.objs) : ValueFits(h.objs[i], Handles(h))
  BY HeapFacts
<1>2. CASE h.data[d].obj = 0
  <2>1. ValIn(h, d) = Nothing
    BY <1>2 DEF ValIn
  <2>2. Nothing.type = "undef" /\ ValueFits(Nothing, Handles(h))
    BY DEF Nothing, Value, ValueFits
  <2> QED BY <2>1, <2>2
<1>3. CASE h.data[d].obj # 0
  <2> DEFINE o == h.data[d].obj
  <2>1. \A x \in 0..Len(h.objs) : x # 0 => x \in 1..Len(h.objs)
    BY <1>1
  <2>2. o \in 1..Len(h.objs)
    BY <1>1, <1>3, <2>1
  <2>3. ValIn(h, d) = h.objs[o]
    BY <1>3 DEF ValIn
  <2> HIDE DEF o
  <2>4. ValueFits(h.objs[o], Handles(h))
    BY <1>1, <2>2
  <2> QED BY <2>2, <2>3, <2>4 DEF o
<1> QED BY <1>2, <1>3

(* The values that the evaluator makes fit any heap.                         *)
LEMMA ValuesFit ==
  ASSUME NEW H
  PROVE  /\ \A type, v : type # "object" => ValueFits(Value(type, v), H)
         /\ \A class : ValueFits(Object(class), H)
         /\ \A s \in Seq(H) : ValueFits([Value("array", 0) EXCEPT !.elems = s], H)
         /\ \A x : ValueFits(x, H) => /\ \A k : ValueFits([x EXCEPT !.v = k], H) /\ [x EXCEPT !.v = k].type = x.type
                                      /\ \A k : ValueFits([x EXCEPT !.explicit = k], H) /\ [x EXCEPT !.explicit = k].type = x.type
<1>1. <<>> \in Seq(H)
  OBVIOUS
<1>2. \A type, v : type # "object" => ValueFits(Value(type, v), H)
  BY <1>1 DEF ValueFits, Value
<1>3. \A class : ValueFits(Object(class), H)
  BY <1>1 DEF ValueFits, Object
<1>4. \A s \in Seq(H) : ValueFits([Value("array", 0) EXCEPT !.elems = s], H)
  BY DEF ValueFits, Value
<1>5. ASSUME NEW x, ValueFits(x, H), NEW k
      PROVE  /\ ValueFits([x EXCEPT !.v = k], H) /\ [x EXCEPT !.v = k].type = x.type
             /\ ValueFits([x EXCEPT !.explicit = k], H) /\ [x EXCEPT !.explicit = k].type = x.type
  BY <1>5 DEF ValueFits
<1> QED BY <1>2, <1>3, <1>4, <1>5

(* An attribute of an object is set to a Data of the heap.                   *)
LEMMA SetAttrFits ==
  ASSUME NEW x, NEW H, ValueFits(x, H), x.type = "object", NEW n, NEW d \in H
  PROVE  ValueFits([x EXCEPT !.attrs = With(x.attrs, n, d)], H) /\ [x EXCEPT !.attrs = With(x.attrs, n, d)].type = x.type
<1> DEFINE f == With(x.attrs, n, d)
           y == [x EXCEPT !.attrs = f]
<1>1. \A m \in DOMAIN f : f[m] \in H
  BY DEF ValueFits, With
<1> HIDE DEF f
<1>2. ValueFits(y, H) /\ y.type = x.type
  BY <1>1 DEF ValueFits
<1> QED BY <1>2 DEF f
-----------------------------------------------------------------------------
(* The same, of the state.                                                   *)
LEMMA HeapStays ==
  ASSUME SoundHeap(Here), UNCHANGED Heap
  PROVE  Keeps(Here, Here')
<1>1. Here' = Here
  BY DEF Here, Heap
<1> QED BY <1>1, KeepsSelf

LEMMA NewDataKeeps ==
  ASSUME SoundHeap(Here), NEW v, ValueFits(v, Handles(Here)), NEW const \in BOOLEAN, NEW temp \in BOOLEAN,
         NewData(v, const, temp)
  PROVE  /\ Keeps(Here, Here') /\ Len(data) + 1 \in Handles(Here') /\ Len(objs) + 1 \in 1..Len(objs')
         /\ data'[Len(data) + 1].const = const /\ data'[Len(data) + 1].obj = Len(objs) + 1
         /\ objs'[Len(objs) + 1] = v /\ Len(data') = Len(data) + 1
         /\ Len(objs) + 1 \in ConstObjects(Here') => const
<1> DEFINE a == Here'
<1>1. a.data = data' /\ a.objs = objs' /\ Here.data = data /\ Here.objs = objs
  BY DEF Here
<1>2. a.data = Append(Here.data, NewBox(Len(Here.objs) + 1, const, temp)) /\ a.objs = Append(Here.objs, v)
  BY <1>1 DEF NewData, NewBox
<1> HIDE DEF a
<1>3. /\ Keeps(Here, a) /\ Len(data) + 1 \in Handles(a) /\ Len(objs) + 1 \in 1..Len(a.objs)
      /\ a.data[Len(data) + 1] = NewBox(Len(objs) + 1, const, temp)
      /\ a.objs[Len(objs) + 1] = v /\ Len(a.data) = Len(data) + 1
      /\ Len(objs) + 1 \in ConstObjects(a) => const
  BY <1>1, <1>2, NewValueKeeps
<1>4. \A o : NewBox(o, const, temp).const = const /\ NewBox(o, const, temp).obj = o
  BY DEF NewBox
<1> QED BY <1>1, <1>3, <1>4 DEF a

(* An error is a new const value.                                            *)
LEMMA ErrorKeeps ==
  ASSUME NEW h, SoundHeap(h), RaiseErrorIn(h)
  PROVE  /\ Keeps(h, Here') /\ Len(h.data) + 1 \in Handles(Here')
         /\ UNCHANGED <<frames, stacks>> /\ ctl' = [kind |-> "throw", d |-> Len(h.data) + 1]
<1> DEFINE a == Here'  v == Value("error", 0)
<1>1. a.data = data' /\ a.objs = objs'
  BY DEF Here
<1>2. a.data = Append(h.data, NewBox(Len(h.objs) + 1, TRUE, FALSE)) /\ a.objs = Append(h.objs, v)
  BY <1>1 DEF RaiseErrorIn, NewBox
<1>3. ValueFits(v, Handles(h))
  BY ValuesFit
<1> HIDE DEF a, v
<1>4. Keeps(h, a) /\ Len(h.data) + 1 \in Handles(a)
  BY <1>2, <1>3, NewValueKeeps
<1> QED BY <1>4 DEF a, RaiseErrorIn, Raise

(* A new undefined variable.                                                 *)
LEMMA UndefinedKeeps ==
  ASSUME SoundHeap(Here), data' = Append(data, [obj |-> 0, const |-> FALSE, temp |-> FALSE]), UNCHANGED objs
  PROVE  Keeps(Here, Here') /\ Len(data) + 1 \in Handles(Here')
<1> DEFINE a == Here'
<1>1. a.data = data' /\ a.objs = objs' /\ Here.data = data /\ Here.objs = objs
  BY DEF Here
<1>2. a.data = Append(Here.data, NewBox(0, FALSE, FALSE)) /\ a.objs = Here.objs
  BY <1>1 DEF NewBox
<1> HIDE DEF a
<1>3. Keeps(Here, a) /\ Len(Here.data) + 1 \in Handles(a)
  BY <1>2, NewUndefinedKeeps
<1> QED BY <1>1, <1>3 DEF a

(* A clone, or the temporary itself.                                         *)
LEMMA ClonedKeeps ==
  ASSUME SoundHeap(Here), CopyingSound, NEW d \in Handles(Here), CanClone(d)
  PROVE  Keeps(Here, Cloned(d)) /\ Cloned(d).d \in Handles(Cloned(d))
<1>1. Here.data = data /\ Here.objs = objs
  BY DEF Here
<1>2. CASE data[d].temp
  <2> DEFINE b == [data[d] EXCEPT !.temp = FALSE]
             c == [data |-> [data EXCEPT ![d].temp = FALSE], objs |-> objs, d |-> d]
  <2>1. Cloned(d) = c
    BY <1>2 DEF Cloned
  <2>2. data[d] \in DataOf(Here) /\ d \in 1..Len(data) /\ (data[d].obj \in ConstObjects(Here) => data[d].const)
        /\ IsSeq(data) /\ DOMAIN data = 1..Len(data)
    BY <1>1, HeapFacts, IsSeqFacts DEF Handles
  <2>3. b \in DataOf(Here) /\ b.obj = data[d].obj /\ b.const = data[d].const
    BY <2>2 DEF DataOf
  <2>4. c.data = [data EXCEPT ![d] = b] /\ c.objs = objs /\ c.d = d
    BY <2>2
  <2> HIDE DEF b, c
  <2>5. b.const => b.obj = 0 \/ b.obj \in ConstObjects(Here) \/ objs[b.obj].type \in Shared
    <3> SUFFICES ASSUME b.const, b.obj # 0, objs[b.obj].type \notin Shared PROVE b.obj \in ConstObjects(Here)
      OBVIOUS
    <3>1. b.obj \in 1..Len(objs)
      <4>1. b.obj \in 0..Len(objs) /\ Len(objs) \in Nat
        BY <1>1, <2>3, HeapFacts
      <4>2. \A x \in 0..Len(objs) : x # 0 => x \in 1..Len(objs)
        BY <4>1
      <4> QED BY <4>1, <4>2
    <3> QED BY <1>1, <2>3, <3>1 DEF ConstObjects
  <2>6. Keeps(Here, c) /\ Handles(c) = Handles(Here)
    <3>1. Keeps(Here, Here) /\ b \in DataOf(Here)
      BY <2>3, KeepsSelf
    <3>2. c.data = [Here.data EXCEPT ![d] = b] /\ c.objs = Here.objs
      BY <1>1, <2>4
    <3>3. /\ b.obj \in ConstObjects(Here) => b.const
          /\ b.const => b.obj = 0 \/ b.obj \in ConstObjects(Here) \/ Here.objs[b.obj].type \in Shared
          /\ d \in Handles(Here) /\ Here.data[d].const => b.const /\ b.obj = Here.data[d].obj
      BY <1>1, <2>2, <2>3, <2>5
    <3> QED BY <3>1, <3>2, <3>3, RebindKeeps
  <2> QED BY <2>1, <2>4, <2>6
<1>3. CASE ~data[d].temp
  <2>1. Cloned(d) = Copy(Here, d) /\ CanCopy(Here, d) /\ ~Here.data[d].temp
    BY <1>1, <1>3 DEF Cloned, CanClone
  <2> QED BY <2>1 DEF CopyingSound, CopyingKeeps
<1> QED BY <1>2, <1>3

(* An attribute, which is made if it is not there.                           *)
LEMMA GetAttrKeeps ==
  ASSUME SoundHeap(Here), NEW o \in Handles(Here), Val(o).type = "object", NEW name
  PROVE  Keeps(Here, GetAttr(o, name)) /\ GetAttr(o, name).d \in Handles(GetAttr(o, name))
<1> DEFINE k == data[o].obj  g == GetAttr(o, name)  x == objs[k]
<1>1. Here.data = data /\ Here.objs = objs /\ Val(o) = ValIn(Here, o)
  BY DEF Here, Val
<1>2. k \in 1..Len(objs) /\ Val(o) = x /\ ValueFits(x, Handles(Here)) /\ x.type = "object"
  BY <1>1, ValFits
<1>3. CASE name \in DOMAIN Val(o).attrs
  <2>1. g = [data |-> data, objs |-> objs, d |-> Val(o).attrs[name]]
    BY <1>3 DEF GetAttr
  <2>2. g.data = Here.data /\ g.objs = Here.objs /\ g.d = x.attrs[name] /\ Handles(g) = Handles(Here)
    BY <1>1, <1>2, <2>1 DEF Handles
  <2>3. x.attrs[name] \in Handles(Here)
    BY <1>2, <1>3 DEF ValueFits
  <2> HIDE DEF g
  <2> QED BY <2>2, <2>3, KeepsSelf, KeepsSame DEF g
<1>4. CASE name \notin DOMAIN Val(o).attrs
  <2> DEFINE d == Len(data) + 1
             h == [data |-> Append(data, NewBox(0, FALSE, FALSE)), objs |-> objs]
             y == [x EXCEPT !.attrs = With(x.attrs, name, d)]
  <2>1. g = [data |-> Append(data, NewBox(0, FALSE, FALSE)),
             objs |-> [objs EXCEPT ![k].attrs = With(@, name, d)], d |-> d]
    BY <1>4 DEF GetAttr, NewBox
  <2>2. h.data = Append(Here.data, NewBox(0, FALSE, FALSE)) /\ h.objs = Here.objs /\ g.data = h.data /\ g.d = d
    <3>1. h.data = Append(data, NewBox(0, FALSE, FALSE)) /\ h.objs = objs
      OBVIOUS
    <3>2. g.data = Append(data, NewBox(0, FALSE, FALSE)) /\ g.d = d
      <4> DEFINE os == [objs EXCEPT ![k].attrs = With(@, name, d)]
      <4>1. g = [data |-> Append(data, NewBox(0, FALSE, FALSE)), objs |-> os, d |-> d]
        BY <2>1
      <4> HIDE DEF os, g
      <4> QED BY <4>1
    <3> QED BY <1>1, <3>1, <3>2
  <2>3. g.objs = [h.objs EXCEPT ![k] = y]
    <3>1. DOMAIN objs = 1..Len(objs)
      BY <1>1, HeapFacts, IsSeqFacts
    <3> QED BY <1>1, <1>2, <2>1, <3>1
  <2> HIDE DEF h, g
  <2>4. Keeps(Here, h) /\ d \in Handles(h)
    BY <1>1, <2>2, NewUndefinedKeeps
  <2> HIDE DEF k
  <2>5. k \in 1..Len(h.objs) /\ h.objs[k] = x /\ SoundHeap(h) /\ ValueFits(x, Handles(h))
    BY <1>1, <1>2, <2>2, <2>4, KeepsFacts, FitsMore
  <2> HIDE DEF x, d
  <2>6. ValueFits(y, Handles(h)) /\ y.type = "object"
    <3>1. ValueFits(x, Handles(h)) /\ x.type = "object" /\ d \in Handles(h)
      BY <1>2, <2>4, <2>5
    <3> QED BY <3>1, SetAttrFits
  <2> HIDE DEF y
  <2>7. k \notin ConstObjects(h) /\ y.type \in Shared
    BY <1>2, <2>5, <2>6 DEF ConstObjects, Shared
  <2>8. Keeps(h, g) /\ Handles(g) = Handles(h)
    <3>1. /\ SoundHeap(h) /\ k \in 1..Len(h.objs) /\ k \notin ConstObjects(h) /\ ValueFits(y, Handles(h))
          /\ h.objs[k].type \in Shared => y.type \in Shared
      BY <2>5, <2>6, <2>7
    <3>2. g.data = h.data /\ g.objs = [h.objs EXCEPT ![k] = y]
      BY <2>2, <2>3
    <3> QED BY <3>1, <3>2, WriteKeeps
  <2> QED BY <2>2, <2>4, <2>8, KeepsTransitive DEF g
<1> QED BY <1>3, <1>4

(* What a Data that is not const holds may be written,                       *)
LEMMA Writable ==
  ASSUME SoundHeap(Here), NEW d \in Handles(Here), ~data[d].const, Val(d).type # "undef"
  PROVE  data[d].obj \in 1..Len(objs) /\ data[d].obj \notin ConstObjects(Here) /\ Val(d) = objs[data[d].obj]
<1>1. Here.data = data /\ Here.objs = objs /\ Val(d) = ValIn(Here, d)
  BY DEF Here, Val
<1> QED BY <1>1, ValFits, HeapFacts

(* and it keeps the heap sound,                                              *)
LEMMA ObjectKeeps ==
  ASSUME SoundHeap(Here), NEW o \in 1..Len(objs), o \notin ConstObjects(Here),
         NEW v, ValueFits(v, Handles(Here)), objs[o].type \in Shared => v.type \in Shared,
         objs' = [objs EXCEPT ![o] = v], UNCHANGED data
  PROVE  Keeps(Here, Here') /\ Handles(Here') = Handles(Here)
<1> DEFINE a == Here'
<1>1. a.data = data' /\ a.objs = objs' /\ Here.data = data /\ Here.objs = objs
  BY DEF Here
<1>2. a.data = Here.data /\ a.objs = [Here.objs EXCEPT ![o] = v] /\ o \in 1..Len(Here.objs)
  BY <1>1
<1>3. Here.objs[o].type \in Shared => v.type \in Shared
  BY <1>1
<1> HIDE DEF a
<1>4. Keeps(Here, a) /\ Handles(a) = Handles(Here)
  BY <1>2, <1>3, WriteKeeps
<1> QED BY <1>4 DEF a

(* as it does to write in place in an object of any kind.                    *)
LEMMA FieldKeeps ==
  ASSUME SoundHeap(Here), NEW o \in 0..Len(objs), o \notin ConstObjects(Here), NEW k,
         \/ objs' = [objs EXCEPT ![o].v = k]
         \/ objs' = [objs EXCEPT ![o].explicit = k]
         \/ objs' = objs,
         UNCHANGED data
  PROVE  Keeps(Here, Here')
<1>1. Here.data = data /\ Here.objs = objs
  BY DEF Here
<1>2. IsSeq(objs) /\ Len(objs) \in Nat /\ DOMAIN objs = 1..Len(objs)
  BY <1>1, HeapFacts, IsSeqFacts
<1>3. CASE objs' = objs
  BY <1>3, HeapStays DEF Heap
<1>4. CASE o = 0 /\ objs' # objs
  <2>1. 0 \notin DOMAIN objs
    BY <1>2
  <2>2. [objs EXCEPT ![o].v = k] = objs /\ [objs EXCEPT ![o].explicit = k] = objs
    <3>1. \A e : [objs EXCEPT ![0] = e] = objs
      <4> SUFFICES ASSUME NEW e PROVE [objs EXCEPT ![0] = e] = objs
        OBVIOUS
      <4>1. objs = [i \in 1..Len(objs) |-> objs[i]]
        BY <1>2 DEF IsSeq
      <4> QED BY <2>1, <4>1
    <3> QED BY <1>4, <3>1
  <2> QED BY <1>4, <2>2
<1>5. CASE o # 0 /\ objs' # objs
  <2> DEFINE x == objs[o]  y == [x EXCEPT !.v = k]  z == [x EXCEPT !.explicit = k]
  <2>1. o \in 1..Len(objs)
    <3>1. \A i \in 0..Len(objs) : i # 0 => i \in 1..Len(objs)
      BY <1>2
    <3> QED BY <1>5, <3>1
  <2>2. objs' = [objs EXCEPT ![o] = y] \/ objs' = [objs EXCEPT ![o] = z]
    BY <1>2, <1>5, <2>1
  <2>3. ValueFits(x, Handles(Here))
    BY <1>1, <2>1, HeapFacts
  <2>4. ValueFits(y, Handles(Here)) /\ y.type = x.type /\ ValueFits(z, Handles(Here)) /\ z.type = x.type
    BY <2>3, ValuesFit
  <2>5. objs[o].type = y.type /\ objs[o].type = z.type
    BY <2>4
  <2> HIDE DEF x, y, z
  <2> QED BY <2>1, <2>2, <2>4, <2>5, ObjectKeeps
<1> QED BY <1>3, <1>4, <1>5
-----------------------------------------------------------------------------
(* The names of the stacks are bound to handles.                             *)
ScopeFits(scope, H) == \A k \in 1..Len(scope) : scope[k].data \in H
StackFits(t, H) == \A j \in 1..Len(t) : ScopeFits(t[j], H)
StacksFit(s, H) == \A i \in 1..Len(s) : StackFits(s[i], H)

(* They are handles of a larger heap too.                                    *)
LEMMA StacksFitMore ==
  ASSUME NEW s, NEW H, StacksFit(s, H), NEW K, H \subseteq K
  PROVE  StacksFit(s, K)
BY DEF StacksFit, StackFits, ScopeFits

(* The stacks beneath a call's.                                              *)
LEMMA FrontFits ==
  ASSUME NEW s, NEW H, StacksFit(s, H), IsSeq(s), s # <<>>
  PROVE  StacksFit(Front(s), H)
<1>1. Len(Front(s)) = Len(s) - 1 /\ Len(s) \in Nat /\ \A i \in 1..Len(Front(s)) : Front(s)[i] = s[i]
  BY IsSeqFront, IsSeqFacts
<1>2. \A i \in 1..Len(Front(s)) : i \in 1..Len(s)
  BY <1>1
<1> QED BY <1>1, <1>2 DEF StacksFit

(* The innermost stack, and another in its place.                            *)
LEMMA TopFits ==
  ASSUME NEW s, StacksOK(s), NEW H, StacksFit(s, H)
  PROVE  /\ StackFits(Last(s), H) /\ StackOK(Last(s)) /\ ScopeFits(Last(Last(s)), H) /\ IsSeq(Last(Last(s)))
         /\ \A t : StackFits(t, H) => StacksFit([s EXCEPT ![Len(s)] = t], H)
<1>1. IsSeq(s) /\ s # <<>> /\ Len(s) \in Nat /\ Len(s) >= 1 /\ StackOK(Last(s))
  BY StacksFacts
<1>2. Len(s) \in 1..Len(s) /\ Last(s) = s[Len(s)]
  BY <1>1 DEF Last
<1>3. StackFits(Last(s), H)
  BY <1>2 DEF StacksFit
<1>4. IsSeq(Last(Last(s))) /\ ScopeFits(Last(Last(s)), H)
  <2>1. Len(Last(s)) \in Nat /\ Len(Last(s)) >= 1 /\ IsSeq(Last(Last(s)))
    BY <1>1, StackFacts
  <2>2. Len(Last(s)) \in 1..Len(Last(s))
    BY <2>1
  <2> QED BY <1>3, <2>1, <2>2 DEF StackFits, Last
<1>5. ASSUME NEW t, StackFits(t, H) PROVE StacksFit([s EXCEPT ![Len(s)] = t], H)
  <2> DEFINE r == [s EXCEPT ![Len(s)] = t]
  <2>1. IsSeq(r) /\ Len(r) = Len(s) /\ r[Len(s)] = t /\ \A i \in 1..(Len(s) - 1) : r[i] = s[i]
    BY <1>1, IsSeqReplaceTop
  <2>2. \A i \in 1..Len(s) : i = Len(s) \/ i \in 1..(Len(s) - 1)
    BY <1>1
  <2> HIDE DEF r
  <2>3. \A i \in 1..Len(r) : StackFits(r[i], H)
    BY <1>5, <2>1, <2>2 DEF StacksFit
  <2> QED BY <2>3 DEF StacksFit, r
<1> QED BY <1>1, <1>3, <1>4, <1>5

(* A stack pushed,                                                           *)
LEMMA PushStackFits ==
  ASSUME NEW s, IsSeq(s), NEW H, StacksFit(s, H), NEW scope, ScopeFits(scope, H)
  PROVE  StacksFit(Append(s, <<scope>>), H)
<1> DEFINE t == <<scope>>  r == Append(s, t)
<1>1. Len(t) = 1 /\ t[1] = scope
  BY IsSeqTuples
<1>2. StackFits(t, H)
  BY <1>1 DEF StackFits
<1> HIDE DEF t
<1>3. Len(r) = Len(s) + 1 /\ r[Len(s) + 1] = t /\ Len(s) \in Nat /\ \A i \in 1..Len(s) : r[i] = s[i]
  BY IsSeqAppend, IsSeqFacts
<1> HIDE DEF r
<1>4. \A i \in 1..Len(r) : i \in 1..Len(s) \/ i = Len(s) + 1
  BY <1>3
<1> QED BY <1>2, <1>3, <1>4 DEF StacksFit, r, t

(* a scope pushed,                                                           *)
LEMMA PushScopeFits ==
  ASSUME NEW t, IsSeq(t), NEW H, StackFits(t, H), NEW scope, ScopeFits(scope, H)
  PROVE  StackFits(Append(t, scope), H)
<1> DEFINE r == Append(t, scope)
<1>1. Len(r) = Len(t) + 1 /\ r[Len(t) + 1] = scope /\ Len(t) \in Nat /\ \A i \in 1..Len(t) : r[i] = t[i]
  BY IsSeqAppend, IsSeqFacts
<1> HIDE DEF r
<1>2. \A i \in 1..Len(r) : i \in 1..Len(t) \/ i = Len(t) + 1
  BY <1>1
<1> QED BY <1>1, <1>2 DEF StackFits, r

(* scopes popped,                                                            *)
LEMMA PopScopesFit ==
  ASSUME NEW t, IsSeq(t), NEW H, StackFits(t, H), NEW n \in Nat, n <= Len(t)
  PROVE  StackFits(SubSeq(t, 1, Len(t) - n), H) /\ IsSeq(SubSeq(t, 1, Len(t) - n))
<1>1. Len(t) \in Nat
  BY IsSeqFacts
<1>2. Len(t) - n \in 0..Len(t) /\ \A i \in 1..(Len(t) - n) : i \in 1..Len(t)
  BY <1>1
<1> DEFINE m == Len(t) - n
<1> HIDE DEF m
<1>3. /\ IsSeq(SubSeq(t, 1, m)) /\ Len(SubSeq(t, 1, m)) = m
      /\ \A i \in 1..m : SubSeq(t, 1, m)[i] = t[i]
  BY <1>2, IsSeqPrefix DEF m
<1> QED BY <1>2, <1>3 DEF StackFits, m

(* and a name bound.                                                         *)
LEMMA BindFits ==
  ASSUME NEW H, StacksOK(stacks), StacksFit(stacks, H), NEW name, NEW d \in H
  PROVE  StacksFit(Bind(name, d), H)
<1> DEFINE a == Last(stacks)  l == Last(a)  b == Binding(name, d)  m == Append(l, b)  t == [a EXCEPT ![Len(a)] = m]
<1>1. StackFits(a, H) /\ StackOK(a) /\ ScopeFits(l, H) /\ IsSeq(l)
  BY TopFits
<1>2. IsSeq(a) /\ a # <<>> /\ Len(a) \in Nat
  BY <1>1, StackFacts
<1>3. b.data = d
  BY DEF Binding
<1> HIDE DEF a, b
<1>4. ScopeFits(m, H)
  <2>1. Len(m) = Len(l) + 1 /\ m[Len(l) + 1] = b /\ Len(l) \in Nat /\ \A i \in 1..Len(l) : m[i] = l[i]
    BY <1>1, IsSeqAppend, IsSeqFacts
  <2> HIDE DEF l, m
  <2>2. \A i \in 1..Len(m) : i \in 1..Len(l) \/ i = Len(l) + 1
    BY <2>1
  <2> QED BY <1>1, <1>3, <2>1, <2>2 DEF ScopeFits
<1> HIDE DEF l, m
<1>5. StackFits(t, H)
  <2>1. Len(t) = Len(a) /\ t[Len(a)] = m /\ \A i \in 1..(Len(a) - 1) : t[i] = a[i]
    BY <1>2, IsSeqReplaceTop
  <2> HIDE DEF t
  <2>2. \A i \in 1..Len(a) : i \in 1..(Len(a) - 1) \/ i = Len(a)
    BY <1>2
  <2> QED BY <1>1, <1>4, <2>1, <2>2 DEF StackFits
<1>6. Bind(name, d) = [stacks EXCEPT ![Len(stacks)] = t]
  BY DEF Bind, SetCurrent, Current, t, m, l, b, a, Last
<1> HIDE DEF t
<1> QED BY <1>5, <1>6, TopFits

(* The scopes the actions push and pop.                                      *)
LEMMA ScopedFits ==
  ASSUME NEW H, StacksOK(stacks), StacksFit(stacks, H), NEW scope, ScopeFits(scope, H)
  PROVE  StacksFit(Scoped(scope), H) /\ Len(Scoped(scope)) = Len(stacks) /\ Last(Scoped(scope)) = Append(Last(stacks), scope)
<1> DEFINE t == Append(Last(stacks), scope)
<1>1. StackFits(Last(stacks), H) /\ StackOK(Last(stacks)) /\ IsSeq(Last(stacks))
  BY TopFits, StackFacts
<1>2. StackFits(t, H)
  BY <1>1, PushScopeFits
<1>3. IsSeq(stacks) /\ stacks # <<>>
  BY StacksFacts
<1>4. Scoped(scope) = [stacks EXCEPT ![Len(stacks)] = t]
  BY DEF Scoped, SetCurrent, Current
<1> HIDE DEF t
<1>5. StacksFit([stacks EXCEPT ![Len(stacks)] = t], H)
  BY <1>2, TopFits
<1>6. Len([stacks EXCEPT ![Len(stacks)] = t]) = Len(stacks) /\ Last([stacks EXCEPT ![Len(stacks)] = t]) = t
  BY <1>3, IsSeqReplaceTop
<1> QED BY <1>4, <1>5, <1>6 DEF t

LEMMA UnscopedFits ==
  ASSUME NEW H, StacksOK(stacks), StacksFit(stacks, H), NEW n \in Nat, n <= Len(Last(stacks))
  PROVE  /\ StackFits(Unscoped(n), H) /\ IsSeq(Unscoped(n)) /\ StacksFit(SetCurrent(Unscoped(n)), H)
         /\ \A scope : ScopeFits(scope, H) => StacksFit(SetCurrent(Append(Unscoped(n), scope)), H)
<1>1. StackFits(Last(stacks), H) /\ StackOK(Last(stacks)) /\ IsSeq(Last(stacks))
  BY TopFits, StackFacts
<1>2. StackFits(Unscoped(n), H) /\ IsSeq(Unscoped(n))
  BY <1>1, PopScopesFit DEF Unscoped, Current
<1>3. \A t : StackFits(t, H) => StacksFit(SetCurrent(t), H)
  BY TopFits DEF SetCurrent
<1> QED BY <1>2, <1>3, PushScopeFits

(* What a node leaves behind.                                                *)
LEMMA LeftFits ==
  ASSUME StackInv, frames # <<>>, NEW H, StacksFit(stacks, H)
  PROVE  StacksFit(Left, H)
<1> DEFINE s == Beneath(Top, stacks)  a == Last(s)  n == Top.scopes
<1>1. StacksOK(stacks) /\ StacksOK(s) /\ n \in Nat /\ n < Len(a)
  BY TopFacts, OwnsFacts
<1>2. StacksFit(s, H)
  BY <1>1, FrontFits, StacksFacts DEF Beneath
<1>3. Left = [s EXCEPT ![Len(s)] = SubSeq(a, 1, Len(a) - n)]
  BY DEF Left, Beneath, Last
<1> HIDE DEF s, n
<1>4. StackFits(a, H) /\ IsSeq(a) /\ Len(a) \in Nat
  BY <1>1, <1>2, TopFits, StackFacts
<1> HIDE DEF a
<1>5. StackFits(SubSeq(a, 1, Len(a) - n), H)
  BY <1>1, <1>4, PopScopesFit
<1> QED BY <1>1, <1>2, <1>3, <1>5, TopFits

(* What a name resolves to.                                                  *)
LEMMA ResolveFits ==
  ASSUME NEW H, StacksOK(stacks), StacksFit(stacks, H), NEW name, Resolves(name)
  PROVE  Resolve(name) \in H
<1>1. StackFits(Current, H) /\ StackOK(Current) /\ IsSeq(Current) /\ Len(Current) \in Nat /\ DOMAIN Current = 1..Len(Current)
  BY TopFits, StackFacts, IsSeqFacts DEF Current
<1> DEFINE S == {s \in 1..Len(Current) : Bound(Current[s], name)}
           Is(s) == Bound(Current[s], name) /\ \A r \in s+1..Len(Current) : ~Bound(Current[r], name)
           s0 == CHOOSE s \in DOMAIN Current : Is(s)
<1>2. S # {} /\ S \subseteq 0..Len(Current)
  BY <1>1 DEF Resolves
<1>3. PICK m \in S : \A k \in S : k <= m
  BY <1>1, <1>2, GreatestOf
<1>4. m \in DOMAIN Current /\ Is(m)
  <2>1. m \in 1..Len(Current) /\ Bound(Current[m], name)
    BY <1>3
  <2>2. ASSUME NEW r \in m+1..Len(Current), Bound(Current[r], name) PROVE FALSE
    <3>1. r \in 1..Len(Current) /\ ~(r <= m)
      BY <1>1, <2>1
    <3>2. r \in S
      BY <2>2, <3>1
    <3> QED BY <1>3, <3>1, <3>2
  <2> QED BY <1>1, <2>1, <2>2
<1> HIDE DEF Is
<1>5. s0 \in DOMAIN Current /\ Is(s0)
  BY <1>4
<1> DEFINE scope == Current[s0]  i0 == CHOOSE i \in DOMAIN scope : scope[i].name = name
<1>6. Resolve(name) = scope[i0].data
  BY DEF Resolve, Is
<1> HIDE DEF s0
<1>7. Bound(scope, name) /\ ScopeFits(scope, H) /\ IsSeq(scope)
  BY <1>1, <1>5 DEF Is, StackFits, StackOK
<1> HIDE DEF scope
<1>8. i0 \in DOMAIN scope
  BY <1>7 DEF Bound
<1> HIDE DEF i0
<1> QED BY <1>6, <1>7, <1>8, IsSeqFacts DEF ScopeFits
-----------------------------------------------------------------------------
(* What a frame refers to is there: nodes of the program, handles of the     *)
(* heap; a compiled loop's variable may be written.                          *)
FrameFits(f, heap, nodes) ==
  /\ f.node \in nodes
  /\ f.vals \in Seq(Handles(heap))
  /\ f.pending.d \in Handles(heap)
  /\ f.node.kind \in Callers => f.at \in 0..Len(heap.data)
  /\ f.node.kind = "Compiled" => f.at \in 0..Len(heap.objs) /\ f.at \notin ConstObjects(heap)
  /\ f.node.kind \in {"Ranged_For", "Switch", "Inline_Array"} => f.at \in Nat
  /\ f.node.kind = "Switch" /\ f.phase \in {"guard", "matched guard"} => f.at \in 1..Len(f.node.children)
  /\ f.node.kind = "Ranged_For" /\ f.phase = "body" => f.vals # <<>>
FramesFit(nodes) == \A i \in 1..Len(frames) : FrameFits(frames[i], Here, nodes)

(* A node that has run a child has its value.                                *)
Answering == Callers \cup {"Try", "Ranged_For"}
Answered == Running(Answering) /\ Top.phase # "start" => Top.vals # <<>>

Fit(nodes) ==
  FramesFit(nodes) /\ StacksFit(stacks, Handles(Here)) /\ ctl.d \in Handles(Here) /\ Answered

(* A frame fits whatever its heap becomes,                                   *)
LEMMA FrameFitsKept ==
  ASSUME NEW f, NEW h, NEW a, NEW N, SoundHeap(h), Keeps(h, a), FrameFits(f, h, N)
  PROVE  FrameFits(f, a, N)
<1>1. /\ Handles(h) \subseteq Handles(a) /\ 0..Len(h.data) \subseteq 0..Len(a.data)
      /\ 0..Len(h.objs) \subseteq 0..Len(a.objs)
      /\ \A i \in 0..Len(h.objs) : i \in ConstObjects(a) => i \in ConstObjects(h)
  BY KeepsFacts
<1>2. f.vals \in Seq(Handles(a))
  BY <1>1, SeqMonotonic DEF FrameFits
<1> QED BY <1>1, <1>2 DEF FrameFits

(* and so does a new one.                                                    *)
LEMMA NewFrameFits ==
  ASSUME NEW h, SoundHeap(h), NEW N, NEW n \in N, NEW s
  PROVE  FrameFits(Frame(n, s), h, N) /\ Frame(n, s).phase = "start" /\ Frame(n, s).node = n
<1> DEFINE f == Frame(n, s)
<1>1. f.node = n /\ f.vals = <<>> /\ f.phase = "start" /\ f.at = 0 /\ f.pending = Run
  BY DEF Frame
<1>2. Run.d = 1 /\ 1 \in Handles(h) /\ Len(h.data) \in Nat /\ Len(h.objs) \in Nat
  BY HeapFacts DEF Run, VoidVar
<1>3. 0 \in 0..Len(h.data) /\ 0 \in 0..Len(h.objs) /\ 0 \notin ConstObjects(h) /\ <<>> \in Seq(Handles(h))
  BY <1>2 DEF ConstObjects
<1> HIDE DEF f
<1> QED BY <1>1, <1>2, <1>3 DEF FrameFits, f

(* The frames but for the innermost.                                         *)
LEMMA OuterFit ==
  ASSUME StackInv, SoundHeap(Here), NEW N, Fit(N), Keeps(Here, Here')
  PROVE  /\ \A i \in 1..Len(frames) : FrameFits(frames[i], Here', N)
         /\ StacksFit(stacks, Handles(Here')) /\ ctl.d \in Handles(Here') /\ SoundHeap(Here')
         /\ Handles(Here) \subseteq Handles(Here') /\ VoidVar \in Handles(Here') /\ VoidVar \in Handles(Here)
<1>1. SoundHeap(Here') /\ Handles(Here) \subseteq Handles(Here')
  BY KeepsFacts
<1>2. \A i \in 1..Len(frames) : FrameFits(frames[i], Here', N)
  BY FrameFitsKept DEF Fit, FramesFit
<1>3. StacksFit(stacks, Handles(Here'))
  BY <1>1, StacksFitMore DEF Fit
<1>4. VoidVar \in Handles(Here)
  BY HeapFacts DEF VoidVar
<1> QED BY <1>1, <1>2, <1>3, <1>4 DEF Fit

(* The innermost node fits.                                                  *)
LEMMA TopFrameFits ==
  ASSUME StackInv, frames # <<>>, NEW N, FramesFit(N)
  PROVE  FrameFits(Top, Here, N) /\ IsFrame(Top)
<1>1. Len(frames) \in Nat /\ Len(frames) >= 1 /\ Top = frames[Len(frames)] /\ FrameOK(Top)
  BY TopFacts
<1>2. Len(frames) \in 1..Len(frames)
  BY <1>1
<1> QED BY <1>1, <1>2 DEF FramesFit, FrameOK

(* A child is entered.                                                       *)
LEMMA EnterFits ==
  ASSUME StackInv, frames # <<>>, SoundHeap(Here), NEW N, Fit(N), Keeps(Here, Here'),
         NEW f, FrameFits(f, Here', N), NEW n \in N, NEW s, StacksFit(s, Handles(Here')), Enter(f, n, s)
  PROVE  Fit(N)'
<1> DEFINE c == Frame(n, s)  r == [frames EXCEPT ![Len(frames)] = f]
<1>1. IsSeq(frames) /\ Len(frames) \in Nat /\ Len(frames) >= 1
  BY TopFacts
<1>2. IsSeq(r) /\ Len(r) = Len(frames) /\ r[Len(frames)] = f /\ \A i \in 1..(Len(frames) - 1) : r[i] = frames[i]
  BY <1>1, IsSeqReplaceTop
<1>3. frames' = Append(r, c) /\ stacks' = s /\ ctl' = Run
  BY DEF Enter
<1>4. /\ \A i \in 1..Len(frames) : FrameFits(frames[i], Here', N)
      /\ SoundHeap(Here') /\ VoidVar \in Handles(Here')
  BY OuterFit
<1>5. FrameFits(c, Here', N) /\ c.phase = "start"
  BY <1>4, NewFrameFits
<1> HIDE DEF c, r
<1>6. /\ IsSeq(frames') /\ Len(frames') = Len(frames) + 1 /\ frames'[Len(frames) + 1] = c /\ Last(frames') = c
      /\ \A i \in 1..Len(frames) : frames'[i] = r[i]
  BY <1>2, <1>3, IsSeqAppend
<1>7. \A i \in 1..(Len(frames) + 1) : i \in 1..(Len(frames) - 1) \/ i = Len(frames) \/ i = Len(frames) + 1
  BY <1>1
<1>8. /\ \A i \in 1..(Len(frames) - 1) : i \in 1..Len(frames) /\ frames'[i] = frames[i]
      /\ frames'[Len(frames)] = f
  BY <1>1, <1>2, <1>6
<1>9. FramesFit(N)'
  BY <1>4, <1>5, <1>6, <1>7, <1>8 DEF FramesFit
<1>10. Answered'
  BY <1>5, <1>6 DEF Answered, Top
<1>11. StacksFit(stacks, Handles(Here))' /\ (ctl.d \in Handles(Here))'
  BY <1>3, <1>4 DEF Run
<1> QED BY <1>9, <1>10, <1>11 DEF Fit

(* A node ends with a value.                                                 *)
LEMMA ReturnFits ==
  ASSUME StackInv, frames # <<>>, SoundHeap(Here), NEW N, Fit(N), Keeps(Here, Here'),
         NEW d \in Handles(Here'), NEW s, StacksFit(s, Handles(Here')), Return(d, s)
  PROVE  Fit(N)'
<1> DEFINE o == Front(frames)
<1>1. IsSeq(frames) /\ Len(frames) \in Nat /\ Len(frames) >= 1
  BY TopFacts
<1>2. IsSeq(o) /\ Len(o) = Len(frames) - 1 /\ \A i \in 1..Len(o) : o[i] = frames[i]
  BY <1>1, IsSeqFront
<1>3. /\ \A i \in 1..Len(frames) : FrameFits(frames[i], Here', N)
      /\ SoundHeap(Here') /\ VoidVar \in Handles(Here')
  BY OuterFit
<1>4. \A i \in 1..Len(o) : i \in 1..Len(frames) /\ FrameFits(o[i], Here', N)
  BY <1>1, <1>2, <1>3
<1>5. StacksFit(stacks, Handles(Here))'
  BY DEF Return
<1>6. CASE o = <<>>
  <2>1. frames' = <<>> /\ ctl'.d = d
    BY <1>6 DEF Return
  <2>2. FramesFit(N)' /\ Answered'
    BY <2>1, IsSeqTuples DEF FramesFit, Answered, Running
  <2> QED BY <1>5, <2>1, <2>2 DEF Fit
<1>7. CASE o # <<>>
  <2> DEFINE e == o[Len(o)]  v == Append(e.vals, d)  g == [e EXCEPT !.vals = v]
  <2>1. Len(o) \in Nat /\ Len(o) \in 1..Len(o)
    BY <1>2, <1>7, IsSeqFacts
  <2>2. FrameFits(e, Here', N)
    BY <1>4, <2>1
  <2>3. IsFrame(e)
    <3>1. Len(o) \in 1..Len(frames) /\ e = frames[Len(o)]
      BY <1>2, <1>4, <2>1
    <3> QED BY <3>1 DEF StackInv, FramesOK, FrameOK
  <2>4. frames' = [o EXCEPT ![Len(o)] = g] /\ ctl' = Run
    BY <1>7 DEF Return
  <2> HIDE DEF e
  <2>5. v \in Seq(Handles(Here')) /\ v # <<>>
    <3> DEFINE H == Handles(Here')  vals == e.vals
    <3>1. vals \in Seq(H) /\ d \in H
      BY <2>2 DEF FrameFits
    <3> HIDE DEF H, vals
    <3>2. Append(vals, d) \in Seq(H) /\ Append(vals, d) # <<>>
      BY <3>1, PushFacts, SeqIsSeq, IsSeqAppend
    <3> QED BY <3>2 DEF H, vals
  <2> HIDE DEF v
  <2>6. /\ g.node = e.node /\ g.vals = v /\ g.phase = e.phase /\ g.at = e.at /\ g.pending = e.pending
    BY <2>3 DEF IsFrame, Fields
  <2> HIDE DEF g
  <2>7. FrameFits(g, Here', N)
    BY <2>2, <2>5, <2>6 DEF FrameFits
  <2>8. /\ Len(frames') = Len(o) /\ Last(frames') = g /\ frames'[Len(o)] = g
        /\ \A i \in 1..(Len(o) - 1) : frames'[i] = o[i]
    <3> DEFINE r == [o EXCEPT ![Len(o)] = g]
    <3>1. /\ Len(r) = Len(o) /\ Last(r) = g /\ r[Len(o)] = g /\ \A i \in 1..(Len(o) - 1) : r[i] = o[i]
      <4>1. IsSeq(o) /\ o # <<>>
        BY <1>2, <1>7
      <4> HIDE DEF o
      <4> QED BY <4>1, IsSeqReplaceTop
    <3>2. frames' = r
      BY <2>4
    <3> HIDE DEF r
    <3> QED BY <3>1, <3>2
  <2> HIDE DEF o
  <2>9. \A i \in 1..Len(o) : i \in 1..(Len(o) - 1) \/ i = Len(o)
    BY <2>1
  <2>10. FramesFit(N)'
    BY <1>4, <2>7, <2>8, <2>9 DEF FramesFit
  <2>11. Answered'
    BY <2>5, <2>6, <2>8 DEF Answered, Top
  <2>12. ctl'.d \in Handles(Here')
    BY <1>3, <2>4 DEF Run
  <2> QED BY <1>5, <2>10, <2>11, <2>12 DEF Fit
<1> QED BY <1>6, <1>7

(* It pops what it owns.                                                     *)
LEMMA EndFits ==
  ASSUME StackInv, frames # <<>>, SoundHeap(Here), NEW N, Fit(N), Keeps(Here, Here'),
         NEW d \in Handles(Here'), End(d)
  PROVE  Fit(N)'
<1>1. StacksFit(stacks, Handles(Here'))
  BY OuterFit
<1>2. StacksFit(Left, Handles(Here'))
  BY <1>1, LeftFits
<1> QED BY <1>2, ReturnFits DEF End

(* The same nodes, one of which may be left.                                 *)
LEMMA SameFits ==
  ASSUME StackInv, frames # <<>>, SoundHeap(Here), NEW N, Fit(N), Keeps(Here, Here'),
         UNCHANGED <<frames, stacks>>, ctl'.d \in Handles(Here'),
         ctl'.kind = "run" /\ Top.node.kind \in Answering /\ Top.phase # "start" => Top.vals # <<>>
  PROVE  Fit(N)'
<1>1. \A i \in 1..Len(frames) : FrameFits(frames[i], Here', N)
  BY OuterFit
<1>2. StacksFit(stacks, Handles(Here'))
  BY OuterFit
<1>3. FramesFit(N)'
  BY <1>1 DEF FramesFit
<1>4. Answered'
  BY DEF Answered, Running, Top
<1> QED BY <1>2, <1>3, <1>4 DEF Fit

(* A node is left from now on.                                               *)
LEMMA RaiseFits ==
  ASSUME StackInv, frames # <<>>, SoundHeap(Here), NEW N, Fit(N), Keeps(Here, Here'),
         NEW kind, kind # "run", NEW d \in Handles(Here'), Raise(kind, d)
  PROVE  Fit(N)'
<1>1. ctl'.kind = kind /\ ctl'.d = d /\ UNCHANGED <<frames, stacks>>
  BY DEF Raise
<1> QED BY <1>1, SameFits

(* The innermost node goes on.                                               *)
LEMMA StayFits ==
  ASSUME StackInv, frames # <<>>, SoundHeap(Here), NEW N, Fit(N), Keeps(Here, Here'),
         NEW f, FrameFits(f, Here', N), frames' = [frames EXCEPT ![Len(frames)] = f],
         f.node.kind \notin Answering, UNCHANGED <<stacks, ctl>>
  PROVE  Fit(N)'
<1> DEFINE r == [frames EXCEPT ![Len(frames)] = f]
<1>1. IsSeq(frames) /\ Len(frames) \in Nat /\ Len(frames) >= 1
  BY TopFacts
<1>2. /\ Len(r) = Len(frames) /\ r[Len(frames)] = f /\ Last(r) = f
      /\ \A i \in 1..(Len(frames) - 1) : r[i] = frames[i]
  BY <1>1, IsSeqReplaceTop
<1>3. frames' = r
  OBVIOUS
<1> HIDE DEF r
<1>4. \A i \in 1..Len(frames) : i \in 1..(Len(frames) - 1) \/ i = Len(frames)
  BY <1>1
<1>5. /\ \A i \in 1..Len(frames) : FrameFits(frames[i], Here', N)
  BY OuterFit
<1>6. StacksFit(stacks, Handles(Here')) /\ ctl.d \in Handles(Here')
  BY OuterFit
<1>7. FramesFit(N)'
  BY <1>2, <1>3, <1>4, <1>5 DEF FramesFit
<1>8. Answered'
  BY <1>2, <1>3 DEF Answered, Running, Top
<1> QED BY <1>6, <1>7, <1>8 DEF Fit

(* The innermost node is left with no value.                                 *)
LEMMA DropFits ==
  ASSUME StackInv, frames # <<>>, SoundHeap(Here), NEW N, Fit(N), Keeps(Here, Here'),
         frames' = Front(frames), stacks' = Left, UNCHANGED ctl, ctl.kind # "run"
  PROVE  Fit(N)'
<1>1. IsSeq(frames) /\ Len(frames) \in Nat /\ Len(frames) >= 1
  BY TopFacts
<1>2. Len(frames') = Len(frames) - 1 /\ \A i \in 1..Len(frames') : frames'[i] = frames[i]
  BY <1>1, IsSeqFront
<1>3. \A i \in 1..Len(frames') : i \in 1..Len(frames)
  BY <1>1, <1>2
<1>4. /\ \A i \in 1..Len(frames) : FrameFits(frames[i], Here', N)
  BY OuterFit
<1>5. StacksFit(stacks, Handles(Here')) /\ ctl.d \in Handles(Here')
  BY OuterFit
<1>6. FramesFit(N)'
  BY <1>2, <1>3, <1>4 DEF FramesFit
<1>7. Answered'
  BY DEF Answered, Running
<1>8. StacksFit(Left, Handles(Here'))
  BY <1>5, LeftFits
<1> QED BY <1>5, <1>6, <1>7, <1>8 DEF Fit
-----------------------------------------------------------------------------
(* A constant is a const Data, with an object of its own that is not written. *)
ConstFits(c, d) ==
  /\ d \in Handles(Here) /\ data[d].const /\ data[d].obj # 0
  /\ objs[data[d].obj] = c.val /\ c.val.type \notin Shared
ConstsFit == \A c \in DOMAIN consts : ConstFits(c, consts[c])

(* What functions run is in the program.                                      *)
FunsFit(nodes) == \A f \in funs : f.body \in nodes
LambdasFit(nodes) ==
  \A i \in 1..Len(lambdas) :
    /\ lambdas[i].node \in nodes /\ lambdas[i].node.kind = "Lambda"
    /\ lambdas[i].captured \in Seq(Handles(Here))

HeapInv(nodes) ==
  SoundHeap(Here) /\ Fit(nodes) /\ ConstsFit /\ FunsFit(nodes) /\ LambdasFit(nodes)

(* A step from such a state, and what is proved of every step.               *)
Ready(nodes) == StackInv /\ LambdasOK /\ WellFormed(nodes) /\ CopyingSound /\ HeapInv(nodes)
Steps(nodes) == Keeps(Here, Here') /\ Fit(nodes)'

(* Constants and functions are what they were while the heap is kept.        *)
LEMMA ConstStays ==
  ASSUME SoundHeap(Here), NEW c, NEW d, ConstFits(c, d), Keeps(Here, Here')
  PROVE  /\ d \in Handles(Here') /\ data'[d].const /\ data'[d].obj # 0
         /\ objs'[data'[d].obj] = c.val /\ c.val.type \notin Shared
<1> DEFINE o == data[d].obj
<1>1. d \in Handles(Here) /\ data[d].const /\ o # 0 /\ objs[o] = c.val /\ c.val.type \notin Shared
  BY DEF ConstFits
<1>2. Here.data = data /\ Here.objs = objs /\ Here'.data = data' /\ Here'.objs = objs'
  BY DEF Here
<1>3. o \in 0..Len(objs) /\ Len(objs) \in Nat
  BY <1>1, <1>2, HeapFacts
<1>4. o \in 1..Len(objs)
  BY <1>1, <1>3
<1>5. o \in ConstObjects(Here)
  BY <1>1, <1>2, <1>4 DEF ConstObjects
<1>6. data'[d].const /\ data'[d].obj = o /\ objs'[o] = objs[o]
  BY <1>1, <1>2, <1>5 DEF Keeps
<1>7. Handles(Here) \subseteq Handles(Here')
  BY KeepsFacts
<1> QED BY <1>1, <1>6, <1>7

LEMMA ConstsStay ==
  ASSUME SoundHeap(Here), ConstsFit, Keeps(Here, Here'), UNCHANGED consts
  PROVE  ConstsFit'
BY ConstStays DEF ConstsFit, ConstFits

LEMMA LambdasStay ==
  ASSUME SoundHeap(Here), NEW N, LambdasFit(N), Keeps(Here, Here'), UNCHANGED lambdas
  PROVE  LambdasFit(N)'
<1>1. Handles(Here) \subseteq Handles(Here')
  BY KeepsFacts
<1> QED BY <1>1, SeqMonotonic DEF LambdasFit

(* The innermost node of such a state.                                       *)
LEMMA ReadyFacts ==
  ASSUME NEW N, Ready(N), frames # <<>>
  PROVE  /\ StackInv /\ LambdasOK /\ SoundHeap(Here) /\ Fit(N) /\ StacksOK(stacks) /\ StacksFit(stacks, Handles(Here))
         /\ ctl.d \in Handles(Here) /\ VoidVar \in Handles(Here)
         /\ FrameFits(Top, Here, N) /\ IsFrame(Top) /\ Top.node \in N /\ Top.vals \in Seq(Handles(Here))
         /\ Len(Top.vals) \in Nat /\ Top.pending.d \in Handles(Here)
         /\ \A i \in 1..Len(Top.vals) : Top.vals[i] \in Handles(Here)
         /\ Top.vals # <<>> => Last(Top.vals) \in Handles(Here) /\ Len(Top.vals) >= 1
<1>1. StackInv /\ LambdasOK /\ SoundHeap(Here) /\ Fit(N)
  BY DEF Ready, HeapInv
<1>2. FrameFits(Top, Here, N) /\ IsFrame(Top) /\ StacksOK(stacks)
  BY <1>1, TopFrameFits, TopFacts DEF Fit
<1>3. Top.node \in N /\ Top.vals \in Seq(Handles(Here)) /\ Top.pending.d \in Handles(Here)
  BY <1>2 DEF FrameFits
<1>4. \A i \in 1..Len(Top.vals) : Top.vals[i] \in Handles(Here)
  <2> DEFINE H == Handles(Here)  v == Top.vals
  <2>1. v \in Seq(H)
    BY <1>3
  <2> HIDE DEF H, v
  <2>2. \A i \in 1..Len(v) : v[i] \in H
    BY <2>1
  <2> QED BY <2>2 DEF H, v
<1>5. Top.vals # <<>> => Last(Top.vals) \in Handles(Here) /\ Len(Top.vals) > 0
  BY <1>3, LastFacts
<1>6. VoidVar \in Handles(Here)
  BY <1>1, HeapFacts DEF VoidVar
<1>7. Len(Top.vals) \in Nat
  BY <1>1, TopFacts
<1> QED BY <1>1, <1>2, <1>3, <1>4, <1>5, <1>6, <1>7 DEF Fit

(* Its children are in the program.                                          *)
LEMMA Children ==
  ASSUME NEW N, WellFormed(N), NEW n \in N
  PROVE  /\ n.children \in Seq(N) /\ Len(n.children) \in Nat /\ Len(n.children) >= LeastChildren(n.kind)
         /\ \A i \in 1..Len(n.children) : n.children[i] \in N
         /\ n.children # <<>> => Last(n.children) \in N
         /\ n.kind \in Defining => n.body \in N
<1>1. n.children \in Seq(N) /\ Len(n.children) >= LeastChildren(n.kind) /\ (n.kind \in Defining => n.body \in N)
  BY DEF WellFormed
<1> DEFINE s == n.children
<1>2. s \in Seq(N)
  BY <1>1
<1> HIDE DEF s
<1>3. Len(s) \in Nat /\ \A i \in 1..Len(s) : s[i] \in N
  BY <1>2
<1>4. s # <<>> => Last(s) \in N
  BY <1>2, LastFacts
<1> QED BY <1>1, <1>2, <1>3, <1>4 DEF s

LEMMA ChildOfTop ==
  ASSUME NEW N, Ready(N), frames # <<>>, NEW i, i \in 1..Len(Top.node.children) \/ i \in 1..LeastChildren(Top.node.kind)
  PROVE  Child(i) \in N
<1>1. Top.node \in N /\ WellFormed(N)
  BY ReadyFacts DEF Ready
<1>2. /\ Len(Top.node.children) \in Nat /\ Len(Top.node.children) >= LeastChildren(Top.node.kind)
      /\ \A j \in 1..Len(Top.node.children) : Top.node.children[j] \in N
  BY <1>1, Children
<1>3. LeastChildren(Top.node.kind) \in Nat
  BY DEF LeastChildren
<1>4. i \in 1..Len(Top.node.children)
  BY <1>2, <1>3
<1> QED BY <1>2, <1>4 DEF Child

(* The last of its children, when it has to have one.                        *)
LEMMA LastOfTop ==
  ASSUME NEW N, Ready(N), frames # <<>>, LeastChildren(Top.node.kind) >= 1
  PROVE  Last(Top.node.children) \in N
<1>1. Top.node \in N /\ WellFormed(N)
  BY ReadyFacts DEF Ready
<1>2. Len(Top.node.children) >= LeastChildren(Top.node.kind) /\ Top.node.children \in Seq(N) /\ Len(Top.node.children) \in Nat
  BY <1>1, Children
<1>3. LeastChildren(Top.node.kind) \in Nat
  BY DEF LeastChildren
<1>4. Top.node.children # <<>>
  <2>1. Len(Top.node.children) >= 1
    BY <1>2, <1>3
  <2> QED BY <2>1, IsSeqTuples
<1> QED BY <1>1, <1>4, Children

(* The four ways a step goes on.                                             *)
LEMMA Entered ==
  ASSUME NEW N, Ready(N), frames # <<>>, Keeps(Here, Here'), NEW f, FrameFits(f, Here', N), NEW n \in N,
         NEW s, StacksFit(s, Handles(Here')), Enter(f, n, s)
  PROVE  Steps(N)
BY ReadyFacts, EnterFits DEF Steps

LEMMA Ended ==
  ASSUME NEW N, Ready(N), frames # <<>>, Keeps(Here, Here'), NEW d \in Handles(Here'), End(d)
  PROVE  Steps(N)
BY ReadyFacts, EndFits DEF Steps

LEMMA Raised ==
  ASSUME NEW N, Ready(N), frames # <<>>, Keeps(Here, Here'), NEW kind, kind # "run", NEW d \in Handles(Here'),
         Raise(kind, d)
  PROVE  Steps(N)
BY ReadyFacts, RaiseFits DEF Steps

LEMMA Failed ==
  ASSUME NEW N, Ready(N), frames # <<>>, NEW h, SoundHeap(h), Keeps(Here, h), RaiseErrorIn(h)
  PROVE  Steps(N)
<1>1. Keeps(h, Here') /\ Len(h.data) + 1 \in Handles(Here')
  BY ErrorKeeps
<1>2. Keeps(Here, Here')
  BY <1>1, ReadyFacts, KeepsTransitive
<1>3. Raise("throw", Len(h.data) + 1)
  BY DEF RaiseErrorIn
<1>4. "throw" # "run"
  OBVIOUS
<1> QED BY <1>1, <1>2, <1>3, <1>4, Raised

LEMMA FailedHere ==
  ASSUME NEW N, Ready(N), frames # <<>>, RaiseError
  PROVE  Steps(N)
<1>1. SoundHeap(Here) /\ Keeps(Here, Here) /\ RaiseErrorIn(Here)
  BY ReadyFacts, KeepsSelf DEF RaiseError
<1> QED BY <1>1, Failed

(* The same heap,                                                            *)
LEMMA EnteredHere ==
  ASSUME NEW N, Ready(N), frames # <<>>, UNCHANGED Heap, NEW f, FrameFits(f, Here, N), NEW n \in N,
         NEW s, StacksFit(s, Handles(Here)), Enter(f, n, s)
  PROVE  Steps(N)
<1>1. SoundHeap(Here) /\ Keeps(Here, Here')
  BY ReadyFacts, HeapStays
<1>2. FrameFits(f, Here', N) /\ StacksFit(s, Handles(Here'))
  BY <1>1, FrameFitsKept, KeepsFacts, StacksFitMore
<1> QED BY <1>1, <1>2, Entered

LEMMA EndedHere ==
  ASSUME NEW N, Ready(N), frames # <<>>, UNCHANGED Heap, NEW d \in Handles(Here), End(d)
  PROVE  Steps(N)
<1>1. SoundHeap(Here) /\ Keeps(Here, Here')
  BY ReadyFacts, HeapStays
<1>2. d \in Handles(Here')
  BY <1>1, KeepsFacts
<1> QED BY <1>1, <1>2, Ended

(* and a new value.                                                          *)
LEMMA EndedNew ==
  ASSUME NEW N, Ready(N), frames # <<>>, NEW v, ValueFits(v, Handles(Here)), NEW const \in BOOLEAN, NEW temp \in BOOLEAN,
         EndNew(v, const, temp)
  PROVE  Steps(N)
<1>1. SoundHeap(Here) /\ NewData(v, const, temp) /\ End(Len(data) + 1)
  BY ReadyFacts DEF EndNew
<1>2. Keeps(Here, Here') /\ Len(data) + 1 \in Handles(Here')
  BY <1>1, NewDataKeeps
<1> QED BY <1>1, <1>2, Ended
-----------------------------------------------------------------------------
(* A node binds a name to what it returns.                                    *)
LEMMA Declared ==
  ASSUME NEW N, Ready(N), frames # <<>>, Keeps(Here, Here'), NEW d \in Handles(Here'), NEW name, Return(d, Bind(name, d))
  PROVE  Steps(N)
<1>1. StackInv /\ SoundHeap(Here) /\ Fit(N) /\ StacksOK(stacks)
  BY ReadyFacts
<1>2. StacksFit(stacks, Handles(Here'))
  BY <1>1, OuterFit
<1>3. StacksFit(Bind(name, d), Handles(Here'))
  BY <1>1, <1>2, BindFits
<1> QED BY <1>1, <1>3, ReturnFits DEF Steps

(* The operands of a node are in the program.                                 *)
LEMMA OperandIn ==
  ASSUME NEW N, WellFormed(N), NEW n \in N, NEW k \in 1..Len(Operands(n))
  PROVE  Operands(n)[k] \in N
<1>1. /\ n.children \in Seq(N) /\ Len(n.children) \in Nat /\ Len(n.children) >= LeastChildren(n.kind)
      /\ \A i \in 1..Len(n.children) : n.children[i] \in N
  BY Children
<1>2. CASE n.kind \in Callers \cup {"Binary", "Inline_Array", "Array_Call", "Lambda", "Return"}
  <2>1. Operands(n) = n.children
    BY <1>2 DEF Operands, Callers, Calls
  <2> QED BY <1>1, <2>1
<1>3. CASE n.kind \in {"Prefix", "Fold_Right"}
  <2>1. Operands(n) = <<n.children[1]>> /\ LeastChildren(n.kind) = 1
    BY <1>3 DEF Operands, Callers, Calls, LeastChildren
  <2> QED BY <1>1, <2>1
<1>4. CASE n.kind = "Assign_Decl"
  <2>1. Operands(n) = <<n.children[2]>> /\ LeastChildren(n.kind) = 2
    BY <1>4 DEF Operands, Callers, Calls, LeastChildren
  <2> QED BY <1>1, <2>1
<1>5. CASE n.kind = "Equation"
  <2>1. Operands(n) = <<n.children[2], n.children[1]>> /\ LeastChildren(n.kind) = 2
    BY <1>5 DEF Operands, Callers, Calls, LeastChildren
  <2> QED BY <1>1, <2>1
<1>6. CASE ~(n.kind \in Callers \cup {"Binary", "Inline_Array", "Array_Call", "Lambda", "Return"}
             \/ n.kind \in {"Prefix", "Fold_Right"} \/ n.kind = "Assign_Decl" \/ n.kind = "Equation")
  <2>1. Operands(n) = <<>>
    BY <1>6 DEF Operands
  <2> QED BY <2>1
<1> QED BY <1>2, <1>3, <1>4, <1>5, <1>6

LEMMA OperandStep ==
  ASSUME NEW N, Ready(N), EvalOperand
  PROVE  Steps(N)
<1>1. frames # <<>> /\ UNCHANGED Heap /\ Len(Top.vals) < Len(Operands(Top.node))
      /\ Enter(Top, Operands(Top.node)[Len(Top.vals) + 1], stacks)
  BY DEF EvalOperand
<1>2. FrameFits(Top, Here, N) /\ Top.node \in N /\ Len(Top.vals) \in Nat /\ StacksFit(stacks, Handles(Here)) /\ WellFormed(N)
  BY <1>1, ReadyFacts DEF Ready
<1>3. Len(Operands(Top.node)) \in Nat
  BY <1>2, Children DEF Operands
<1>4. Len(Top.vals) + 1 \in 1..Len(Operands(Top.node))
  BY <1>1, <1>2, <1>3
<1>5. Operands(Top.node)[Len(Top.vals) + 1] \in N
  BY <1>2, <1>4, OperandIn
<1> QED BY <1>1, <1>2, <1>5, EnteredHere

(* Values that nodes have evaluated.                                          *)
LEMMA OperandsFit ==
  ASSUME NEW N, Ready(N), NEW kinds, Evaluated(kinds)
  PROVE  /\ frames # <<>> /\ Top.node.kind \in kinds
         /\ Top.node.kind \in {"Prefix", "Fold_Right", "Assign_Decl", "Equation", "Binary", "Array_Call"} =>
              Top.vals[1] \in Handles(Here)
         /\ Top.node.kind \in {"Equation", "Binary", "Array_Call"} => Top.vals[2] \in Handles(Here)
<1>1. frames # <<>> /\ Top.node.kind \in kinds /\ Len(Top.vals) = Len(Operands(Top.node))
  BY DEF Evaluated, InPhase, Running
<1>2. Top.node \in N /\ WellFormed(N) /\ \A i \in 1..Len(Top.vals) : Top.vals[i] \in Handles(Here)
  BY <1>1, ReadyFacts DEF Ready
<1>3. Len(Top.node.children) \in Nat /\ Len(Top.node.children) >= LeastChildren(Top.node.kind)
  BY <1>2, Children
<1>4. ASSUME Top.node.kind \in {"Prefix", "Fold_Right", "Assign_Decl"} PROVE Len(Top.vals) = 1
  BY <1>1, <1>4 DEF Operands, Callers, Calls
<1>5. ASSUME Top.node.kind = "Equation" PROVE Len(Top.vals) = 2
  BY <1>1, <1>5 DEF Operands, Callers, Calls
<1>6. ASSUME Top.node.kind \in {"Binary", "Array_Call"} PROVE Len(Top.vals) \in Nat /\ Len(Top.vals) >= 2
  <2>1. Operands(Top.node) = Top.node.children /\ LeastChildren(Top.node.kind) = 2
    BY <1>6 DEF Operands, Callers, Calls, LeastChildren
  <2> QED BY <1>1, <1>3, <2>1
<1>7. /\ Top.node.kind \in {"Prefix", "Fold_Right", "Assign_Decl", "Equation", "Binary", "Array_Call"} => 1 \in 1..Len(Top.vals)
      /\ Top.node.kind \in {"Equation", "Binary", "Array_Call"} => 2 \in 1..Len(Top.vals)
  <2> DEFINE k == Top.node.kind  n == Len(Top.vals)
  <2>1. /\ k = "Prefix" \/ k = "Fold_Right" \/ k = "Assign_Decl" => n = 1
        /\ k = "Equation" => n = 2
        /\ k = "Binary" \/ k = "Array_Call" => n \in Nat /\ n >= 2
    BY <1>4, <1>5, <1>6
  <2> HIDE DEF k, n
  <2>2. /\ k \in {"Prefix", "Fold_Right", "Assign_Decl", "Equation", "Binary", "Array_Call"} => 1 \in 1..n
        /\ k \in {"Equation", "Binary", "Array_Call"} => 2 \in 1..n
    BY <2>1
  <2> QED BY <2>2 DEF k, n
<1> QED BY <1>1, <1>2, <1>7

LEMMA LeavesStep ==
  ASSUME NEW N, Ready(N), EvalNoop \/ EvalId \/ EvalDeclaration \/ EvalReturn \/ EvalJump
  PROVE  Steps(N)
<1>1. frames # <<>>
  BY DEF EvalNoop, EvalId, EvalDeclaration, EvalReturn, EvalJump, Evaluated, InPhase, Running
<1>2. /\ SoundHeap(Here) /\ StacksOK(stacks) /\ StacksFit(stacks, Handles(Here)) /\ VoidVar \in Handles(Here)
      /\ \A i \in 1..Len(Top.vals) : Top.vals[i] \in Handles(Here)
      /\ Top.vals # <<>> => Len(Top.vals) >= 1
      /\ Len(Top.vals) \in Nat
  BY <1>1, ReadyFacts
<1>3. CASE EvalNoop
  BY <1>1, <1>2, <1>3, EndedHere DEF EvalNoop
<1>4. CASE EvalId
  <2>1. Resolves(Top.node.text) => Resolve(Top.node.text) \in Handles(Here)
    BY <1>2, ResolveFits
  <2> QED BY <1>1, <1>4, <2>1, EndedHere, FailedHere DEF EvalId
<1>5. CASE EvalDeclaration
  <2>1. CASE RaiseError
    BY <1>1, <2>1, FailedHere
  <2>2. CASE /\ data' = Append(data, [obj |-> 0, const |-> FALSE, temp |-> FALSE])
             /\ Return(Len(data) + 1, Bind(Top.node.text, Len(data) + 1)) /\ UNCHANGED objs
    <3>1. Keeps(Here, Here') /\ Len(data) + 1 \in Handles(Here')
      BY <1>2, <2>2, UndefinedKeeps
    <3> QED BY <1>1, <2>2, <3>1, Declared
  <2> QED BY <1>5, <2>1, <2>2 DEF EvalDeclaration
<1>6. CASE EvalReturn
  <2> DEFINE d == IF Top.vals = <<>> THEN VoidVar ELSE Top.vals[1]
  <2>1. Raise("return", d) /\ UNCHANGED Heap
    BY <1>6 DEF EvalReturn
  <2>2. d \in Handles(Here)
    <3>1. Top.vals # <<>> => 1 \in 1..Len(Top.vals)
      BY <1>2
    <3> QED BY <1>2, <3>1
  <2> HIDE DEF d
  <2>3. Keeps(Here, Here') /\ d \in Handles(Here')
    BY <1>2, <2>1, <2>2, HeapStays, KeepsFacts
  <2>4. "return" # "run"
    OBVIOUS
  <2> QED BY <1>1, <2>1, <2>3, <2>4, Raised
<1>7. CASE EvalJump
  <2>1. (Raise("break", VoidVar) \/ Raise("continue", VoidVar)) /\ UNCHANGED Heap
    BY <1>7 DEF EvalJump
  <2>2. Keeps(Here, Here') /\ VoidVar \in Handles(Here')
    BY <1>2, <2>1, HeapStays, KeepsFacts
  <2>3. "break" # "run" /\ "continue" # "run"
    OBVIOUS
  <2> QED BY <1>1, <2>1, <2>2, <2>3, Raised
<1> QED BY <1>3, <1>4, <1>5, <1>6, <1>7

(* What is cloned is what the new heap has.                                   *)
LEMMA ClonedHere ==
  ASSUME NEW N, Ready(N), frames # <<>>, NEW d \in Handles(Here), CanClone(d),
         data' = Cloned(d).data, objs' = Cloned(d).objs
  PROVE  Keeps(Here, Here') /\ Cloned(d).d \in Handles(Here')
<1> DEFINE c == Cloned(d)
<1>1. SoundHeap(Here) /\ CopyingSound
  BY ReadyFacts DEF Ready
<1>2. Keeps(Here, c) /\ c.d \in Handles(c)
  BY <1>1, ClonedKeeps
<1>3. c.data = Here'.data /\ c.objs = Here'.objs
  BY DEF Here
<1> HIDE DEF c
<1>4. Keeps(Here, Here')
  BY <1>2, <1>3, KeepsSame
<1>5. Handles(c) = Handles(Here')
  BY <1>3 DEF Handles
<1> QED BY <1>2, <1>4, <1>5 DEF c

LEMMA AssignDeclStep ==
  ASSUME NEW N, Ready(N), EvalAssignDecl
  PROVE  Steps(N)
<1>1. frames # <<>> /\ Top.vals[1] \in Handles(Here)
  BY OperandsFit DEF EvalAssignDecl
<1> DEFINE d == Top.vals[1]  c == Cloned(d)
<1>2. CASE RaiseError
  BY <1>1, <1>2, FailedHere
<1>3. CASE CanClone(d) /\ data' = c.data /\ objs' = c.objs /\ \E name : Return(c.d, Bind(name, c.d))
  <2>1. Keeps(Here, Here') /\ c.d \in Handles(Here')
    BY <1>1, <1>3, ClonedHere
  <2> QED BY <1>1, <1>3, <2>1, Declared
<1>4. CASE CanClone(d) /\ RaiseErrorIn(c)
  <2>1. SoundHeap(Here) /\ CopyingSound
    BY <1>1, ReadyFacts DEF Ready
  <2>2. Keeps(Here, c)
    BY <1>1, <1>4, <2>1, ClonedKeeps
  <2> HIDE DEF c
  <2>3. SoundHeap(c)
    BY <2>1, <2>2, KeepsFacts
  <2> QED BY <1>1, <1>4, <2>2, <2>3, Failed
<1>5. \/ RaiseError
      \/ CanClone(d) /\ RaiseErrorIn(c)
      \/ CanClone(d) /\ data' = c.data /\ objs' = c.objs /\ \E name : Return(c.d, Bind(name, c.d))
  BY DEF EvalAssignDecl
<1> QED BY <1>2, <1>3, <1>4, <1>5

(* Operators make values of numbers and booleans.                             *)
LEMMA OperatorsStep ==
  ASSUME NEW N, Ready(N), EvalBinary \/ EvalPrefix
  PROVE  Steps(N)
<1>1. frames # <<>> /\ Top.node.kind \in {"Binary", "Fold_Right", "Prefix"} /\ Top.vals[1] \in Handles(Here)
  BY OperandsFit DEF EvalBinary, EvalPrefix
<1>2. /\ SoundHeap(Here) /\ Top.node \in N /\ WellFormed(N)
      /\ \A type, v : type # "object" => ValueFits(Value(type, v), Handles(Here))
      /\ TRUE \in BOOLEAN /\ FALSE \in BOOLEAN
  BY <1>1, ReadyFacts, ValuesFit DEF Ready
<1>3. CASE EvalBinary
  <2>1. Top.node.kind \in {"Binary", "Fold_Right"}
    BY <1>3 DEF EvalBinary, Evaluated, InPhase, Running
  <2>2. Top.node.text \in {"+", "<", "=="}
    BY <1>2, <2>1 DEF WellFormed
  <2>3. \A l, r : ValueFits(BinaryResult(l, r), Handles(Here))
    <3>1. "int" # "object" /\ "bool" # "object"
      OBVIOUS
    <3>2. \A l, r : \E type, v : BinaryResult(l, r) = Value(type, v) /\ type # "object"
      BY <2>2, <3>1 DEF BinaryResult, Truth
    <3> QED BY <1>2, <3>2
  <2>4. (\E l, r : EndNew(BinaryResult(l, r), TRUE, FALSE) \/ EndNew(BinaryResult(l, r), FALSE, TRUE)) \/ RaiseError
    BY <1>3 DEF EvalBinary
  <2> QED BY <1>1, <1>2, <2>3, <2>4, EndedNew, FailedHere
<1>4. CASE EvalPrefix
  <2> DEFINE d == Top.vals[1]
  <2>1. CASE Val(d).type = "int" /\ ~data[d].const /\ Increment(d)
    <3>1. "int" # "undef"
      OBVIOUS
    <3>2. data[d].obj \in 1..Len(objs) /\ data[d].obj \notin ConstObjects(Here)
      BY <1>1, <1>2, <2>1, <3>1, Writable
    <3> DEFINE o == data[d].obj  k == objs[o].v + 1
    <3>3. objs' = [objs EXCEPT ![o].v = k] /\ UNCHANGED data /\ End(d)
      BY <2>1, <3>2 DEF Increment
    <3> HIDE DEF o, k
    <3>4. o \in 0..Len(objs) /\ o \notin ConstObjects(Here)
      BY <3>2 DEF o
    <3>5. Keeps(Here, Here')
      BY <1>2, <3>3, <3>4, FieldKeeps
    <3>6. d \in Handles(Here')
      BY <1>1, <1>2, <3>5, KeepsFacts
    <3> QED BY <1>1, <3>3, <3>5, <3>6, Ended
  <2>2. CASE EndNew(Value("int", -Val(d).v), TRUE, FALSE)
    <3>1. "int" # "object"
      OBVIOUS
    <3> QED BY <1>1, <1>2, <2>2, <3>1, EndedNew
  <2>3. CASE EndNew(Truth(Val(d).v = 0), FALSE, TRUE)
    <3>1. "bool" # "object"
      OBVIOUS
    <3>2. ValueFits(Truth(Val(d).v = 0), Handles(Here))
      BY <1>2, <3>1 DEF Truth
    <3> QED BY <1>1, <1>2, <2>3, <3>2, EndedNew
  <2>4. CASE RaiseError
    BY <1>1, <2>4, FailedHere
  <2> QED BY <1>4, <2>1, <2>2, <2>3, <2>4 DEF EvalPrefix
<1> QED BY <1>3, <1>4
-----------------------------------------------------------------------------
(* The first evaluation of a constant makes its Data.                         *)
LEMMA ConstantStep ==
  ASSUME NEW N, Ready(N), EvalConstant
  PROVE  Steps(N) /\ ConstsFit'
<1> DEFINE c == Top.node
<1>1. frames # <<>> /\ c.kind = "Constant"
  BY DEF EvalConstant, Running
<1>2. SoundHeap(Here) /\ ConstsFit /\ WellFormed(N) /\ c \in N
  BY <1>1, ReadyFacts DEF Ready, HeapInv
<1>3. CASE c \in DOMAIN consts /\ End(consts[c]) /\ UNCHANGED <<Heap, consts>>
  <2>1. consts[c] \in Handles(Here)
    BY <1>2, <1>3 DEF ConstsFit, ConstFits
  <2> HIDE DEF c
  <2>2. Keeps(Here, Here')
    BY <1>2, <1>3, HeapStays
  <2> QED BY <1>1, <1>2, <1>3, <2>1, <2>2, EndedHere, ConstsStay
<1>4. CASE EndNew(c.val, c.const, FALSE) /\ consts' = With(consts, c, Len(data) + 1)
  <2> DEFINE v == c.val  d == Len(data) + 1
  <2>1. c.const = TRUE /\ v.type \notin Shared /\ ValueFits(v, {})
    BY <1>1, <1>2 DEF WellFormed
  <2>2. {} \subseteq Handles(Here) /\ TRUE \in BOOLEAN /\ FALSE \in BOOLEAN
    OBVIOUS
  <2>3. ValueFits(v, Handles(Here))
    BY <2>1, <2>2, FitsMore
  <2>4. NewData(v, TRUE, FALSE) /\ End(d)
    BY <1>4, <2>1 DEF EndNew
  <2>5. /\ Keeps(Here, Here') /\ d \in Handles(Here') /\ Len(objs) + 1 \in 1..Len(objs')
        /\ data'[d].const = TRUE /\ data'[d].obj = Len(objs) + 1 /\ objs'[Len(objs) + 1] = v
    BY <1>2, <2>2, <2>3, <2>4, NewDataKeeps
  <2>6. Len(objs) + 1 # 0
    BY <2>5
  <2>7. ASSUME NEW x \in DOMAIN consts'
        PROVE  /\ consts'[x] \in Handles(Here') /\ data'[consts'[x]].const /\ data'[consts'[x]].obj # 0
               /\ objs'[data'[consts'[x]].obj] = x.val /\ x.val.type \notin Shared
    <3>1. DOMAIN consts' = DOMAIN consts \cup {c} /\ consts'[x] = IF x = c THEN d ELSE consts[x]
      BY <1>4, <2>7 DEF With
    <3>2. CASE x = c
      BY <2>1, <2>5, <2>6, <3>1, <3>2
    <3>3. CASE x # c
      <4>1. ConstFits(x, consts[x]) /\ consts'[x] = consts[x]
        BY <1>2, <2>7, <3>1, <3>3 DEF ConstsFit
      <4> HIDE DEF c, v, d
      <4> QED BY <1>2, <2>5, <4>1, ConstStays
    <3> QED BY <3>2, <3>3
  <2>8. ConstsFit'
    BY <2>7 DEF ConstsFit, ConstFits
  <2> HIDE DEF d
  <2> QED BY <1>1, <2>4, <2>5, <2>8, Ended
<1> QED BY <1>3, <1>4 DEF EvalConstant

(* What a Data holds may be shared as it is held.                             *)
LEMMA MayShare ==
  ASSUME NEW h, SoundHeap(h), NEW d \in Handles(h)
  PROVE  LET b == [h.data[d] EXCEPT !.temp = FALSE] IN
         /\ b \in DataOf(h) /\ (b.obj \in ConstObjects(h) => b.const)
         /\ b.const => b.obj = 0 \/ b.obj \in ConstObjects(h) \/ h.objs[b.obj].type \in Shared
<1> DEFINE b == [h.data[d] EXCEPT !.temp = FALSE]
<1>1. h.data[d] \in DataOf(h) /\ (h.data[d].obj \in ConstObjects(h) => h.data[d].const) /\ Len(h.objs) \in Nat
  BY HeapFacts
<1>2. b \in DataOf(h) /\ b.obj = h.data[d].obj /\ b.const = h.data[d].const /\ b.obj \in 0..Len(h.objs)
  BY <1>1 DEF DataOf
<1> HIDE DEF b
<1>3. ASSUME b.const, b.obj # 0, h.objs[b.obj].type \notin Shared PROVE b.obj \in ConstObjects(h)
  <2>1. \A x \in 0..Len(h.objs) : x # 0 => x \in 1..Len(h.objs)
    BY <1>1
  <2>2. b.obj \in 1..Len(h.objs)
    BY <1>2, <1>3, <2>1
  <2> QED BY <1>2, <1>3, <2>2 DEF ConstObjects
<1> QED BY <1>1, <1>2, <1>3 DEF b

(* Data that are bound to what others hold, when they may be.                 *)
LEMMA Rebound ==
  ASSUME NEW N, Ready(N), frames # <<>>, NEW c, Keeps(Here, c), NEW l \in Handles(Here), ~data[l].const,
         NEW b \in DataOf(c), b.obj \in ConstObjects(c) => b.const,
         b.const => b.obj = 0 \/ b.obj \in ConstObjects(c) \/ c.objs[b.obj].type \in Shared,
         data' = [c.data EXCEPT ![l] = b], objs' = c.objs
  PROVE  Keeps(Here, Here')
<1> DEFINE a == Here'
<1>1. SoundHeap(Here) /\ Here.data = data /\ a.data = data' /\ a.objs = objs'
  BY ReadyFacts DEF Here
<1>2. l \in Handles(c) /\ ~Here.data[l].const
  BY <1>1, KeepsFacts
<1>3. a.data = [c.data EXCEPT ![l] = b] /\ a.objs = c.objs
  BY <1>1
<1> HIDE DEF a
<1>4. Keeps(Here, a)
  <2>1. l \in Handles(Here) /\ Here.data[l].const => b.const /\ b.obj = Here.data[l].obj
    BY <1>2
  <2> QED BY <1>1, <1>2, <1>3, <2>1, RebindKeeps
<1> QED BY <1>4 DEF a

LEMMA AssignReferenceStep ==
  ASSUME NEW N, Ready(N), frames # <<>>, NEW l \in Handles(Here), NEW r \in Handles(Here),
         ~data[l].const, AssignReference(l, r)
  PROVE  Steps(N)
<1> DEFINE b == [data[r] EXCEPT !.temp = FALSE]
<1>1. SoundHeap(Here) /\ Here.data = data /\ Here.objs = objs
  BY ReadyFacts DEF Here
<1>2. /\ b \in DataOf(Here) /\ (b.obj \in ConstObjects(Here) => b.const)
      /\ b.const => b.obj = 0 \/ b.obj \in ConstObjects(Here) \/ Here.objs[b.obj].type \in Shared
  BY <1>1, MayShare
<1>3. data' = [data EXCEPT ![l] = b] /\ objs' = objs /\ End(r)
  BY DEF AssignReference
<1> HIDE DEF b
<1>4. Keeps(Here, Here) /\ data' = [Here.data EXCEPT ![l] = b] /\ objs' = Here.objs
  BY <1>1, <1>3, KeepsSelf
<1>5. Keeps(Here, Here')
  BY <1>2, <1>4, Rebound
<1>6. r \in Handles(Here')
  BY <1>1, <1>5, KeepsFacts
<1> QED BY <1>3, <1>5, <1>6, Ended

LEMMA AssignFirstStep ==
  ASSUME NEW N, Ready(N), frames # <<>>, NEW l \in Handles(Here), NEW r \in Handles(Here),
         ~data[l].const, AssignFirst(l, r)
  PROVE  Steps(N)
<1> DEFINE c == Cloned(r)  b == c.data[c.d]
<1>1. SoundHeap(Here) /\ CopyingSound /\ CanClone(r)
  BY ReadyFacts DEF AssignFirst, Ready
<1>2. Keeps(Here, c) /\ c.d \in Handles(c)
  BY <1>1, ClonedKeeps
<1>3. data' = [c.data EXCEPT ![l] = b] /\ objs' = c.objs /\ End(l)
  BY DEF AssignFirst
<1> HIDE DEF c
<1>4. SoundHeap(c)
  BY <1>1, <1>2, KeepsFacts
<1>5. /\ b \in DataOf(c) /\ (b.obj \in ConstObjects(c) => b.const) /\ b.obj \in 0..Len(c.objs) /\ Len(c.objs) \in Nat
  BY <1>2, <1>4, HeapFacts
<1>6. b.const => b.obj = 0 \/ b.obj \in ConstObjects(c) \/ c.objs[b.obj].type \in Shared
  <2> SUFFICES ASSUME b.const, b.obj # 0, c.objs[b.obj].type \notin Shared PROVE b.obj \in ConstObjects(c)
    OBVIOUS
  <2>1. \A x \in 0..Len(c.objs) : x # 0 => x \in 1..Len(c.objs)
    BY <1>5
  <2>2. b.obj \in 1..Len(c.objs)
    BY <1>5, <2>1
  <2> QED BY <1>2, <2>2 DEF ConstObjects
<1> HIDE DEF b
<1>7. Keeps(Here, Here')
  BY <1>2, <1>3, <1>5, <1>6, Rebound
<1>8. l \in Handles(Here')
  BY <1>1, <1>7, KeepsFacts
<1> QED BY <1>3, <1>7, <1>8, Ended

LEMMA AssignPointerStep ==
  ASSUME NEW N, Ready(N), frames # <<>>, NEW l \in Handles(Here), NEW r \in Handles(Here),
         ~data[l].const, AssignPointer(l, r)
  PROVE  Steps(N)
<1> DEFINE o == data[r].obj  b == NewBox(o, FALSE, FALSE)
<1>1. SoundHeap(Here) /\ Here.data = data /\ Here.objs = objs /\ Val(r) = ValIn(Here, r)
  BY ReadyFacts DEF Here, Val
<1>2. Val(r).type = "fun" /\ data' = [data EXCEPT ![l] = b] /\ objs' = objs /\ End(l)
  BY DEF AssignPointer, NewBox
<1>3. o \in 1..Len(objs) /\ objs[o].type = "fun" /\ Len(objs) \in Nat
  <2>1. "fun" # "undef"
    OBVIOUS
  <2> QED BY <1>1, <1>2, <2>1, ValFits, HeapFacts
<1>4. o \notin ConstObjects(Here)
  BY <1>1, <1>3 DEF ConstObjects, Shared
<1> HIDE DEF o
<1>5. b \in DataOf(Here) /\ b.obj = o /\ b.const = FALSE
  BY <1>1, <1>3 DEF NewBox, DataOf
<1> HIDE DEF b
<1>6. Keeps(Here, Here) /\ data' = [Here.data EXCEPT ![l] = b] /\ objs' = Here.objs
  BY <1>1, <1>2, KeepsSelf
<1>7. Keeps(Here, Here')
  BY <1>4, <1>5, <1>6, Rebound
<1>8. l \in Handles(Here')
  BY <1>1, <1>7, KeepsFacts
<1> QED BY <1>2, <1>7, <1>8, Ended

(* Numbers, booleans and vectors are written where they are.                  *)
LEMMA AssignValueStep ==
  ASSUME NEW N, Ready(N), frames # <<>>, NEW l \in Handles(Here), NEW r \in Handles(Here),
         ~data[l].const, AssignNumber(l, r) \/ AssignObject(l, r)
  PROVE  Steps(N)
<1> DEFINE o == data[l].obj  v == Val(r)  os == [objs EXCEPT ![o] = v]  m == [data |-> data, objs |-> os]
<1>1. SoundHeap(Here) /\ Here.data = data /\ Here.objs = objs /\ Val(r) = ValIn(Here, r)
  BY ReadyFacts DEF Here, Val
<1>2. Val(l).type \in {"int", "bool", "array"} /\ objs' = os
  BY DEF AssignNumber, AssignObject
<1>3. o \in 1..Len(objs) /\ o \notin ConstObjects(Here) /\ Val(l) = objs[o]
  <2>1. Val(l).type # "undef"
    BY <1>2
  <2> QED BY <1>1, <2>1, Writable
<1>4. ValueFits(v, Handles(Here)) /\ objs[o].type \notin Shared
  BY <1>1, <1>2, <1>3, ValFits DEF Shared
<1>5. /\ m.data = Here.data /\ m.objs = [Here.objs EXCEPT ![o] = v] /\ o \in 1..Len(Here.objs)
      /\ Here.objs[o].type \in Shared => v.type \in Shared
  BY <1>1, <1>3, <1>4
<1> HIDE DEF os, m, v
<1>6. Keeps(Here, m) /\ Handles(m) = Handles(Here) /\ Len(m.objs) = Len(objs)
  BY <1>1, <1>3, <1>4, <1>5, WriteKeeps
<1>7. m.data = data /\ m.objs = objs'
  BY <1>2 DEF m
<1>8. CASE AssignNumber(l, r)
  <2>1. m.data = Here'.data /\ m.objs = Here'.objs /\ End(l)
    BY <1>7, <1>8 DEF AssignNumber, Here
  <2>2. Keeps(Here, Here')
    BY <1>6, <2>1, KeepsSame
  <2>3. l \in Handles(Here')
    BY <1>1, <2>2, KeepsFacts
  <2> QED BY <2>1, <2>2, <2>3, Ended
<1>9. CASE AssignObject(l, r)
  <2> DEFINE a == Here'
  <2>1. a.data = Append(m.data, NewBox(o, FALSE, FALSE)) /\ a.objs = m.objs /\ End(Len(data) + 1)
    BY <1>7, <1>9 DEF AssignObject, Here, NewBox
  <2> HIDE DEF o, a
  <2>2. SoundHeap(m) /\ o \in 0..Len(m.objs) /\ o \notin ConstObjects(m)
    BY <1>1, <1>3, <1>6, KeepsFacts
  <2>3. Keeps(m, a) /\ Len(m.data) + 1 \in Handles(a)
    BY <2>1, <2>2, NewAliasKeeps
  <2>4. Keeps(Here, a)
    BY <1>1, <1>6, <2>3, KeepsTransitive
  <2>5. Keeps(Here, Here') /\ Len(data) + 1 \in Handles(Here')
    BY <1>7, <2>3, <2>4 DEF a
  <2> QED BY <2>1, <2>5, Ended
<1> QED BY <1>8, <1>9

LEMMA AssignObjectsStep ==
  ASSUME NEW N, Ready(N), frames # <<>>, NEW l \in Handles(Here), NEW r \in Handles(Here),
         ~data[l].const, ~data[l].temp, AssignObjects(l, r)
  PROVE  Steps(N)
<1> DEFINE h == Overwrite(Here, l, r)
<1>1. SoundHeap(Here) /\ CopyingSound /\ VoidVar \in Handles(Here) /\ Here.data = data /\ Val(l) = ValIn(Here, l)
  BY ReadyFacts DEF Ready, Here, Val
<1>2. Val(l).type = "object" /\ CanOverwrite(Here, l, r) /\ data' = h.data /\ objs' = h.objs /\ End(VoidVar)
  BY DEF AssignObjects
<1>3. Keeps(Here, h)
  BY <1>1, <1>2 DEF CopyingSound, CopyingKeeps
<1>4. h.data = Here'.data /\ h.objs = Here'.objs
  BY <1>2 DEF Here
<1> HIDE DEF h
<1>5. Keeps(Here, Here')
  BY <1>3, <1>4, KeepsSame
<1>6. VoidVar \in Handles(Here')
  BY <1>1, <1>5, KeepsFacts
<1> QED BY <1>2, <1>5, <1>6, Ended

(* Assignments.                                                              *)
LEMMA EquationStep ==
  ASSUME NEW N, Ready(N), EvalEquation
  PROVE  Steps(N)
<1> DEFINE l == Top.vals[2]  r == Top.vals[1]
<1>1. Evaluated({"Equation"})
  BY DEF EvalEquation
<1>2. frames # <<>> /\ l \in Handles(Here) /\ r \in Handles(Here)
  BY <1>1, OperandsFit
<1>3. RaiseError \/ (/\ ~data[l].const /\ ~data[l].temp
                     /\ \/ AssignNumber(l, r) \/ AssignReference(l, r) \/ AssignFirst(l, r)
                        \/ AssignObject(l, r) \/ AssignPointer(l, r) \/ AssignObjects(l, r))
  BY DEF EvalEquation, Assignable
<1> HIDE DEF l, r
<1> QED BY <1>2, <1>3, FailedHere, AssignReferenceStep, AssignFirstStep, AssignPointerStep, AssignValueStep, AssignObjectsStep
-----------------------------------------------------------------------------
(* What a frame tells when some of its fields have changed.                   *)
Shows(g, f, phase, at, pending) ==
  g.node = f.node /\ g.vals = f.vals /\ g.phase = phase /\ g.at = at /\ g.pending = pending

LEMMA FrameShows ==
  ASSUME NEW f, IsFrame(f), NEW p, NEW a, NEW k, NEW q
  PROVE  /\ Shows([f EXCEPT !.scopes = k], f, f.phase, f.at, f.pending)
         /\ Shows([f EXCEPT !.phase = p], f, p, f.at, f.pending)
         /\ Shows([f EXCEPT !.phase = p, !.scopes = k], f, p, f.at, f.pending)
         /\ Shows([f EXCEPT !.phase = p, !.at = a], f, p, a, f.pending)
         /\ Shows([f EXCEPT !.phase = p, !.at = a, !.scopes = k], f, p, a, f.pending)
         /\ Shows([[f EXCEPT !.at = a, !.scopes = k] EXCEPT !.phase = p], f, p, a, f.pending)
         /\ Shows([f EXCEPT !.phase = p, !.scopes = k, !.pending = q], f, p, f.at, q)
         /\ Shows([f EXCEPT !.phase = p, !.call = TRUE], f, p, f.at, f.pending)
         /\ Shows([[f EXCEPT !.at = a] EXCEPT !.phase = p, !.call = TRUE], f, p, a, f.pending)
         /\ Shows([[f EXCEPT !.scopes = k] EXCEPT !.phase = p, !.call = TRUE], f, p, f.at, f.pending)
BY DEF Shows, IsFrame, Fields

(* For most nodes the phase does not matter.                                  *)
LEMMA ShowsFits ==
  ASSUME NEW f, NEW h, NEW N, FrameFits(f, h, N), f.node.kind \notin {"Ranged_For", "Switch"},
         NEW g, NEW p, Shows(g, f, p, f.at, f.pending)
  PROVE  FrameFits(g, h, N)
BY DEF FrameFits, Shows

LEMMA PhaseFits ==
  ASSUME NEW f, IsFrame(f), NEW h, NEW N, FrameFits(f, h, N), f.node.kind \notin {"Ranged_For", "Switch"}, NEW p, NEW k
  PROVE  /\ FrameFits([f EXCEPT !.scopes = k], h, N)
         /\ FrameFits([f EXCEPT !.phase = p], h, N)
         /\ FrameFits([f EXCEPT !.phase = p, !.scopes = k], h, N)
         /\ FrameFits([f EXCEPT !.phase = p, !.call = TRUE], h, N)
         /\ FrameFits([[f EXCEPT !.scopes = k] EXCEPT !.phase = p, !.call = TRUE], h, N)
BY FrameShows, ShowsFits

(* Scopes that nothing or one name is in.                                     *)
LEMMA SmallScopes ==
  ASSUME NEW H
  PROVE  ScopeFits(<<>>, H) /\ \A name : \A d \in H : ScopeFits(<<Binding(name, d)>>, H)
<1>1. \A name, d : Binding(name, d).data = d
  BY DEF Binding
<1>2. \A x : Len(<<x>>) = 1 /\ <<x>>[1] = x
  BY IsSeqTuples
<1> QED BY <1>1, <1>2, IsSeqTuples DEF ScopeFits

LEMMA LogicalStep ==
  ASSUME NEW N, Ready(N), EvalLogical
  PROVE  Steps(N)
<1> DEFINE n == Len(Top.vals)  v == Val(Last(Top.vals))
<1>1. frames # <<>> /\ Top.node.kind \in {"Logical_And", "Logical_Or"}
  BY DEF EvalLogical, Running
<1>2. /\ SoundHeap(Here) /\ FrameFits(Top, Here, N) /\ StacksFit(stacks, Handles(Here)) /\ n \in Nat
      /\ Top.vals # <<>> => Last(Top.vals) \in Handles(Here)
  BY <1>1, ReadyFacts
<1>3. CASE (n = 0 \/ n = 1) /\ Enter(Top, Child(n + 1), stacks) /\ UNCHANGED Heap
  <2>1. LeastChildren(Top.node.kind) = 2
    BY <1>1 DEF LeastChildren
  <2>2. n + 1 \in 1..LeastChildren(Top.node.kind)
    <3>1. n + 1 \in 1..2
      <4>1. n = 0 \/ n = 1
        BY <1>3
      <4> HIDE DEF n
      <4> QED BY <4>1
    <3> QED BY <2>1, <3>1
  <2>3. Child(n + 1) \in N
    BY <1>1, <2>2, ChildOfTop
  <2> QED BY <1>1, <1>2, <1>3, <2>3, EnteredHere
<1>4. CASE n # 0 /\ EndNew(v, TRUE, FALSE)
  <2>1. Last(Top.vals) \in Handles(Here)
    <3>1. Top.vals # <<>>
      BY <1>4, IsSeqTuples
    <3> QED BY <1>2, <3>1
  <2>2. ValueFits(v, Handles(Here)) /\ TRUE \in BOOLEAN /\ FALSE \in BOOLEAN
    BY <1>2, <2>1, ValFits DEF Val
  <2> QED BY <1>1, <1>4, <2>2, EndedNew
<1>5. CASE RaiseError
  BY <1>1, <1>5, FailedHere
<1> QED BY <1>3, <1>4, <1>5 DEF EvalLogical

(* The elements of a vector.                                                  *)
LEMMA CloneElementStep ==
  ASSUME NEW N, Ready(N), CloneElement
  PROVE  Steps(N)
<1> DEFINE d == Last(Top.vals)  c == Cloned(d)
<1>1. frames # <<>> /\ Top.node.kind = "Inline_Array" /\ Top.at < Len(Top.vals)
  BY DEF CloneElement, Running
<1>2. /\ StackInv /\ SoundHeap(Here) /\ Fit(N) /\ FrameFits(Top, Here, N) /\ IsFrame(Top) /\ Top.vals \in Seq(Handles(Here))
      /\ Len(Top.vals) \in Nat /\ (Top.vals # <<>> => d \in Handles(Here))
  BY <1>1, ReadyFacts
<1>3. Top.vals # <<>>
  <2>1. Top.at \in Nat
    BY <1>1, <1>2 DEF FrameFits
  <2> QED BY <1>1, <2>1, IsSeqTuples
<1>4. CASE RaiseError
  BY <1>1, <1>4, FailedHere
<1>5. CASE /\ CanClone(d) /\ data' = c.data /\ objs' = c.objs
           /\ frames' = [frames EXCEPT ![Len(frames)].vals = Append(Front(@), c.d), ![Len(frames)].at = Len(Top.vals)]
           /\ UNCHANGED <<stacks, ctl>>
  <2>1. Keeps(Here, Here') /\ c.d \in Handles(Here')
    BY <1>1, <1>2, <1>3, <1>5, ClonedHere
  <2> DEFINE v == Append(Front(Top.vals), c.d)
             g == [Top EXCEPT !.vals = v, !.at = Len(Top.vals)]
  <2>2. Top = frames[Len(frames)] /\ Len(frames) \in 1..Len(frames) /\ DOMAIN frames = 1..Len(frames)
    BY <1>1, <1>2, TopFacts, IsSeqFacts
  <2>3. frames' = [frames EXCEPT ![Len(frames)] = g]
    BY <1>5, <2>2
  <2>4. v \in Seq(Handles(Here'))
    <3> DEFINE H == Handles(Here')  e == c.d  w == Front(Top.vals)
    <3>1. w \in Seq(Handles(Here)) /\ Handles(Here) \subseteq H /\ e \in H
      BY <1>2, <1>3, <2>1, FrontFacts, KeepsFacts
    <3> HIDE DEF H, e, w
    <3>2. w \in Seq(H)
      BY <3>1, SeqMonotonic
    <3>3. Append(w, e) \in Seq(H)
      BY <3>1, <3>2, PushFacts
    <3> QED BY <3>3 DEF H, e, w
  <2> HIDE DEF v
  <2>5. g.node = Top.node /\ g.vals = v /\ g.phase = Top.phase /\ g.at = Len(Top.vals) /\ g.pending = Top.pending
    BY <1>2 DEF IsFrame, Fields
  <2> HIDE DEF g
  <2>6. FrameFits(Top, Here', N)
    BY <1>2, <2>1, FrameFitsKept
  <2>7. FrameFits(g, Here', N)
    BY <1>1, <1>2, <2>4, <2>5, <2>6 DEF FrameFits, Callers, Calls
  <2>8. g.node.kind \notin Answering
    BY <1>1, <2>5 DEF Answering, Callers, Calls
  <2> QED BY <1>1, <1>2, <1>5, <2>1, <2>3, <2>7, <2>8, StayFits DEF Steps
<1> QED BY <1>4, <1>5 DEF CloneElement

LEMMA ArraysStep ==
  ASSUME NEW N, Ready(N), EvalInlineArray \/ EvalArrayCall
  PROVE  Steps(N)
<1>1. frames # <<>>
  BY DEF EvalInlineArray, EvalArrayCall, Evaluated, InPhase, Running
<1>2. SoundHeap(Here) /\ Top.vals \in Seq(Handles(Here))
  BY <1>1, ReadyFacts
<1>3. CASE EvalInlineArray
  <2>1. ValueFits([Value("array", 0) EXCEPT !.elems = Top.vals], Handles(Here)) /\ TRUE \in BOOLEAN /\ FALSE \in BOOLEAN
    BY <1>2, ValuesFit
  <2> QED BY <1>1, <1>3, <2>1, EndedNew DEF EvalInlineArray
<1>4. CASE EvalArrayCall
  <2> DEFINE v == Val(Top.vals[1])  i == Val(Top.vals[2])
  <2>1. Top.vals[1] \in Handles(Here)
    <3>1. Evaluated({"Array_Call"})
      BY <1>4 DEF EvalArrayCall
    <3> QED BY <3>1, OperandsFit
  <2>2. v.elems \in Seq(Handles(Here))
    BY <1>2, <2>1, ValFits DEF Val, ValueFits
  <2>3. CASE i.v \in 0..Len(v.elems) - 1 /\ End(v.elems[i.v + 1]) /\ UNCHANGED Heap
    <3> DEFINE H == Handles(Here)  s == v.elems  k == i.v
    <3>1. s \in Seq(H) /\ k \in 0..Len(s) - 1
      BY <2>2, <2>3
    <3> HIDE DEF H, s, k
    <3>2. s[k + 1] \in H
      BY <3>1
    <3>3. v.elems[i.v + 1] \in Handles(Here)
      BY <3>2 DEF H, s, k
    <3> QED BY <1>1, <2>3, <3>3, EndedHere
  <2>4. CASE RaiseError
    BY <1>1, <2>4, FailedHere
  <2> QED BY <1>4, <2>3, <2>4 DEF EvalArrayCall
<1> QED BY <1>3, <1>4

(* Sequences and branches.                                                    *)
LEMMA SequencesStep ==
  ASSUME NEW N, Ready(N), EvalSequence \/ EvalCase
  PROVE  Steps(N)
<1>1. /\ frames # <<>> /\ UNCHANGED Heap
      /\ Top.node.kind \in {"Block", "Scopeless_Block", "File", "Case", "Default"}
  BY DEF EvalSequence, EvalCase, Running
<1>2. /\ StacksOK(stacks) /\ StacksFit(stacks, Handles(Here)) /\ FrameFits(Top, Here, N) /\ IsFrame(Top)
      /\ Len(Top.vals) \in Nat /\ VoidVar \in Handles(Here) /\ Top.node \in N /\ WellFormed(N)
      /\ \A i \in 1..Len(Top.vals) : Top.vals[i] \in Handles(Here)
  BY <1>1, ReadyFacts DEF Ready
<1>3. LeastChildren(Top.node.kind) = 1 /\ Top.node.kind \notin {"Ranged_For", "Switch"}
  BY <1>1 DEF LeastChildren
<1>4. Len(Top.node.children) \in Nat /\ Len(Top.node.children) >= 1
  BY <1>2, <1>3, Children
<1>5. FrameFits([Top EXCEPT !.scopes = 1], Here, N) /\ StacksFit(Scoped(<<>>), Handles(Here))
  BY <1>2, <1>3, PhaseFits, SmallScopes, ScopedFits
<1>6. Last(Top.node.children) \in N /\ Child(1) \in N
  <2>1. LeastChildren(Top.node.kind) >= 1 /\ 1 \in 1..LeastChildren(Top.node.kind)
    BY <1>3
  <2> QED BY <1>1, <2>1, LastOfTop, ChildOfTop
<1>7. CASE EvalSequence
  <2> DEFINE n == Len(Top.vals)
  <2>1. CASE Enter([Top EXCEPT !.scopes = 1], Child(1), Scoped(<<>>))
    BY <1>1, <1>5, <1>6, <2>1, EnteredHere
  <2>2. CASE n < Len(Top.node.children) /\ Enter(Top, Child(n + 1), stacks)
    <3>1. n + 1 \in 1..Len(Top.node.children)
      BY <1>2, <1>4, <2>2
    <3>2. Child(n + 1) \in N
      BY <1>1, <3>1, ChildOfTop
    <3> QED BY <1>1, <1>2, <2>2, <3>2, EnteredHere
  <2>3. CASE n = Len(Top.node.children) /\ End(Top.vals[n])
    <3>1. n \in 1..Len(Top.vals)
      BY <1>2, <1>4, <2>3
    <3>2. Top.vals[n] \in Handles(Here)
      BY <1>2, <3>1
    <3> QED BY <1>1, <2>3, <3>2, EndedHere
  <2> QED BY <1>7, <2>1, <2>2, <2>3 DEF EvalSequence
<1>8. CASE EvalCase
  <2>1. CASE Enter([Top EXCEPT !.scopes = 1], Last(Top.node.children), Scoped(<<>>))
    BY <1>1, <1>5, <1>6, <2>1, EnteredHere
  <2>2. CASE End(VoidVar)
    BY <1>1, <1>2, <2>2, EndedHere
  <2> QED BY <1>8, <2>1, <2>2 DEF EvalCase
<1> QED BY <1>7, <1>8

LEMMA IfStep ==
  ASSUME NEW N, Ready(N), EvalIf
  PROVE  Steps(N)
<1>1. frames # <<>> /\ Top.node.kind = "If"
  BY DEF EvalIf, Running
<1>2. /\ StacksFit(stacks, Handles(Here)) /\ FrameFits(Top, Here, N)
      /\ \A i \in 1..Len(Top.vals) : Top.vals[i] \in Handles(Here)
  BY <1>1, ReadyFacts
<1>3. Child(1) \in N /\ Child(2) \in N /\ Child(3) \in N
  <2>1. LeastChildren(Top.node.kind) = 3
    BY <1>1 DEF LeastChildren
  <2>2. 1 \in 1..LeastChildren(Top.node.kind) /\ 2 \in 1..LeastChildren(Top.node.kind) /\ 3 \in 1..LeastChildren(Top.node.kind)
    BY <2>1
  <2> QED BY <1>1, <2>2, ChildOfTop
<1>4. \/ UNCHANGED Heap /\ (Enter(Top, Child(1), stacks) \/ Enter(Top, Child(2), stacks) \/ Enter(Top, Child(3), stacks))
      \/ RaiseError
      \/ Len(Top.vals) = 2 /\ End(Top.vals[2]) /\ UNCHANGED Heap
  BY DEF EvalIf
<1>5. Len(Top.vals) = 2 => Top.vals[2] \in Handles(Here)
  <2>1. Len(Top.vals) = 2 => 2 \in 1..Len(Top.vals)
    OBVIOUS
  <2> QED BY <1>2, <2>1
<1> QED BY <1>1, <1>2, <1>3, <1>4, <1>5, EnteredHere, EndedHere, FailedHere
-----------------------------------------------------------------------------
(* Loops.                                                                    *)
LEMMA LoopsStep ==
  ASSUME NEW N, Ready(N), StartLoop \/ NextRound \/ Tested \/ BreakLoop \/ BreakRange \/ BreakSwitch
  PROVE  Steps(N)
<1>1. frames # <<>>
  BY DEF StartLoop, NextRound, Tested, BreakLoop, BreakRange, BreakSwitch, InPhase, Running, Thrown
<1>2. /\ StacksOK(stacks) /\ StacksFit(stacks, Handles(Here)) /\ FrameFits(Top, Here, N) /\ IsFrame(Top)
      /\ VoidVar \in Handles(Here)
  BY <1>1, ReadyFacts
<1>3. CASE BreakLoop \/ BreakRange \/ BreakSwitch
  <2>1. End(VoidVar) /\ UNCHANGED Heap
    BY <1>3 DEF BreakLoop, BreakRange, BreakSwitch
  <2> QED BY <1>1, <1>2, <2>1, EndedHere
<1>4. ASSUME Top.node.kind \in Loops
      PROVE  /\ \A p, k : FrameFits([Top EXCEPT !.phase = p, !.scopes = k], Here, N)
             /\ \A p : FrameFits([Top EXCEPT !.phase = p], Here, N)
             /\ Child(1) \in N /\ Child(2) \in N /\ (Top.node.kind = "For" => Child(3) \in N)
             /\ Last(Top.node.children) \in N
  <2>1. Top.node.kind \notin {"Ranged_For", "Switch"}
    BY <1>4 DEF Loops
  <2>2. LeastChildren(Top.node.kind) \in {2, 4} /\ (Top.node.kind = "For" => LeastChildren(Top.node.kind) = 4)
    BY <1>4 DEF Loops, LeastChildren
  <2> DEFINE least == LeastChildren(Top.node.kind)
  <2>3. 1 \in 1..least /\ 2 \in 1..least /\ (Top.node.kind = "For" => 3 \in 1..least) /\ least >= 1
    BY <2>2
  <2> QED BY <1>1, <1>2, <2>1, <2>3, PhaseFits, ChildOfTop, LastOfTop
<1>5. StacksFit(Scoped(<<>>), Handles(Here)) /\ ScopeFits(<<>>, Handles(Here))
  BY <1>2, SmallScopes, ScopedFits
<1>6. ASSUME Top.node.kind \in Loops, UNCHANGED Heap, NEW s, StacksFit(s, Handles(Here)), Test(s) PROVE Steps(N)
  <2> DEFINE n == Child(IF Top.node.kind = "For" THEN 2 ELSE 1)
  <2>1. Enter([Top EXCEPT !.phase = "test", !.scopes = 2], n, s)
    BY <1>6 DEF Test
  <2>2. n \in N
    BY <1>4, <1>6
  <2> HIDE DEF n
  <2> QED BY <1>1, <1>4, <1>6, <2>1, <2>2, EnteredHere
<1>7. CASE StartLoop
  <2>1. Top.node.kind \in Loops /\ UNCHANGED Heap
    BY <1>7 DEF StartLoop, InPhase, Running
  <2>2. CASE Enter([Top EXCEPT !.phase = "step", !.scopes = 1], Child(1), Scoped(<<>>))
    BY <1>1, <1>4, <1>5, <2>1, <2>2, EnteredHere
  <2>3. CASE Test(SetCurrent(Current \o <<<<>>, <<>>>>))
    <3> DEFINE t == Last(stacks)  u == Append(t, <<>>)  w == Append(u, <<>>)
    <3>1. StackFits(t, Handles(Here)) /\ IsSeq(t)
      BY <1>2, TopFits, StackFacts
    <3>2. StackFits(u, Handles(Here)) /\ IsSeq(u)
      BY <1>5, <3>1, PushScopeFits, IsSeqAppend
    <3>3. StackFits(w, Handles(Here))
      <4> HIDE DEF u
      <4> QED BY <1>5, <3>2, PushScopeFits
    <3>4. t \o <<<<>>, <<>>>> = w
      <4> DEFINE S == Range(t) \cup {<<>>}
      <4>1. t \in Seq(S) /\ <<>> \in S
        BY <3>1, IsSeqIn
      <4> HIDE DEF S, t
      <4> QED BY <4>1
    <3>5. SetCurrent(Current \o <<<<>>, <<>>>>) = [stacks EXCEPT ![Len(stacks)] = w]
      BY <3>4 DEF SetCurrent, Current
    <3> HIDE DEF w
    <3>6. StacksFit(SetCurrent(Current \o <<<<>>, <<>>>>), Handles(Here))
      BY <1>2, <3>3, <3>5, TopFits
    <3> QED BY <1>6, <2>1, <2>3, <3>6
  <2> QED BY <1>7, <2>2, <2>3 DEF StartLoop
<1>8. CASE NextRound
  <2>1. Top.node.kind \in Loops /\ UNCHANGED Heap
    BY <1>8 DEF NextRound, InPhase, Running
  <2>2. \/ Top.node.kind = "For" /\ Enter([Top EXCEPT !.phase = "step"], Child(3), stacks)
        \/ Test(Scoped(<<>>))
    BY <1>8 DEF NextRound
  <2> QED BY <1>1, <1>2, <1>4, <1>5, <1>6, <2>1, <2>2, EnteredHere
<1>9. CASE Tested
  <2>1. Top.node.kind \in Loops
    BY <1>9 DEF Tested, InPhase, Running
  <2>2. \/ UNCHANGED Heap /\ Enter([Top EXCEPT !.phase = "body", !.scopes = 1], Last(Top.node.children), SetCurrent(Unscoped(1)))
        \/ UNCHANGED Heap /\ End(VoidVar)
        \/ RaiseError
    BY <1>9 DEF Tested
  <2>3. StacksFit(SetCurrent(Unscoped(1)), Handles(Here))
    <3>1. 1 \in Nat /\ 1 <= Len(Last(stacks))
      BY <1>2, StacksFacts, StackFacts
    <3> QED BY <1>2, <3>1, UnscopedFits
  <2> QED BY <1>1, <1>2, <1>4, <2>1, <2>2, <2>3, EnteredHere, EndedHere, FailedHere
<1> QED BY <1>3, <1>7, <1>8, <1>9

(* A loop goes on where it is.                                                *)
LEMMA ContinueStep ==
  ASSUME NEW N, Ready(N), ContinueLoop
  PROVE  Steps(N)
<1>1. /\ frames # <<>> /\ UNCHANGED <<frames, stacks, Heap>> /\ ctl' = Run /\ Top.phase = "body"
      /\ Top.node.kind \in Loops \cup {"Ranged_For", "Compiled"}
  BY DEF ContinueLoop, Thrown
<1>2. StackInv /\ SoundHeap(Here) /\ Fit(N) /\ FrameFits(Top, Here, N) /\ VoidVar \in Handles(Here)
  BY <1>1, ReadyFacts
<1>3. Keeps(Here, Here') /\ ctl'.d \in Handles(Here')
  BY <1>1, <1>2, HeapStays, KeepsFacts DEF Run
<1>4. Top.node.kind \in Answering => Top.vals # <<>>
  BY <1>1, <1>2 DEF Answering, Loops, Callers, Calls, FrameFits
<1> QED BY <1>1, <1>2, <1>3, <1>4, SameFits DEF Steps

(* Ranges.                                                                    *)
LEMMA RangeStep ==
  ASSUME NEW N, Ready(N), EvalRange \/ NextElement
  PROVE  Steps(N)
<1>1. frames # <<>> /\ Top.node.kind = "Ranged_For"
  BY DEF EvalRange, NextElement, InPhase, Running
<1>2. /\ StackInv /\ SoundHeap(Here) /\ StacksOK(stacks) /\ StacksFit(stacks, Handles(Here)) /\ FrameFits(Top, Here, N) /\ IsFrame(Top)
      /\ VoidVar \in Handles(Here) /\ Len(Top.vals) \in Nat /\ Fit(N)
      /\ \A i \in 1..Len(Top.vals) : Top.vals[i] \in Handles(Here)
      /\ Top.vals # <<>> => Len(Top.vals) >= 1
  BY <1>1, ReadyFacts
<1>3. Child(2) \in N /\ Child(3) \in N
  <2>1. LeastChildren(Top.node.kind) = 3
    BY <1>1 DEF LeastChildren
  <2>2. 2 \in 1..LeastChildren(Top.node.kind) /\ 3 \in 1..LeastChildren(Top.node.kind)
    BY <2>1
  <2> QED BY <1>1, <2>2, ChildOfTop
<1>4. CASE EvalRange
  <2> DEFINE g == [Top EXCEPT !.phase = "range"]
  <2>1. Enter(g, Child(2), stacks) /\ UNCHANGED Heap
    BY <1>4 DEF EvalRange
  <2>2. Shows(g, Top, "range", Top.at, Top.pending)
    BY <1>2, FrameShows
  <2> HIDE DEF g
  <2>3. FrameFits(g, Here, N)
    BY <1>1, <1>2, <2>2 DEF FrameFits, Shows
  <2> QED BY <1>1, <1>2, <1>3, <2>1, <2>3, EnteredHere
<1>5. CASE NextElement
  <2> DEFINE elems == RangeOf.elems  k == Top.at
             scope == <<Binding(Child(1).text, elems[k + 1])>>
             s == SetCurrent(Append(Unscoped(Top.scopes), scope))
             g == [Top EXCEPT !.phase = "body", !.at = k + 1, !.scopes = 1]
  <2>1. /\ Top.phase # "start" /\ Running({"Ranged_For"})
        /\ \/ UNCHANGED Heap /\ k < Len(elems) /\ Enter(g, Child(3), s)
           \/ UNCHANGED Heap /\ End(VoidVar)
           \/ RaiseError
    BY <1>5 DEF NextElement, InPhase
  <2>2. Top.vals # <<>>
    BY <1>2, <2>1 DEF Fit, Answered, Answering, Running
  <2>3. Top.vals[1] \in Handles(Here)
    <3>1. 1 \in 1..Len(Top.vals)
      BY <1>2, <2>2
    <3> QED BY <1>2, <3>1
  <2>4. elems \in Seq(Handles(Here)) /\ k \in Nat
    BY <1>1, <1>2, <2>3, ValFits DEF RangeOf, Val, ValueFits, FrameFits
  <2>5. ASSUME k < Len(elems), UNCHANGED Heap, Enter(g, Child(3), s) PROVE Steps(N)
    <3>1. elems[k + 1] \in Handles(Here)
      <4> DEFINE H == Handles(Here)
      <4>1. elems \in Seq(H) /\ k \in Nat /\ k < Len(elems)
        BY <2>4, <2>5
      <4> HIDE DEF H, elems, k
      <4>2. elems[k + 1] \in H
        BY <4>1
      <4> QED BY <4>2 DEF H
    <3>2. ScopeFits(scope, Handles(Here))
      <4> HIDE DEF elems, k
      <4> QED BY <3>1, SmallScopes
    <3>3. Top.scopes \in Nat /\ Top.scopes <= Len(Last(stacks))
      <4>1. FrameOK(Top) /\ Owns(Top, stacks) /\ Top.scopes \in Nat
        BY <1>1, <1>2, TopFacts
      <4>2. ~Top.call
        BY <1>1, <4>1 DEF FrameOK, Callers, Calls
      <4>3. Top.scopes < Len(Last(stacks)) /\ Len(Last(stacks)) \in Nat
        BY <1>2, <4>1, <4>2, StacksFacts, StackFacts DEF Owns, Beneath
      <4> QED BY <4>1, <4>3
    <3>4. StacksFit(s, Handles(Here))
      <4> HIDE DEF scope
      <4> QED BY <1>2, <3>2, <3>3, UnscopedFits
    <3>5. Shows(g, Top, "body", k + 1, Top.pending)
      BY <1>2, FrameShows
    <3>6. k + 1 \in Nat
      BY <2>4
    <3> HIDE DEF g, s
    <3>7. FrameFits(g, Here, N)
      BY <1>1, <1>2, <2>2, <3>5, <3>6 DEF FrameFits, Shows, Callers, Calls
    <3> QED BY <1>1, <1>3, <2>5, <3>4, <3>7, EnteredHere
  <2> HIDE DEF g, s, elems, k
  <2> QED BY <1>1, <1>2, <2>1, <2>5, EndedHere, FailedHere
<1> QED BY <1>4, <1>5
-----------------------------------------------------------------------------
(* The variable of a compiled loop goes with the loop.                        *)
LEMMA FreedKeeps ==
  ASSUME NEW N, Ready(N), frames # <<>>, NEW k,
         \/ objs' = Freed
         \/ Top.node.kind = "Compiled" /\ objs' = [objs EXCEPT ![Top.at].v = k],
         UNCHANGED data
  PROVE  Keeps(Here, Here')
<1>1. SoundHeap(Here) /\ FrameFits(Top, Here, N) /\ Here.objs = objs
  BY ReadyFacts DEF Here
<1>2. CASE Top.node.kind = "Compiled"
  <2>1. Top.at \in 0..Len(objs) /\ Top.at \notin ConstObjects(Here)
    BY <1>1, <1>2 DEF FrameFits
  <2>2. \/ objs' = [objs EXCEPT ![Top.at].v = k]
        \/ objs' = [objs EXCEPT ![Top.at].v = Garbage]
        \/ objs' = objs
    BY DEF Freed
  <2> QED BY <1>1, <2>1, <2>2, FieldKeeps
<1>3. CASE Top.node.kind # "Compiled"
  <2>1. UNCHANGED Heap
    BY <1>3 DEF Freed, Heap
  <2> QED BY <1>1, <2>1, HeapStays
<1> QED BY <1>2, <1>3

(* The counting loop goes round or ends.                                      *)
LEMMA CountStep ==
  ASSUME NEW N, Ready(N), frames # <<>>, Top.node.kind = "Compiled", Keeps(Here, Here'),
         NEW counter, NEW s, StacksOK(s), Len(s) = Len(stacks), StacksFit(s, Handles(Here')),
         \A t : StackFits(t, Handles(Here')) => StacksFit(SetCurrent(t), Handles(Here')),
         NEW f, FrameFits([f EXCEPT !.phase = "body"], Here', N), CountOn(counter, s, f)
  PROVE  Steps(N)
<1>1. VoidVar \in Handles(Here') /\ StackInv /\ SoundHeap(Here) /\ Fit(N)
  BY ReadyFacts, KeepsFacts
<1>2. CASE Enter([f EXCEPT !.phase = "body"], Child(1), s)
  <2>1. 1 \in 1..LeastChildren(Top.node.kind)
    BY DEF LeastChildren
  <2>2. Child(1) \in N
    BY <2>1, ChildOfTop
  <2> QED BY <1>2, <2>2, Entered
<1>3. CASE Return(VoidVar, SetCurrent(SubSeq(Last(s), 1, Len(Last(s)) - 1)))
  <2> DEFINE t == SubSeq(Last(s), 1, Len(Last(s)) - 1)
  <2>1. StackFits(Last(s), Handles(Here')) /\ IsSeq(Last(s)) /\ 1 \in Nat /\ 1 <= Len(Last(s))
    BY TopFits, StackFacts
  <2>2. StackFits(t, Handles(Here'))
    BY <2>1, PopScopesFit
  <2> HIDE DEF t
  <2>3. StacksFit(SetCurrent(t), Handles(Here'))
    BY <2>2
  <2> QED BY <1>1, <1>3, <2>3, ReturnFits DEF Steps, t
<1> QED BY <1>2, <1>3 DEF CountOn

LEMMA CountingStep ==
  ASSUME NEW N, Ready(N), StartCounting \/ NextCount \/ BreakCount
  PROVE  Steps(N)
<1>1. frames # <<>> /\ Top.node.kind = "Compiled"
  BY DEF StartCounting, NextCount, BreakCount, InPhase, Running, Thrown
<1>2. /\ SoundHeap(Here) /\ StacksOK(stacks) /\ StackInv /\ Fit(N) /\ FrameFits(Top, Here, N) /\ IsFrame(Top)
      /\ StacksFit(stacks, Handles(Here)) /\ VoidVar \in Handles(Here)
  BY <1>1, ReadyFacts
<1>3. ASSUME Keeps(Here, Here')
      PROVE  /\ StacksFit(stacks, Handles(Here'))
             /\ \A t : StackFits(t, Handles(Here')) => StacksFit(SetCurrent(t), Handles(Here'))
  <2>1. StacksFit(stacks, Handles(Here'))
    BY <1>2, <1>3, OuterFit
  <2> QED BY <1>2, <2>1, TopFits DEF SetCurrent
<1>4. CASE StartCounting
  <2> DEFINE from == Top.node.from  d == Len(data) + 1  o == Len(objs) + 1
             b == <<Binding(Top.node.id, d)>>  s == Scoped(b)
             f == [Top EXCEPT !.at = o, !.scopes = 1]  g == [f EXCEPT !.phase = "body"]
  <2>1. NewData(Value("int", from), FALSE, FALSE) /\ CountOn(from, s, f)
    BY <1>4 DEF StartCounting
  <2>2. ValueFits(Value("int", from), Handles(Here)) /\ FALSE \in BOOLEAN
    <3>1. "int" # "object"
      OBVIOUS
    <3> QED BY <3>1, ValuesFit
  <2>3. /\ Keeps(Here, Here') /\ d \in Handles(Here') /\ o \in 1..Len(objs') /\ ~(o \in ConstObjects(Here'))
    BY <1>2, <2>1, <2>2, NewDataKeeps
  <2>4. ScopeFits(b, Handles(Here')) /\ IsSeq(b)
    BY <2>3, SmallScopes, IsSeqTuples
  <2>5. StacksFit(s, Handles(Here')) /\ Len(s) = Len(stacks)
    <3> HIDE DEF b
    <3> QED BY <1>2, <1>3, <2>3, <2>4, ScopedFits
  <2>6. StacksOK(s)
    <3>1. StacksOK([stacks EXCEPT ![Len(stacks)] = Append(Last(stacks), b)])
      <4> HIDE DEF b
      <4> QED BY <1>2, <2>4, PopNothing, PushScope
    <3> QED BY <3>1 DEF Scoped, SetCurrent, Current
  <2>7. Shows(g, Top, "body", o, Top.pending)
    BY <1>2, FrameShows
  <2>8. FrameFits(g, Here', N)
    <3>1. FrameFits(Top, Here', N)
      BY <1>2, <2>3, FrameFitsKept
    <3>2. o \in 0..Len(Here'.objs)
      BY <2>3 DEF Here
    <3> HIDE DEF g, o
    <3> QED BY <1>1, <2>3, <2>7, <3>1, <3>2 DEF FrameFits, Shows, Callers, Calls
  <2> HIDE DEF f, s, from, b
  <2> QED BY <1>1, <1>3, <2>1, <2>3, <2>5, <2>6, <2>8, CountStep
<1>5. CASE NextCount
  <2> DEFINE next == objs[Top.at].v + 1
  <2>1. Keeps(Here, Here')
    <3>1. objs' = Freed \/ objs' = [objs EXCEPT ![Top.at].v = next]
      BY <1>5 DEF NextCount
    <3>2. UNCHANGED data
      BY <1>5 DEF NextCount
    <3> HIDE DEF next
    <3> QED BY <1>1, <3>1, <3>2, FreedKeeps
  <2>2. CountOn(next, stacks, Top)
    BY <1>5 DEF NextCount
  <2>3. FrameFits([Top EXCEPT !.phase = "body"], Here', N)
    <3>1. FrameFits(Top, Here', N)
      BY <1>2, <2>1, FrameFitsKept
    <3> QED BY <1>1, <1>2, <3>1, PhaseFits
  <2> HIDE DEF next
  <2> QED BY <1>1, <1>2, <1>3, <2>1, <2>2, <2>3, CountStep
<1>6. CASE BreakCount
  <2>1. End(VoidVar) /\ objs' = Freed /\ UNCHANGED data
    BY <1>6 DEF BreakCount
  <2>2. Keeps(Here, Here')
    BY <1>1, <2>1, FreedKeeps
  <2>3. VoidVar \in Handles(Here')
    BY <1>2, <2>2, KeepsFacts
  <2> QED BY <1>1, <2>1, <2>2, <2>3, Ended
<1> QED BY <1>4, <1>5, <1>6

(* A switch.                                                                  *)
LEMMA SwitchStep ==
  ASSUME NEW N, Ready(N), StartSwitch \/ NextCase \/ TestCase
  PROVE  Steps(N)
<1>1. frames # <<>> /\ Top.node.kind = "Switch"
  BY DEF StartSwitch, NextCase, TestCase, InPhase, Running
<1>2. /\ SoundHeap(Here) /\ StacksOK(stacks) /\ StackInv /\ Fit(N) /\ FrameFits(Top, Here, N) /\ IsFrame(Top)
      /\ StacksFit(stacks, Handles(Here)) /\ VoidVar \in Handles(Here) /\ WellFormed(N) /\ Top.node \in N
  BY <1>1, ReadyFacts DEF Ready
<1>3. Len(Top.node.children) \in Nat /\ Len(Top.node.children) >= 1 /\ Child(1) \in N
  <2>1. LeastChildren(Top.node.kind) = 1 /\ 1 \in 1..1
    BY <1>1 DEF LeastChildren
  <2> QED BY <1>1, <1>2, <2>1, Children, ChildOfTop
<1>4. \A a \in Nat : \A p, k : (p \notin {"guard", "matched guard"} \/ a \in 1..Len(Top.node.children)) =>
        /\ FrameFits([Top EXCEPT !.phase = p, !.at = a], Here, N)
        /\ FrameFits([Top EXCEPT !.phase = p, !.at = a, !.scopes = k], Here, N)
  <2> SUFFICES ASSUME NEW a \in Nat, NEW p, NEW k, NEW g, Shows(g, Top, p, a, Top.pending),
                      p \notin {"guard", "matched guard"} \/ a \in 1..Len(Top.node.children)
               PROVE  FrameFits(g, Here, N)
    BY <1>2, FrameShows
  <2> QED BY <1>1, <1>2 DEF FrameFits, Shows, Callers, Calls
<1>5. Top.at \in Nat
  BY <1>1, <1>2 DEF FrameFits
<1>6. CASE StartSwitch
  <2>1. FrameFits([Top EXCEPT !.phase = "open", !.at = 1, !.scopes = 1], Here, N)
    BY <1>4
  <2>2. StacksFit(Scoped(<<>>), Handles(Here))
    BY <1>2, SmallScopes, ScopedFits
  <2> QED BY <1>1, <1>3, <1>6, <2>1, <2>2, EnteredHere DEF StartSwitch
<1>7. CASE NextCase
  <2> DEFINE k == Top.at + 1
             guard == IF Top.phase = "open" THEN "guard" ELSE "matched guard"
  <2>1. UNCHANGED Heap /\ k \in Nat /\ k >= 1
    BY <1>5, <1>7 DEF NextCase
  <2>2. CASE /\ k <= Len(Top.node.children) /\ Child(k).kind = "Case"
             /\ Enter([Top EXCEPT !.phase = guard, !.at = k], Child(k).children[1], stacks)
    <3>1. k \in 1..Len(Top.node.children)
      BY <1>3, <2>1, <2>2
    <3>2. Child(k) \in N
      BY <1>1, <3>1, ChildOfTop
    <3>3. Child(k).children[1] \in N
      <4> DEFINE n == Child(k)
      <4>1. n \in N /\ LeastChildren(n.kind) = 1
        BY <2>2, <3>2 DEF LeastChildren
      <4> HIDE DEF n
      <4>2. n.children[1] \in N
        <5>1. Len(n.children) \in Nat /\ Len(n.children) >= 1 /\ \A i \in 1..Len(n.children) : n.children[i] \in N
          BY <1>2, <4>1, Children
        <5>2. 1 \in 1..Len(n.children)
          BY <5>1
        <5> QED BY <5>1, <5>2
      <4> QED BY <4>2 DEF n
    <3>4. FrameFits([Top EXCEPT !.phase = guard, !.at = k], Here, N)
      <4> HIDE DEF guard, k
      <4> QED BY <1>4, <2>1, <3>1
    <3> QED BY <1>1, <1>2, <2>1, <2>2, <3>3, <3>4, EnteredHere
  <2>3. CASE k <= Len(Top.node.children) /\ Enter([Top EXCEPT !.phase = "matched", !.at = k], Child(k), stacks)
    <3>1. k \in 1..Len(Top.node.children)
      BY <1>3, <2>1, <2>3
    <3>2. Child(k) \in N
      BY <1>1, <3>1, ChildOfTop
    <3>3. FrameFits([Top EXCEPT !.phase = "matched", !.at = k], Here, N)
      <4> HIDE DEF k
      <4> QED BY <1>4, <2>1
    <3> QED BY <1>1, <1>2, <2>1, <2>3, <3>2, <3>3, EnteredHere
  <2>4. CASE End(VoidVar)
    BY <1>1, <1>2, <2>1, <2>4, EndedHere
  <2> QED BY <1>7, <2>2, <2>3, <2>4 DEF NextCase
<1>8. CASE TestCase
  <2> DEFINE open == [Top EXCEPT !.phase = "open"]  matched == [Top EXCEPT !.phase = "matched"]
  <2>1. Shows(open, Top, "open", Top.at, Top.pending) /\ Shows(matched, Top, "matched", Top.at, Top.pending)
    BY <1>2, FrameShows
  <2>2. FrameFits(open, Here, N) /\ FrameFits(matched, Here, N) /\ open.node = Top.node
    <3> HIDE DEF open, matched
    <3> QED BY <1>1, <1>2, <2>1 DEF FrameFits, Shows, Callers, Calls
  <2>3. CASE RaiseError
    BY <1>1, <2>3, FailedHere
  <2>4. CASE Enter(matched, Child(Top.at), stacks) /\ UNCHANGED Heap
    <3>1. Top.at \in 1..Len(Top.node.children)
      BY <1>1, <1>2, <1>8 DEF FrameFits, TestCase, InPhase
    <3>2. Child(Top.at) \in N
      BY <1>1, <3>1, ChildOfTop
    <3> QED BY <1>1, <1>2, <2>2, <2>4, <3>2, EnteredHere
  <2>5. CASE UNCHANGED <<stacks, ctl, Heap>> /\ frames' = [frames EXCEPT ![Len(frames)].phase = "open"]
    <3>1. Top = frames[Len(frames)] /\ Len(frames) \in 1..Len(frames) /\ DOMAIN frames = 1..Len(frames)
      BY <1>1, <1>2, TopFacts, IsSeqFacts
    <3>2. frames' = [frames EXCEPT ![Len(frames)] = open]
      BY <2>5, <3>1
    <3>3. Keeps(Here, Here')
      BY <1>2, <2>5, HeapStays
    <3> HIDE DEF open
    <3>4. FrameFits(open, Here', N) /\ open.node.kind \notin Answering
      BY <1>1, <1>2, <2>2, <3>3, FrameFitsKept DEF Answering, Callers, Calls
    <3> QED BY <1>1, <1>2, <2>5, <3>2, <3>3, <3>4, StayFits DEF Steps
  <2> QED BY <1>8, <2>3, <2>4, <2>5 DEF TestCase
<1> QED BY <1>6, <1>7, <1>8
-----------------------------------------------------------------------------
(* The scope a function's call begins with.                                   *)
LEMMA ThisFits ==
  ASSUME NEW s, StacksOK(s), NEW H, StacksFit(s, H), NEW args \in Seq(H)
  PROVE  ScopeFits(This(s, args), H)
<1> DEFINE scope == Last(Last(s))
<1>1. ScopeFits(scope, H) /\ IsSeq(scope)
  BY TopFits
<1>2. scope # <<>> => Last(scope).data \in H
  <2> HIDE DEF scope
  <2> SUFFICES ASSUME scope # <<>> PROVE Last(scope).data \in H
    OBVIOUS
  <2>1. Len(scope) \in Nat /\ Len(scope) # 0
    BY <1>1, IsSeqFacts
  <2>2. Len(scope) \in 1..Len(scope)
    BY <2>1
  <2> QED BY <1>1, <2>2 DEF ScopeFits, Last
<1>3. args # <<>> => args[1] \in H
  <2> SUFFICES ASSUME args # <<>> PROVE args[1] \in H
    OBVIOUS
  <2>1. 1 \in 1..Len(args)
    OBVIOUS
  <2> QED BY <2>1
<1>4. \/ This(s, args) = <<>>
      \/ scope # <<>> /\ This(s, args) = <<Binding("this", Last(scope).data)>>
      \/ args # <<>> /\ This(s, args) = <<Binding("this", args[1])>>
  BY DEF This
<1> HIDE DEF scope
<1> QED BY <1>2, <1>3, <1>4, SmallScopes

LEMMA BindingsFit ==
  ASSUME NEW names, NEW H, NEW ds \in Seq(H)
  PROVE  IsSeq(Bindings(names, ds)) /\ ScopeFits(Bindings(names, ds), H)
<1>1. IsSeq(ds) /\ IsSeq(Bindings(names, ds))
  BY SeqIsSeq, BindingsFacts
<1>2. Bindings(names, ds) = [i \in 1..Len(ds) |-> Binding(names[i], ds[i])] /\ Len(ds) \in Nat
  BY DEF Bindings
<1> DEFINE b == Bindings(names, ds)
<1> HIDE DEF b
<1>3. DOMAIN b = 1..Len(b) /\ DOMAIN b = 1..Len(ds)
  BY <1>1, <1>2, IsSeqFacts DEF b
<1>4. \A i \in 1..Len(b) : i \in 1..Len(ds) /\ b[i].data = ds[i]
  BY <1>2, <1>3 DEF b, Binding
<1>5. ScopeFits(b, H)
  BY <1>4 DEF ScopeFits
<1> QED BY <1>1, <1>5 DEF b

LEMMA ConcatFits ==
  ASSUME NEW a, IsSeq(a), NEW b, IsSeq(b), NEW H, ScopeFits(a, H), ScopeFits(b, H)
  PROVE  IsSeq(a \o b) /\ ScopeFits(a \o b, H)
<1> DEFINE S == Range(a) \cup Range(b)
<1>1. a \in Seq(S) /\ b \in Seq(S) /\ IsSeq(a \o b)
  BY IsSeqIn, IsSeqConcat
<1> HIDE DEF S
<1>2. \A k \in 1..Len(a \o b) : \/ k \in 1..Len(a) /\ (a \o b)[k] = a[k]
                                \/ k - Len(a) \in 1..Len(b) /\ (a \o b)[k] = b[k - Len(a)]
  BY <1>1
<1> QED BY <1>1, <1>2 DEF ScopeFits

(* A function's body is entered.                                              *)
LEMMA CallFits ==
  ASSUME NEW N, Ready(N), frames # <<>>, Top.node.kind \in Callers, Keeps(Here, Here'),
         NEW g, NEW a \in 0..Len(data'), Shows(g, Top, "body", a, Top.pending),
         NEW body \in N, NEW s, IsSeq(s), StacksFit(s, Handles(Here')), NEW scope, ScopeFits(scope, Handles(Here')),
         Enter(g, body, Append(s, <<scope>>))
  PROVE  Steps(N)
<1>1. SoundHeap(Here) /\ FrameFits(Top, Here, N)
  BY ReadyFacts
<1>2. FrameFits(Top, Here', N) /\ Here'.data = data'
  BY <1>1, FrameFitsKept DEF Here
<1>3. FrameFits(g, Here', N)
  BY <1>2 DEF FrameFits, Shows, Callers, Calls
<1>4. StacksFit(Append(s, <<scope>>), Handles(Here'))
  BY PushStackFits
<1> QED BY <1>3, <1>4, Entered

LEMMA CalledFits ==
  ASSUME NEW N, Ready(N), frames # <<>>, Top.node.kind \in Callers, Keeps(Here, Here'),
         NEW f, NEW a \in 0..Len(data'), f = Top \/ f = [Top EXCEPT !.at = a],
         NEW body \in N, NEW scope, ScopeFits(scope, Handles(Here')), EvalFunction(f, body, stacks, scope)
  PROVE  Steps(N)
<1> DEFINE g == [f EXCEPT !.phase = "body", !.call = TRUE]
<1>1. /\ IsFrame(Top) /\ SoundHeap(Here) /\ FrameFits(Top, Here, N) /\ StacksOK(stacks)
      /\ StacksFit(stacks, Handles(Here)) /\ Here.data = data /\ Here'.data = data'
  BY ReadyFacts DEF Here
<1>2. Top.at \in 0..Len(data')
  <2>1. Top.at \in 0..Len(data) /\ 0..Len(data) \subseteq 0..Len(data')
    BY <1>1, KeepsFacts DEF FrameFits
  <2> QED BY <2>1
<1>3. PICK b \in 0..Len(data') : Shows(g, Top, "body", b, Top.pending)
  BY <1>1, <1>2, FrameShows
<1>4. Enter(g, body, Append(stacks, <<scope>>))
  BY DEF EvalFunction
<1>5. IsSeq(stacks) /\ StacksFit(stacks, Handles(Here'))
  BY <1>1, KeepsFacts, StacksFacts, StacksFitMore
<1> HIDE DEF g
<1> QED BY <1>3, <1>4, <1>5, CallFits

(* The same with a scope on the caller's stack that tells the object.         *)
LEMMA FoistedFits ==
  ASSUME NEW N, Ready(N), frames # <<>>, Top.node.kind \in Callers, Keeps(Here, Here'),
         NEW foisted, IsSeq(foisted), ScopeFits(foisted, Handles(Here)),
         NEW body \in N, NEW scope, ScopeFits(scope, Handles(Here')),
         EvalFunction([Top EXCEPT !.scopes = 1], body, Scoped(foisted), scope)
  PROVE  Steps(N)
<1> DEFINE g == [[Top EXCEPT !.scopes = 1] EXCEPT !.phase = "body", !.call = TRUE]
<1>1. /\ IsFrame(Top) /\ SoundHeap(Here) /\ FrameFits(Top, Here, N) /\ StacksOK(stacks)
      /\ StacksFit(stacks, Handles(Here)) /\ Here.data = data /\ Here'.data = data'
  BY ReadyFacts DEF Here
<1>2. Top.at \in 0..Len(data')
  <2>1. Top.at \in 0..Len(data) /\ 0..Len(data) \subseteq 0..Len(data')
    BY <1>1, KeepsFacts DEF FrameFits
  <2> QED BY <2>1
<1>3. Shows(g, Top, "body", Top.at, Top.pending)
  BY <1>1, FrameShows
<1>4. Enter(g, body, Append(Scoped(foisted), <<scope>>))
  BY DEF EvalFunction
<1>5. StacksFit(Scoped(foisted), Handles(Here'))
  BY <1>1, KeepsFacts, ScopedFits, StacksFitMore
<1>6. IsSeq(Scoped(foisted))
  <2>1. StacksOK([stacks EXCEPT ![Len(stacks)] = Append(Last(stacks), foisted)])
    BY <1>1, PopNothing, PushScope
  <2>2. StacksOK(Scoped(foisted))
    BY <2>1 DEF Scoped, SetCurrent, Current
  <2> QED BY <2>2, StacksFacts
<1> HIDE DEF g
<1> QED BY <1>2, <1>3, <1>4, <1>5, <1>6, CallFits
-----------------------------------------------------------------------------
(* A lambda's body and the scope it begins with.                              *)
LEMMA ClosureFits ==
  ASSUME NEW N, Ready(N), NEW H, Handles(Here) \subseteq H, NEW frame, NEW args \in Seq(H),
         NEW v, NEW i \in Callees(v, args), NEW s, StacksOK(s), StacksFit(s, H), InvokeClosure(frame, i, args, s)
  PROVE  \E body \in N : \E scope : ScopeFits(scope, H) /\ EvalFunction(frame, body, s, scope)
<1> DEFINE fun == lambdas[i].node
           names == [k \in DOMAIN fun.children |-> fun.children[k].text]
           this == IF \E k \in DOMAIN names : names[k] = "this" THEN <<>> ELSE This(s, args)
           captured == Bindings(names, lambdas[i].captured)
           params == Bindings(fun.params, args)
<1>1. WellFormed(N) /\ LambdasFit(N) /\ LambdasOK
  BY DEF Ready, HeapInv
<1>2. i \in 1..Len(lambdas)
  BY <1>1, IsSeqFacts DEF LambdasOK, Callees
<1>3. fun \in N /\ fun.kind = "Lambda" /\ lambdas[i].captured \in Seq(Handles(Here))
  BY <1>1, <1>2 DEF LambdasFit
<1>4. fun.body \in N
  <2> HIDE DEF fun
  <2>1. fun.kind \in Defining
    BY <1>3 DEF Defining
  <2> QED BY <1>1, <1>3, <2>1, Children
<1>5. lambdas[i].captured \in Seq(H)
  BY <1>3, SeqMonotonic
<1>6. IsSeq(captured) /\ ScopeFits(captured, H) /\ IsSeq(params) /\ ScopeFits(params, H)
  BY <1>5, BindingsFit
<1>7. IsSeq(this) /\ ScopeFits(this, H)
  BY ThisFacts, ThisFits, IsSeqTuples, SmallScopes
<1>8. EvalFunction(frame, fun.body, s, this \o captured \o params)
  BY DEF InvokeClosure
<1> HIDE DEF this, captured, params, fun
<1>9. ScopeFits(this \o captured \o params, H)
  BY <1>6, <1>7, ConcatFits
<1> QED BY <1>4, <1>8, <1>9

(* A function of the script is called.                                       *)
LEMMA InvokeStep ==
  ASSUME NEW N, Ready(N), frames # <<>>, Top.node.kind \in Callers,
         NEW name, NEW f \in Taking(name, Top.vals), Invoke(f, Top.vals)
  PROVE  Steps(N)
<1> DEFINE made == Len(data) + 1
           all == IF f.kind = "constructor" THEN <<made>> \o Top.vals ELSE Top.vals
           given == IF f.kind = "constructor" \/ f.kind = "method" THEN Tail(all) ELSE all
           scope == This(stacks, all) \o Bindings(f.params, given)
           a == IF f.kind = "constructor" THEN made ELSE 0
           g == [Top EXCEPT !.at = a]
           H == Handles(Here')
<1>1. /\ SoundHeap(Here) /\ StacksOK(stacks) /\ StacksFit(stacks, Handles(Here)) /\ Top.vals \in Seq(Handles(Here))
      /\ Here.data = data /\ Here'.data = data'
  BY ReadyFacts DEF Here
<1>2. Keeps(Here, Here') /\ (f.kind = "constructor" => made \in H)
  <2>1. CASE f.kind = "constructor" /\ NewData(Object(f.class), FALSE, TRUE)
    <3>1. ValueFits(Object(f.class), Handles(Here)) /\ FALSE \in BOOLEAN /\ TRUE \in BOOLEAN
      BY ValuesFit
    <3> QED BY <1>1, <2>1, <3>1, NewDataKeeps
  <2>2. CASE f.kind # "constructor" /\ UNCHANGED Heap
    BY <1>1, <2>2, HeapStays
  <2> QED BY <2>1, <2>2 DEF Invoke
<1>3. Handles(Here) \subseteq H /\ 1 \in H /\ SoundHeap(Here') /\ Len(data') \in Nat /\ H = 1..Len(data')
  BY <1>1, <1>2, KeepsFacts, HeapFacts DEF Handles
<1>4. a \in 0..Len(data')
  BY <1>2, <1>3
<1>5. EvalFunction(g, f.body, stacks, scope)
  BY DEF Invoke
<1> HIDE DEF H
<1>6. StacksFit(stacks, H) /\ Top.vals \in Seq(H)
  BY <1>1, <1>3, StacksFitMore, SeqMonotonic
<1>7. all \in Seq(H) /\ (f.kind = "constructor" \/ f.kind = "method" => all # <<>>)
  <2>1. CASE f.kind = "constructor"
    <3> HIDE DEF made
    <3> DEFINE vals == Top.vals
    <3>1. vals \in Seq(H) /\ made \in H
      BY <1>2, <1>6, <2>1
    <3> HIDE DEF vals
    <3>2. <<made>> \o vals \in Seq(H) /\ Len(<<made>> \o vals) = 1 + Len(vals) /\ Len(vals) \in Nat
      BY <3>1
    <3>3. Len(<<made>> \o vals) # 0 /\ IsSeq(<<made>> \o vals)
      <4>1. IsSeq(<<made>> \o vals)
        BY <3>2, SeqIsSeq
      <4>2. Len(<<made>> \o vals) # 0
        BY <3>2
      <4> QED BY <4>1, <4>2
    <3>4. <<made>> \o vals # <<>>
      BY <3>3, IsSeqFacts
    <3> QED BY <2>1, <3>2, <3>4 DEF vals
  <2>2. CASE f.kind # "constructor"
    BY <1>6, <2>2 DEF Taking, Takes
  <2> QED BY <2>1, <2>2
<1> HIDE DEF all
<1>8. given \in Seq(H)
  BY <1>7
<1> HIDE DEF given
<1>9. ScopeFits(scope, H)
  <2>1. IsSeq(This(stacks, all)) /\ ScopeFits(This(stacks, all), H)
    BY <1>1, <1>6, <1>7, ThisFacts, ThisFits
  <2>2. IsSeq(Bindings(f.params, given)) /\ ScopeFits(Bindings(f.params, given), H)
    BY <1>8, BindingsFit
  <2> QED BY <2>1, <2>2, ConcatFits
<1>10. f.body \in N
  BY DEF Ready, HeapInv, FunsFit, Taking
<1> HIDE DEF scope, a
<1>11. g = [Top EXCEPT !.at = a]
  OBVIOUS
<1> HIDE DEF g
<1> QED BY <1>2, <1>4, <1>5, <1>9, <1>10, <1>11, CalledFits DEF H

(* An attribute is read.                                                     *)
LEMMA AttrStep ==
  ASSUME NEW N, Ready(N), frames # <<>>, NEW o \in Handles(Here), Val(o).type = "object", NEW name
  PROVE  LET a == GetAttr(o, name) IN
         /\ SoundHeap(a) /\ Keeps(Here, a) /\ a.d \in Handles(a)
         /\ (data' = a.data /\ objs' = a.objs => Keeps(Here, Here') /\ Handles(Here') = Handles(a))
<1> DEFINE a == GetAttr(o, name)
<1>1. SoundHeap(Here) /\ Keeps(Here, a) /\ a.d \in Handles(a)
  BY ReadyFacts, GetAttrKeeps
<1> HIDE DEF a
<1>2. SoundHeap(a)
  BY <1>1, KeepsFacts
<1>3. ASSUME data' = a.data, objs' = a.objs
      PROVE  Keeps(Here, Here') /\ Handles(Here') = Handles(a)
  <2>1. Here'.data = a.data /\ Here'.objs = a.objs
    BY <1>3 DEF Here
  <2>2. Keeps(Here, Here')
    BY <1>1, <2>1, KeepsSame
  <2> QED BY <2>1, <2>2 DEF Handles
<1> QED BY <1>1, <1>2, <1>3 DEF a

LEMMA ReadAttrStep ==
  ASSUME NEW N, Ready(N), frames # <<>>, NEW name, NEW f \in Taking(name, Top.vals), ReadAttr(f, Top.vals)
  PROVE  Steps(N)
<1>1. f.kind = "attribute" /\ Top.vals # <<>> /\ Val(Top.vals[1]).type = "object"
  BY DEF ReadAttr, Taking, Takes, IsOf
<1>2. Top.vals[1] \in Handles(Here)
  <2>1. Len(Top.vals) \in Nat /\ Len(Top.vals) >= 1 /\ \A i \in 1..Len(Top.vals) : Top.vals[i] \in Handles(Here)
    BY <1>1, ReadyFacts
  <2>2. 1 \in 1..Len(Top.vals)
    BY <2>1
  <2> QED BY <2>1, <2>2
<1> DEFINE a == GetAttr(Top.vals[1], f.name)
<1>3. data' = a.data /\ objs' = a.objs /\ End(a.d)
  BY DEF ReadAttr
<1>4. Keeps(Here, Here') /\ a.d \in Handles(Here')
  BY <1>1, <1>2, <1>3, AttrStep
<1> HIDE DEF a
<1> QED BY <1>3, <1>4, Ended
-----------------------------------------------------------------------------
(* The arguments of a call.                                                  *)
LEMMA ArgumentsFit ==
  ASSUME NEW N, Ready(N), frames # <<>>
  PROVE  /\ Top.vals # <<>> => Receiver \in Handles(Here)
         /\ Arguments \in Seq(Handles(Here))
         /\ \A i \in 1..Len(Arguments) : Arguments[i] \in Handles(Here)
<1> DEFINE v == Top.vals  H == Handles(Here)
<1>1. v \in Seq(H)
  BY ReadyFacts
<1> HIDE DEF v, H
<1>2. v # <<>> => v[1] \in H
  <2> SUFFICES ASSUME v # <<>> PROVE v[1] \in H
    OBVIOUS
  <2>1. 1 \in 1..Len(v)
    BY <1>1
  <2> QED BY <1>1, <2>1
<1>3. SubSeq(v, 2, Len(v)) \in Seq(H)
  BY <1>1
<1>4. \A i \in 1..Len(SubSeq(v, 2, Len(v))) : SubSeq(v, 2, Len(v))[i] \in H
  BY <1>3
<1> QED BY <1>2, <1>3, <1>4 DEF v, H, Receiver, Arguments

(* Calls by name,                                                            *)
LEMMA CallFunctionStep ==
  ASSUME NEW N, Ready(N), CallFunction \/ CallMethod
  PROVE  Steps(N)
<1>1. frames # <<>> /\ Top.node.kind \in Callers
  BY DEF CallFunction, CallMethod, CalledByName, AtMember, Evaluated, InPhase, Running, Callers, Calls
<1>2. \E name : \E f \in Taking(name, Top.vals) : Invoke(f, Top.vals) \/ ReadAttr(f, Top.vals)
  BY DEF CallFunction, CallMethod
<1> SUFFICES ASSUME NEW name, NEW f \in Taking(name, Top.vals), Invoke(f, Top.vals) \/ ReadAttr(f, Top.vals)
             PROVE  Steps(N)
  BY <1>2
<1> QED BY <1>1, InvokeStep, ReadAttrStep

(* of what a variable holds,                                                 *)
LEMMA CallVariableStep ==
  ASSUME NEW N, Ready(N), CallVariable
  PROVE  Steps(N)
<1>1. frames # <<>> /\ Top.node.kind \in Callers
  BY DEF CallVariable, Evaluated, InPhase, Running, Callers, Calls
<1>2. ASSUME NEW v, NEW i \in Callees(v, Top.vals), InvokeClosure(Top, i, Top.vals, stacks), UNCHANGED Heap
      PROVE  Steps(N)
  <2>1. /\ SoundHeap(Here) /\ StacksOK(stacks) /\ StacksFit(stacks, Handles(Here)) /\ Top.vals \in Seq(Handles(Here))
        /\ Here'.data = data'
    BY <1>1, ReadyFacts DEF Here
  <2>2. Keeps(Here, Here')
    BY <1>2, <2>1, HeapStays
  <2>3. Handles(Here) \subseteq Handles(Here') /\ SoundHeap(Here') /\ 0 \in 0..Len(data')
    <3>1. Handles(Here) \subseteq Handles(Here') /\ SoundHeap(Here')
      BY <2>1, <2>2, KeepsFacts
    <3>2. Len(data') \in Nat
      BY <2>1, <3>1, HeapFacts
    <3> QED BY <3>1, <3>2
  <2>4. StacksFit(stacks, Handles(Here')) /\ Top.vals \in Seq(Handles(Here'))
    BY <2>1, <2>3, StacksFitMore, SeqMonotonic
  <2>5. \E body \in N : \E scope : ScopeFits(scope, Handles(Here')) /\ EvalFunction(Top, body, stacks, scope)
    BY <1>2, <2>1, <2>3, <2>4, ClosureFits
  <2> QED BY <1>1, <2>2, <2>3, <2>5, CalledFits
<1>3. CASE RaiseError
  BY <1>1, <1>3, FailedHere
<1> QED BY <1>2, <1>3 DEF CallVariable

(* of what an attribute holds,                                               *)
LEMMA AttributeStep ==
  ASSUME NEW N, Ready(N), AtMember, Top.vals # <<>>, Val(Receiver).type = "object",
         CallAttribute(GetAttr(Receiver, MemberName))
  PROVE  Steps(N)
<1>1. frames # <<>> /\ Top.node.kind \in Callers
  BY DEF AtMember, Evaluated, InPhase, Running, Callers, Calls
<1> DEFINE attribute == GetAttr(Receiver, MemberName)
           foisted == <<Binding("__this", Receiver)>>
           goes == data' = attribute.data /\ objs' = attribute.objs
<1>2. Receiver \in Handles(Here) /\ Arguments \in Seq(Handles(Here))
  BY <1>1, ArgumentsFit
<1>3. /\ SoundHeap(attribute) /\ Keeps(Here, attribute)
      /\ (goes => Keeps(Here, Here') /\ attribute.d \in Handles(Here'))
  BY <1>1, <1>2, AttrStep
<1>4. CASE goes /\ End(attribute.d)
  <2> HIDE DEF attribute
  <2> QED BY <1>1, <1>3, <1>4, Ended
<1>5. ASSUME goes, NEW v, NEW i \in Callees(v, Arguments),
             InvokeClosure([Top EXCEPT !.scopes = 1], i, Arguments, Scoped(foisted))
      PROVE  Steps(N)
  <2>1. /\ SoundHeap(Here) /\ StacksOK(stacks) /\ StacksFit(stacks, Handles(Here)) /\ Keeps(Here, Here')
    BY <1>1, <1>3, <1>5, ReadyFacts
  <2>2. Handles(Here) \subseteq Handles(Here')
    BY <2>1, KeepsFacts
  <2>3. IsSeq(foisted) /\ ScopeFits(foisted, Handles(Here))
    BY <1>2, IsSeqTuples, SmallScopes
  <2> HIDE DEF foisted, attribute
  <2>4. StacksFit(Scoped(foisted), Handles(Here')) /\ Arguments \in Seq(Handles(Here'))
    BY <1>2, <2>1, <2>2, <2>3, ScopedFits, StacksFitMore, SeqMonotonic
  <2>5. StacksOK(Scoped(foisted))
    <3>1. StacksOK([stacks EXCEPT ![Len(stacks)] = Append(Last(stacks), foisted)])
      BY <2>1, <2>3, PopNothing, PushScope
    <3> QED BY <3>1 DEF Scoped, SetCurrent, Current
  <2> DEFINE s == Scoped(foisted)  f == [Top EXCEPT !.scopes = 1]
  <2>6. InvokeClosure(f, i, Arguments, s)
    BY <1>5
  <2> HIDE DEF s, f
  <2>7. \E body \in N : \E scope : ScopeFits(scope, Handles(Here')) /\ EvalFunction(f, body, s, scope)
    BY <1>5, <2>2, <2>4, <2>5, <2>6, ClosureFits DEF s
  <2> QED BY <1>1, <2>1, <2>3, <2>7, FoistedFits DEF s, f
<1>6. CASE RaiseErrorIn(attribute)
  <2> HIDE DEF attribute
  <2> QED BY <1>1, <1>3, <1>6, Failed
<1> QED BY <1>4, <1>5, <1>6 DEF CallAttribute

(* A member's object.                                                        *)
LEMMA MemberFits ==
  ASSUME NEW N, Ready(N), AtMember
  PROVE  /\ frames # <<>> /\ Top.node.kind \in Callers /\ Top.vals # <<>>
         /\ Receiver \in Handles(Here) /\ Arguments \in Seq(Handles(Here))
<1>1. /\ frames # <<>> /\ Top.node.kind = "Dot_Access" /\ Top.node.kind \in Callers
      /\ Len(Top.vals) = Len(Top.node.children)
  BY DEF AtMember, Evaluated, InPhase, Running, Operands, Callers, Calls
<1>2. Len(Top.node.children) >= 1
  <2>1. LeastChildren(Top.node.kind) = 1
    BY <1>1 DEF LeastChildren
  <2>2. Top.node \in N /\ WellFormed(N)
    BY <1>1, ReadyFacts DEF Ready
  <2> QED BY <2>1, <2>2, Children
<1>3. Top.vals # <<>>
  BY <1>1, <1>2, IsSeqTuples
<1> QED BY <1>1, <1>3, ArgumentsFit

(* of a member,                                                              *)
LEMMA DeclaredAttributeStep ==
  ASSUME NEW N, Ready(N), CallDeclaredAttribute
  PROVE  Steps(N)
<1>1. AtMember /\ CallAttribute(GetAttr(Receiver, MemberName)) /\ Val(Receiver).type = "object"
  BY DEF CallDeclaredAttribute, IsAttributeCall, IsOf
<1>2. Top.vals # <<>>
  BY <1>1, MemberFits
<1> QED BY <1>1, <1>2, AttributeStep
-----------------------------------------------------------------------------
LEMMA MissingStep ==
  ASSUME NEW N, Ready(N), CallMissing
  PROVE  Steps(N)
<1>1. AtMember
  BY DEF CallMissing
<1>2. /\ frames # <<>> /\ Top.vals # <<>> /\ Receiver \in Handles(Here) /\ SoundHeap(Here)
      /\ Here.data = data /\ Here.objs = objs
  BY <1>1, MemberFits, ReadyFacts DEF Here
<1>3. ASSUME Val(Receiver).type = "object", NEW k, End(VoidVar), UNCHANGED data,
             objs' = [objs EXCEPT ![data[Receiver].obj].explicit = k]
      PROVE  Steps(N)
  <2> DEFINE o == data[Receiver].obj
  <2>1. o \in 1..Len(objs) /\ objs[o].type = "object"
    BY <1>2, <1>3, ValFits DEF Val
  <2>2. o \notin ConstObjects(Here)
    BY <1>2, <2>1 DEF ConstObjects, Shared
  <2>3. o \in 0..Len(objs)
    BY <2>1
  <2> HIDE DEF o
  <2>4. Keeps(Here, Here')
    <3>1. objs' = [objs EXCEPT ![o].explicit = k]
      BY <1>3 DEF o
    <3> QED BY <1>2, <1>3, <2>2, <2>3, <3>1, FieldKeeps
  <2>5. VoidVar \in Handles(Here')
    BY <1>2, <2>4, ReadyFacts, KeepsFacts
  <2> QED BY <1>2, <1>3, <2>4, <2>5, Ended
<1>4. CASE Val(Receiver).type = "object" /\ CallAttribute(GetAttr(Receiver, MemberName))
  BY <1>1, <1>2, <1>4, AttributeStep
<1>5. CASE RaiseError
  BY <1>2, <1>5, FailedHere
<1> QED BY <1>3, <1>4, <1>5 DEF CallMissing

(* and of the method for those that are missing.                             *)
LEMMA TwoAppended ==
  ASSUME NEW s, IsSeq(s), NEW a, NEW b
  PROVE  s \o <<a, b>> = Append(Append(s, a), b)
<1> DEFINE S == Range(s) \cup {a, b}
<1>1. s \in Seq(S) /\ a \in S /\ b \in S
  BY IsSeqIn
<1> HIDE DEF S
<1> QED BY <1>1

LEMMA NewPlainKeeps ==
  ASSUME NEW h, SoundHeap(h), NEW v, ValueFits(v, Handles(h)),
         NEW a, a.data = Append(h.data, NewBox(Len(h.objs) + 1, FALSE, FALSE)), a.objs = Append(h.objs, v)
  PROVE  /\ Keeps(h, a) /\ Len(h.data) + 1 \in Handles(a)
         /\ Len(a.data) = Len(h.data) + 1 /\ Len(a.objs) = Len(h.objs) + 1
<1>1. \A const, temp \in BOOLEAN :
        a.data = Append(h.data, NewBox(Len(h.objs) + 1, const, temp)) =>
          /\ Keeps(h, a) /\ Len(h.data) + 1 \in Handles(a)
          /\ Len(a.data) = Len(h.data) + 1 /\ Len(a.objs) = Len(h.objs) + 1
  BY NewValueKeeps
<1> QED BY <1>1, Zenon

LEMMA TwoValuesKeep ==
  ASSUME NEW h, SoundHeap(h), NEW v, ValueFits(v, Handles(h)), NEW w, ValueFits(w, Handles(h)),
         NEW g, g.data = Append(h.data, NewBox(Len(h.objs) + 1, FALSE, FALSE)), g.objs = Append(h.objs, v),
         NEW c, c.data = Append(g.data, NewBox(Len(h.objs) + 2, FALSE, FALSE)), c.objs = Append(g.objs, w)
  PROVE  Keeps(h, c) /\ Len(h.data) + 1 \in Handles(c) /\ Len(h.data) + 2 \in Handles(c)
<1>1. Len(h.data) \in Nat /\ Len(h.objs) \in Nat
  BY HeapFacts
<1>2. Keeps(h, g) /\ Len(h.data) + 1 \in Handles(g) /\ Len(g.data) = Len(h.data) + 1 /\ Len(g.objs) = Len(h.objs) + 1
  BY NewPlainKeeps
<1>3. SoundHeap(g) /\ ValueFits(w, Handles(g))
  BY <1>2, KeepsFacts, FitsMore
<1>4. c.data = Append(g.data, NewBox(Len(g.objs) + 1, FALSE, FALSE))
  <2>1. Len(g.objs) + 1 = Len(h.objs) + 2
    BY <1>1, <1>2
  <2> QED BY <2>1
<1>5. Keeps(g, c) /\ Len(g.data) + 1 \in Handles(c)
  BY <1>3, <1>4, NewPlainKeeps
<1>6. Keeps(h, c) /\ Handles(g) \subseteq Handles(c)
  BY <1>2, <1>3, <1>5, KeepsTransitive, KeepsFacts
<1>7. Len(g.data) + 1 = Len(h.data) + 2
  BY <1>1, <1>2
<1> QED BY <1>2, <1>5, <1>6, <1>7

LEMMA MethodMissingStep ==
  ASSUME NEW N, Ready(N), CallMethodMissing
  PROVE  Steps(N)
<1>1. AtMember
  BY DEF CallMethodMissing
<1>2. /\ frames # <<>> /\ Top.node.kind \in Callers /\ Arguments \in Seq(Handles(Here)) /\ SoundHeap(Here)
      /\ StacksOK(stacks) /\ StacksFit(stacks, Handles(Here)) /\ Top.vals \in Seq(Handles(Here))
      /\ Here.data = data /\ Here.objs = objs /\ Here'.data = data' /\ Here'.objs = objs'
  BY <1>1, MemberFits, ReadyFacts DEF Here
<1> DEFINE name == Len(data) + 1  arguments == Len(data) + 2
           box(i) == [obj |-> Len(objs) + i, const |-> FALSE, temp |-> FALSE]
           text == Value("string", 0)  vector == [Value("array", 0) EXCEPT !.elems = Arguments]
           H == Handles(Here')
<1>3. PICK f \in Taking("method_missing", <<Receiver, VoidVar, VoidVar>>) :
        /\ data' = data \o <<box(1), box(2)>> /\ objs' = objs \o <<text, vector>>
        /\ EvalFunction(Top, f.body, stacks, This(stacks, Top.vals) \o Bindings(f.params, <<name, arguments>>))
  BY DEF CallMethodMissing
<1>4. f.body \in N
  BY <1>3 DEF Ready, HeapInv, FunsFit, Taking
<1>5. Keeps(Here, Here') /\ name \in H /\ arguments \in H /\ Len(data') \in Nat
  <2> DEFINE a == box(1)  b == box(2)  g == [data |-> Append(data, a), objs |-> Append(objs, text)]
  <2>1. a = NewBox(Len(objs) + 1, FALSE, FALSE) /\ b = NewBox(Len(objs) + 2, FALSE, FALSE)
    BY DEF NewBox
  <2>2. ValueFits(text, Handles(Here))
    <3>1. "string" # "object"
      OBVIOUS
    <3> QED BY <3>1, ValuesFit
  <2>3. ValueFits(vector, Handles(Here))
    BY <1>2, ValuesFit
  <2>4. g.data = Append(data, a) /\ g.objs = Append(objs, text)
    OBVIOUS
  <2>5. data' = data \o <<a, b>> /\ objs' = objs \o <<text, vector>>
    BY <1>3
  <2> HIDE DEF a, b, g, text, vector
  <2>6. data \o <<a, b>> = Append(Append(data, a), b) /\ objs \o <<text, vector>> = Append(Append(objs, text), vector)
    <3>1. IsSeq(data) /\ IsSeq(objs)
      BY <1>2, HeapFacts
    <3>2. data \o <<a, b>> = Append(Append(data, a), b)
      BY <3>1, TwoAppended
    <3>3. objs \o <<text, vector>> = Append(Append(objs, text), vector)
      BY <3>1, TwoAppended
    <3> QED BY <3>2, <3>3
  <2>7. /\ g.data = Append(Here.data, NewBox(Len(Here.objs) + 1, FALSE, FALSE)) /\ g.objs = Append(Here.objs, text)
        /\ Here'.data = Append(g.data, NewBox(Len(Here.objs) + 2, FALSE, FALSE)) /\ Here'.objs = Append(g.objs, vector)
    BY <1>2, <2>1, <2>4, <2>5, <2>6
  <2>8. Keeps(Here, Here') /\ Len(Here.data) + 1 \in Handles(Here') /\ Len(Here.data) + 2 \in Handles(Here')
    BY <1>2, <2>2, <2>3, <2>7, TwoValuesKeep
  <2>9. SoundHeap(Here')
    BY <1>2, <2>8, KeepsFacts
  <2>10. Len(data') \in Nat
    BY <1>2, <2>9, HeapFacts
  <2> QED BY <1>2, <2>8, <2>10
<1> HIDE DEF name, arguments, H
<1>6. Handles(Here) \subseteq H
  BY <1>2, <1>5, KeepsFacts DEF H
<1>7. <<name, arguments>> \in Seq(H)
  BY <1>5
<1>8. StacksFit(stacks, H) /\ Top.vals \in Seq(H)
  BY <1>2, <1>6, StacksFitMore, SeqMonotonic
<1> DEFINE ds == <<name, arguments>>
<1>9. ds \in Seq(H) /\ EvalFunction(Top, f.body, stacks, This(stacks, Top.vals) \o Bindings(f.params, ds))
  BY <1>3, <1>7
<1> HIDE DEF ds
<1> DEFINE scope == This(stacks, Top.vals) \o Bindings(f.params, ds)
<1>10. ScopeFits(scope, H)
  <2>1. IsSeq(This(stacks, Top.vals)) /\ ScopeFits(This(stacks, Top.vals), H)
    BY <1>2, <1>8, ThisFacts, ThisFits
  <2>2. IsSeq(Bindings(f.params, ds)) /\ ScopeFits(Bindings(f.params, ds), H)
    BY <1>9, BindingsFit
  <2> QED BY <2>1, <2>2, ConcatFits
<1>11. 0 \in 0..Len(data')
  BY <1>5
<1>12. EvalFunction(Top, f.body, stacks, scope)
  BY <1>9
<1> HIDE DEF scope
<1> QED BY <1>2, <1>4, <1>5, <1>10, <1>11, <1>12, CalledFits DEF H

(* The host's functions.                                                     *)
LEMMA HostStep ==
  ASSUME NEW N, Ready(N), CallHost \/ CallUnknown
  PROVE  Steps(N)
<1>1. frames # <<>>
  BY DEF CallHost, CallUnknown, CalledByName, Evaluated, InPhase, Running
<1>2. /\ SoundHeap(Here) /\ VoidVar \in Handles(Here)
      /\ \A i \in 1..Len(Top.vals) : Top.vals[i] \in Handles(Here)
  BY <1>1, ReadyFacts
<1> DEFINE d == Top.vals[1]
<1>3. CASE CallHost
  <2>1. d \in Handles(Here)
    <3>1. 1 \in 1..Len(Top.vals)
      BY <1>3 DEF CallHost, TakesHost
    <3> QED BY <1>2, <3>1
  <2>2. CASE End(VoidVar) /\ UNCHANGED Heap
    BY <1>1, <1>2, <2>2, EndedHere
  <2>3. CASE Raise("throw", d) /\ UNCHANGED Heap
    <3>1. Keeps(Here, Here') /\ "throw" # "run"
      BY <1>2, <2>3, HeapStays
    <3>2. d \in Handles(Here')
      BY <1>2, <2>1, <3>1, KeepsFacts
    <3> HIDE DEF d
    <3> QED BY <1>1, <2>3, <3>1, <3>2, Raised
  <2>4. CASE EndNew(Val(d), FALSE, TRUE)
    <3>1. ValueFits(Val(d), Handles(Here)) /\ FALSE \in BOOLEAN /\ TRUE \in BOOLEAN
      BY <1>2, <2>1, ValFits DEF Val
    <3> HIDE DEF d
    <3> QED BY <1>1, <2>4, <3>1, EndedNew
  <2>5. CASE RaiseError
    BY <1>1, <2>5, FailedHere
  <2> QED BY <1>3, <2>2, <2>3, <2>4, <2>5 DEF CallHost
<1>4. CASE CallUnknown
  BY <1>1, <1>4, FailedHere DEF CallUnknown
<1> QED BY <1>3, <1>4

(* A call is over.                                                           *)
LEMMA FinishStep ==
  ASSUME NEW N, Ready(N), FinishCall \/ CatchReturn
  PROVE  Steps(N)
<1>1. frames # <<>> /\ Top.node.kind \in Callers /\ UNCHANGED Heap
  BY DEF FinishCall, CatchReturn, InPhase, Running, Thrown
<1>2. FrameFits(Top, Here, N) /\ ctl.d \in Handles(Here) /\ Handles(Here) = 1..Len(data) /\ Answered
  BY <1>1, ReadyFacts DEF Fit, Here, Handles
<1>3. Top.at \in 0..Len(data)
  BY <1>1, <1>2 DEF FrameFits, Here
<1>4. Top.at # 0 => Top.at \in Handles(Here)
  BY <1>2, <1>3
<1>5. CASE FinishCall
  <2>1. Top.vals # <<>>
    <3>1. Running(Answering) /\ Top.phase # "start"
      BY <1>5 DEF FinishCall, InPhase, Running, Answering
    <3> QED BY <1>2, <3>1 DEF Answered
  <2>2. Last(Top.vals) \in Handles(Here)
    BY <1>1, <2>1, ReadyFacts
  <2> QED BY <1>1, <1>4, <1>5, <2>2, EndedHere DEF FinishCall
<1>6. CASE CatchReturn
  BY <1>1, <1>2, <1>4, <1>6, EndedHere DEF CatchReturn
<1> QED BY <1>5, <1>6
-----------------------------------------------------------------------------
(* Definitions.                                                              *)
LEMMA DefStep ==
  ASSUME NEW N, Ready(N), EvalDef
  PROVE  Steps(N) /\ FunsFit(N)'
<1>1. frames # <<>> /\ Top.node.kind \in {"Def", "Method", "Attr_Decl"}
  BY DEF EvalDef, Running
<1>2. Top.node \in N /\ VoidVar \in Handles(Here) /\ WellFormed(N) /\ FunsFit(N)
  BY <1>1, ReadyFacts DEF Ready, HeapInv
<1>3. Top.node.body \in N
  <2>1. Top.node.kind \in Defining
    BY <1>1 DEF Defining
  <2> QED BY <1>2, <2>1, Children
<1>4. Defined(Top.node).body \in N
  BY <1>3 DEF Defined
<1>5. CASE funs' = funs \cup {Defined(Top.node)} /\ End(VoidVar) /\ UNCHANGED Heap
  <2>1. FunsFit(N)'
    BY <1>2, <1>4, <1>5 DEF FunsFit
  <2> QED BY <1>1, <1>2, <1>5, <2>1, EndedHere
<1>6. CASE RaiseError /\ UNCHANGED funs
  BY <1>1, <1>2, <1>6, FailedHere DEF FunsFit
<1> QED BY <1>5, <1>6 DEF EvalDef

LEMMA LambdaStep ==
  ASSUME NEW N, Ready(N), EvalLambda
  PROVE  Steps(N) /\ LambdasFit(N)'
<1> DEFINE l == [node |-> Top.node, captured |-> Top.vals]
<1>1. /\ frames # <<>> /\ Top.node.kind = "Lambda"
      /\ lambdas' = Append(lambdas, l) /\ EndNew(Closure(Len(lambdas) + 1), FALSE, FALSE)
  BY DEF EvalLambda, Evaluated, InPhase, Running
<1>2. Top.node \in N /\ Top.vals \in Seq(Handles(Here)) /\ SoundHeap(Here) /\ IsSeq(lambdas)
  BY <1>1, ReadyFacts DEF LambdasOK
<1>3. Steps(N)
  <2>1. ValueFits(Closure(Len(lambdas) + 1), Handles(Here)) /\ FALSE \in BOOLEAN
    <3>1. "fun" # "object"
      OBVIOUS
    <3> QED BY <3>1, ValuesFit DEF Closure
  <2> QED BY <1>1, <2>1, EndedNew
<1>4. Handles(Here) \subseteq Handles(Here')
  BY <1>2, <1>3, KeepsFacts DEF Steps
<1>5. l.node = Top.node /\ l.captured = Top.vals
  OBVIOUS
<1> HIDE DEF l
<1>6. /\ Len(lambdas') = Len(lambdas) + 1 /\ Len(lambdas) \in Nat /\ lambdas'[Len(lambdas) + 1] = l
      /\ \A i \in 1..Len(lambdas) : lambdas'[i] = lambdas[i]
  BY <1>1, <1>2, IsSeqAppend, IsSeqFacts
<1>7. LambdasFit(N)'
  <2> SUFFICES ASSUME NEW i \in 1..Len(lambdas')
               PROVE  /\ lambdas'[i].node \in N /\ lambdas'[i].node.kind = "Lambda"
                      /\ lambdas'[i].captured \in Seq(Handles(Here'))
    BY DEF LambdasFit
  <2>1. CASE i \in 1..Len(lambdas)
    <3>1. /\ lambdas[i].node \in N /\ lambdas[i].node.kind = "Lambda" /\ lambdas[i].captured \in Seq(Handles(Here))
      BY <2>1 DEF Ready, HeapInv, LambdasFit
    <3> QED BY <1>4, <1>6, <2>1, <3>1, SeqMonotonic
  <2>2. CASE i = Len(lambdas) + 1
    BY <1>1, <1>2, <1>4, <1>5, <1>6, <2>2, SeqMonotonic
  <2> QED BY <1>6, <2>1, <2>2
<1> QED BY <1>3, <1>7

LEMMA ClassStep ==
  ASSUME NEW N, Ready(N), EvalClass
  PROVE  Steps(N)
<1>1. frames # <<>> /\ Top.node.kind = "Class"
  BY DEF EvalClass, Running
<1>2. /\ SoundHeap(Here) /\ StacksOK(stacks) /\ StacksFit(stacks, Handles(Here)) /\ FrameFits(Top, Here, N)
      /\ IsFrame(Top) /\ VoidVar \in Handles(Here)
  BY <1>1, ReadyFacts
<1> DEFINE d == Len(data) + 1  b == <<Binding("_current_class_name", d)>>  f == [Top EXCEPT !.scopes = 1]
<1>3. CASE NewData(Value("string", 0), TRUE, FALSE) /\ Enter(f, Child(1), Scoped(b))
  <2>1. ValueFits(Value("string", 0), Handles(Here)) /\ TRUE \in BOOLEAN /\ FALSE \in BOOLEAN
    <3>1. "string" # "object"
      OBVIOUS
    <3> QED BY <3>1, ValuesFit
  <2>2. Keeps(Here, Here') /\ d \in Handles(Here')
    BY <1>2, <1>3, <2>1, NewDataKeeps
  <2>3. ScopeFits(b, Handles(Here'))
    BY <2>2, SmallScopes
  <2>4. StacksFit(Scoped(b), Handles(Here'))
    <3> HIDE DEF b
    <3>1. StacksFit(stacks, Handles(Here'))
      BY <1>2, <2>2, KeepsFacts, StacksFitMore
    <3> QED BY <1>2, <2>3, <3>1, ScopedFits
  <2>5. FrameFits(f, Here', N)
    <3>1. FrameFits(Top, Here', N) /\ Top.node.kind \notin {"Ranged_For", "Switch"}
      BY <1>1, <1>2, <2>2, FrameFitsKept
    <3> QED BY <1>2, <3>1, PhaseFits
  <2>6. Child(1) \in N
    <3>1. LeastChildren(Top.node.kind) = 1 /\ 1 \in 1..1
      BY <1>1 DEF LeastChildren
    <3> QED BY <1>1, <3>1, ChildOfTop
  <2> HIDE DEF f, b
  <2> QED BY <1>1, <1>3, <2>2, <2>4, <2>5, <2>6, Entered
<1>4. CASE End(VoidVar) /\ UNCHANGED Heap
  BY <1>1, <1>2, <1>4, EndedHere
<1> QED BY <1>3, <1>4 DEF EvalClass
-----------------------------------------------------------------------------
(* try.                                                                      *)
LEMMA TryFacts ==
  ASSUME NEW N, Ready(N), frames # <<>>, Top.node.kind = "Try"
  PROVE  /\ SoundHeap(Here) /\ StacksOK(stacks) /\ StacksFit(stacks, Handles(Here)) /\ FrameFits(Top, Here, N)
         /\ IsFrame(Top) /\ ctl.d \in Handles(Here) /\ VoidVar \in Handles(Here)
         /\ Child(1) \in N /\ Last(Top.node.children) \in N
         /\ Top.node.kind \notin {"Ranged_For", "Switch"} /\ Top.node.kind \in Answering
         /\ \A n \in N : n.kind \in {"Catch", "Finally"} => n.children[1] \in N
<1>1. LeastChildren(Top.node.kind) = 1 /\ 1 \in 1..1 /\ 1 >= 1
  BY DEF LeastChildren
<1>2. Child(1) \in N /\ Last(Top.node.children) \in N
  BY <1>1, ChildOfTop, LastOfTop
<1>3. ASSUME NEW n \in N, n.kind \in {"Catch", "Finally"}
      PROVE  n.children[1] \in N
  <2>1. LeastChildren(n.kind) = 1
    BY <1>3 DEF LeastChildren
  <2>2. Len(n.children) \in Nat /\ Len(n.children) >= 1 /\ \A i \in 1..Len(n.children) : n.children[i] \in N
    BY <2>1, Children DEF Ready
  <2>3. 1 \in 1..Len(n.children)
    BY <2>2
  <2> QED BY <2>2, <2>3
<1> QED BY <1>2, <1>3, ReadyFacts DEF Answering

(* Its finally.                                                              *)
LEMMA FinallyFits ==
  ASSUME NEW N, Ready(N), frames # <<>>, Top.node.kind = "Try", Top.phase \in {"try", "handler"}, HasFinally,
         Keeps(Here, Here'), NEW again, again.d \in Handles(Here'), Finally(again)
  PROVE  Steps(N)
<1> DEFINE g == [Top EXCEPT !.phase = "finally", !.scopes = 1, !.pending = again]  k == Top.scopes - 1
           s == SetCurrent(Unscoped(k))
<1>1. /\ SoundHeap(Here) /\ StacksOK(stacks) /\ StacksFit(stacks, Handles(Here)) /\ FrameFits(Top, Here, N)
      /\ IsFrame(Top) /\ Last(Top.node.children).children[1] \in N
  BY TryFacts DEF HasFinally
<1>2. Enter(g, Last(Top.node.children).children[1], s)
  BY DEF Finally
<1>3. Shows(g, Top, "finally", Top.at, again)
  BY <1>1, FrameShows
<1>4. FrameFits(g, Here', N)
  <2>1. FrameFits(Top, Here', N)
    BY <1>1, FrameFitsKept
  <2> HIDE DEF g
  <2> QED BY <1>3, <2>1 DEF FrameFits, Shows, Callers, Calls
<1>5. StacksFit(s, Handles(Here'))
  <2>1. StackInv
    BY DEF Ready
  <2>2. Top.scopes = 1 \/ Top.scopes = 2
    BY <2>1, TopPhase
  <2>3. Len(Last(stacks)) \in Nat /\ Len(Last(stacks)) >= 1
    BY <1>1, TopFits, StackFacts
  <2>4. k \in Nat /\ k <= Len(Last(stacks))
    BY <2>2, <2>3
  <2> HIDE DEF k
  <2>5. StacksFit(stacks, Handles(Here'))
    BY <1>1, KeepsFacts, StacksFitMore
  <2> QED BY <1>1, <2>4, <2>5, UnscopedFits
<1> HIDE DEF g, s
<1> QED BY <1>1, <1>2, <1>4, <1>5, Entered

(* What its last child returned.                                             *)
LEMMA TryAnswers ==
  ASSUME NEW N, Ready(N), frames # <<>>, Top.node.kind = "Try", ctl.kind = "run", Top.phase # "start"
  PROVE  Top.vals # <<>> /\ Last(Top.vals) \in Handles(Here)
<1>1. Top.node.kind \in Answering /\ Answered
  BY TryFacts, ReadyFacts DEF Fit
<1>2. Top.vals # <<>>
  BY <1>1 DEF Answered, Running
<1> QED BY <1>2, ReadyFacts

LEMMA TryStep ==
  ASSUME NEW N, Ready(N), StartTry \/ LeaveTry \/ JumpOutOfTry \/ LeaveFinally
  PROVE  Steps(N)
<1>1. frames # <<>> /\ Top.node.kind = "Try" /\ UNCHANGED Heap
  BY DEF StartTry, LeaveTry, JumpOutOfTry, LeaveFinally, InPhase, Running, Thrown
<1>2. /\ SoundHeap(Here) /\ StacksOK(stacks) /\ StacksFit(stacks, Handles(Here)) /\ FrameFits(Top, Here, N)
      /\ IsFrame(Top) /\ ctl.d \in Handles(Here) /\ VoidVar \in Handles(Here)
      /\ Child(1) \in N /\ Top.node.kind \notin {"Ranged_For", "Switch"}
  BY <1>1, TryFacts
<1>3. Keeps(Here, Here') /\ Handles(Here) \subseteq Handles(Here')
  BY <1>1, <1>2, HeapStays, KeepsFacts
<1>4. CASE StartTry
  <2>1. FrameFits([Top EXCEPT !.phase = "try", !.scopes = 1], Here, N)
    BY <1>2, PhaseFits
  <2>2. StacksFit(Scoped(<<>>), Handles(Here))
    BY <1>2, SmallScopes, ScopedFits
  <2> QED BY <1>1, <1>2, <1>4, <2>1, <2>2, EnteredHere DEF StartTry
<1>5. CASE LeaveTry
  <2>1. Top.phase \in {"try", "handler"} /\ ctl.kind = "run"
    BY <1>5 DEF LeaveTry, InPhase, Running
  <2>2. CASE HasFinally /\ Finally(Run)
    <3>1. Run.d \in Handles(Here')
      BY <1>2, <1>3 DEF Run
    <3> QED BY <1>1, <1>3, <2>1, <2>2, <3>1, FinallyFits
  <2>3. CASE End(Last(Top.vals))
    <3>1. Last(Top.vals) \in Handles(Here)
      BY <1>1, <2>1, TryAnswers
    <3> QED BY <1>1, <2>3, <3>1, EndedHere
  <2> QED BY <1>5, <2>2, <2>3 DEF LeaveTry
<1>6. CASE JumpOutOfTry
  <2>1. ctl.d \in Handles(Here')
    BY <1>2, <1>3
  <2>2. Top.phase \in {"try", "handler"} /\ HasFinally /\ Finally(ctl)
    BY <1>6 DEF JumpOutOfTry
  <2> QED BY <1>1, <1>3, <2>1, <2>2, FinallyFits
<1>7. CASE LeaveFinally
  <2>1. Top.vals # <<>> /\ Last(Top.vals) \in Handles(Here)
    <3>1. ctl.kind = "run" /\ Top.phase # "start"
      BY <1>7 DEF LeaveFinally, InPhase, Running
    <3> QED BY <1>1, <3>1, TryAnswers
  <2>2. CASE End(Last(Top.vals))
    BY <1>1, <2>1, <2>2, EndedHere
  <2>3. CASE ctl' = Top.pending /\ UNCHANGED <<frames, stacks>>
    <3>1. ctl'.d \in Handles(Here')
      BY <1>2, <1>3, <2>3 DEF FrameFits
    <3>2. StackInv /\ SoundHeap(Here) /\ Fit(N)
      BY <1>1, ReadyFacts
    <3>3. Fit(N)'
      BY <1>1, <1>3, <2>1, <2>3, <3>1, <3>2, SameFits
    <3> QED BY <1>3, <3>3 DEF Steps
  <2> QED BY <1>7, <2>2, <2>3 DEF LeaveFinally
<1> QED BY <1>4, <1>5, <1>6, <1>7

(* A handler runs, or none does.                                             *)
LEMMA HandleStep ==
  ASSUME NEW N, Ready(N), Handle
  PROVE  Steps(N)
<1>1. frames # <<>> /\ Top.node.kind = "Try" /\ UNCHANGED Heap /\ Handlers # {}
  BY DEF Handle, Thrown
<1>2. /\ SoundHeap(Here) /\ StacksOK(stacks) /\ StacksFit(stacks, Handles(Here)) /\ FrameFits(Top, Here, N)
      /\ IsFrame(Top) /\ ctl.d \in Handles(Here) /\ Top.node.kind \notin {"Ranged_For", "Switch"} /\ Top.node \in N
      /\ \A n \in N : n.kind \in {"Catch", "Finally"} => n.children[1] \in N
  BY <1>1, TryFacts, ReadyFacts
<1> DEFINE i == CHOOSE i \in Handlers : \A j \in Handlers : i <= j
           c == Child(i)
           scope == IF c.catches = <<>> THEN <<>> ELSE <<Binding(c.catches[1], ctl.d)>>
           f == [Top EXCEPT !.phase = "handler", !.scopes = 2]
<1>3. Handlers \subseteq 1..Len(Top.node.children)
  <2>1. Top.node.children \in Seq(N)
    BY <1>2, Children DEF Ready
  <2>2. DOMAIN Top.node.children = 1..Len(Top.node.children)
    BY <2>1, SeqIsSeq, IsSeqFacts
  <2> QED BY <2>2 DEF Handlers
<1>4. i \in Handlers
  <2>1. Handlers \in SUBSET Nat
    BY <1>3
  <2>2. \E m \in Handlers : \A j \in Handlers : m <= j
    BY <1>1, <2>1, LeastOf
  <2> QED BY <2>2
<1>5. Enter(f, c.children[1], Scoped(scope))
  BY DEF Handle
<1> HIDE DEF i
<1>6. c \in N /\ c.kind = "Catch"
  <2>1. i \in 1..Len(Top.node.children) /\ Child(i).kind = "Catch"
    BY <1>3, <1>4 DEF Handlers
  <2> QED BY <1>1, <2>1, ChildOfTop
<1> HIDE DEF c
<1>7. c.children[1] \in N
  BY <1>2, <1>6
<1>8. ScopeFits(scope, Handles(Here))
  BY <1>2, SmallScopes
<1> HIDE DEF scope
<1>9. StacksFit(Scoped(scope), Handles(Here))
  BY <1>2, <1>8, ScopedFits
<1>10. FrameFits(f, Here, N)
  BY <1>2, PhaseFits
<1> HIDE DEF f
<1> QED BY <1>1, <1>5, <1>7, <1>9, <1>10, EnteredHere

LEMMA HandleNoneStep ==
  ASSUME NEW N, Ready(N), HandleNone
  PROVE  Steps(N)
<1>1. frames # <<>> /\ Top.node.kind = "Try" /\ Top.phase \in {"try", "handler"}
  BY DEF HandleNone, Thrown
<1>2. SoundHeap(Here) /\ VoidVar \in Handles(Here)
  BY <1>1, TryFacts
<1>3. Keeps(Here, Here') /\ Len(data) + 1 \in Handles(Here')
  BY <1>2, UndefinedKeeps DEF HandleNone
<1>4. CASE HasFinally /\ Finally(Run)
  <2>1. Run.d \in Handles(Here')
    BY <1>2, <1>3, KeepsFacts DEF Run
  <2> QED BY <1>1, <1>3, <1>4, <2>1, FinallyFits
<1>5. CASE End(Len(data) + 1)
  BY <1>1, <1>3, <1>5, Ended
<1> QED BY <1>4, <1>5 DEF HandleNone
-----------------------------------------------------------------------------
(* What leaves the innermost node.                                           *)
LEMMA UnwindStep ==
  ASSUME NEW N, Ready(N), Unwind \/ JumpOutOfFile
  PROVE  Steps(N)
<1>1. frames # <<>>
  BY DEF Unwind, JumpOutOfFile, Thrown
<1>2. CASE Unwind
  <2>1. Keeps(Here, Here')
    BY <1>1, <1>2, FreedKeeps DEF Unwind
  <2>2. StackInv /\ SoundHeap(Here) /\ Fit(N)
    BY <1>1, ReadyFacts
  <2>3. Fit(N)'
    BY <1>1, <1>2, <2>1, <2>2, DropFits DEF Unwind
  <2> QED BY <2>1, <2>3 DEF Steps
<1>3. CASE JumpOutOfFile
  BY <1>1, <1>3, FailedHere DEF JumpOutOfFile
<1> QED BY <1>2, <1>3
-----------------------------------------------------------------------------
(* Every step keeps the heap,                                                *)
LEMMA HeapStep ==
  ASSUME NEW N, Ready(N), ObjectsNext
  PROVE  HeapInv(N)'
<1>1. SoundHeap(Here) /\ ConstsFit /\ FunsFit(N) /\ LambdasFit(N)
  BY DEF Ready, HeapInv
<1>2. ASSUME Steps(N) PROVE SoundHeap(Here') /\ Fit(N)'
  BY <1>1, <1>2, KeepsFacts DEF Steps
<1>3. ASSUME Steps(N), UNCHANGED consts PROVE ConstsFit'
  BY <1>1, <1>3, ConstsStay DEF Steps
<1>4. ASSUME UNCHANGED funs PROVE FunsFit(N)'
  BY <1>1, <1>4 DEF FunsFit
<1>5. ASSUME Steps(N), UNCHANGED lambdas PROVE LambdasFit(N)'
  BY <1>1, <1>5, LambdasStay DEF Steps
<1>6. ASSUME Steps(N), UNCHANGED <<consts, funs, lambdas>> PROVE HeapInv(N)'
  BY <1>2, <1>3, <1>4, <1>5, <1>6 DEF HeapInv
<1>7. CASE EvalConstant
  <2>1. UNCHANGED <<funs, lambdas>>
    BY <1>7 DEF EvalConstant
  <2> QED BY <1>2, <1>4, <1>5, <1>7, <2>1, ConstantStep DEF HeapInv
<1>8. CASE EvalDef
  <2>1. UNCHANGED <<consts, lambdas>>
    BY <1>8 DEF EvalDef
  <2> QED BY <1>2, <1>3, <1>5, <1>8, <2>1, DefStep DEF HeapInv
<1>9. CASE EvalLambda
  <2>1. UNCHANGED <<consts, funs>>
    BY <1>9 DEF EvalLambda
  <2> QED BY <1>2, <1>3, <1>4, <1>9, <2>1, LambdaStep DEF HeapInv
<1>10. ASSUME \/ EvalOperand \/ EvalNoop \/ EvalId
              \/ EvalDeclaration \/ EvalAssignDecl \/ EvalEquation
              \/ EvalBinary \/ EvalPrefix \/ EvalLogical \/ CloneElement \/ EvalInlineArray \/ EvalArrayCall
              \/ EvalSequence \/ EvalIf \/ EvalReturn \/ EvalJump
       PROVE  HeapInv(N)'
  <2>1. UNCHANGED <<consts, funs, lambdas>>
    BY <1>10 DEF EvalOperand, EvalNoop, EvalId, EvalDeclaration, EvalAssignDecl, EvalEquation,
         EvalBinary, EvalPrefix, EvalLogical, CloneElement, EvalInlineArray, EvalArrayCall,
         EvalSequence, EvalIf, EvalReturn, EvalJump, Rest
  <2>2. Steps(N)
    BY <1>10, OperandStep, LeavesStep, AssignDeclStep, EquationStep, OperatorsStep, LogicalStep, CloneElementStep,
       ArraysStep, SequencesStep, IfStep
  <2> QED BY <1>6, <2>1, <2>2
<1>11. ASSUME \/ StartLoop \/ NextRound \/ Tested \/ ContinueLoop \/ BreakLoop
              \/ EvalRange \/ NextElement \/ BreakRange
              \/ StartCounting \/ NextCount \/ BreakCount
              \/ StartSwitch \/ NextCase \/ TestCase \/ BreakSwitch \/ EvalCase
       PROVE  HeapInv(N)'
  <2>1. UNCHANGED <<consts, funs, lambdas>>
    BY <1>11 DEF StartLoop, NextRound, Tested, ContinueLoop, BreakLoop, EvalRange, NextElement, BreakRange,
         StartCounting, NextCount, BreakCount, StartSwitch, NextCase, TestCase, BreakSwitch, EvalCase, Rest
  <2>2. Steps(N)
    BY <1>11, LoopsStep, ContinueStep, RangeStep, CountingStep, SwitchStep, SequencesStep
  <2> QED BY <1>6, <2>1, <2>2
<1>12. ASSUME \/ CallFunction \/ CallVariable \/ CallHost \/ CallUnknown \/ FinishCall \/ CatchReturn
              \/ StartTry \/ LeaveTry \/ Handle \/ HandleNone \/ JumpOutOfTry \/ LeaveFinally
              \/ JumpOutOfFile \/ Unwind
              \/ EvalClass \/ CallDeclaredAttribute \/ CallMethod \/ CallMethodMissing \/ CallMissing
       PROVE  HeapInv(N)'
  <2>1. UNCHANGED <<consts, funs, lambdas>>
    BY <1>12 DEF CallFunction, CallVariable, CallHost, CallUnknown, FinishCall, CatchReturn,
         StartTry, LeaveTry, Handle, HandleNone, JumpOutOfTry, LeaveFinally, JumpOutOfFile, Unwind,
         EvalClass, CallDeclaredAttribute, CallMethod, CallMethodMissing, CallMissing, Rest
  <2>2. Steps(N)
    BY <1>12, CallFunctionStep, CallVariableStep, HostStep, FinishStep, TryStep, HandleStep, HandleNoneStep,
       UnwindStep, ClassStep, DeclaredAttributeStep, MethodMissingStep, MissingStep
  <2> QED BY <1>6, <2>1, <2>2
<1> QED BY <1>7, <1>8, <1>9, <1>10, <1>11, <1>12 DEF ObjectsNext, Next

(* and so does none,                                                         *)
LEMMA StutterHeap ==
  ASSUME NEW N, HeapInv(N), UNCHANGED vars
  PROVE  HeapInv(N)'
<1>1. UNCHANGED <<frames, stacks, data, objs, consts, funs, lambdas, ctl>> /\ Here' = Here
  BY DEF vars, Here
<1>2. SoundHeap(Here)' /\ ConstsFit' /\ FunsFit(N)' /\ LambdasFit(N)'
  BY <1>1 DEF HeapInv, ConstsFit, ConstFits, FunsFit, LambdasFit
<1>3. Fit(N)'
  BY <1>1 DEF HeapInv, Fit, FramesFit, Answered, Running, Top
<1> QED BY <1>2, <1>3 DEF HeapInv

(* from the start, with void alone.                                          *)
LEMMA InitHeap ==
  ASSUME NEW N, Programs \subseteq N, Init
  PROVE  HeapInv(N)
<1> DEFINE b == NewBox(1, FALSE, FALSE)  v == Value("void", 0)
<1>1. Here.data = <<b>> /\ Here.objs = <<v>>
  BY DEF Init, Here, NewBox
<1>2. b.obj = 1 /\ b.const = FALSE /\ b = [obj |-> 1, const |-> FALSE, temp |-> FALSE]
  BY DEF NewBox
<1>3. ValueFits(v, {1})
  <2>1. "void" # "object"
    OBVIOUS
  <2> QED BY <2>1, ValuesFit
<1> HIDE DEF b, v
<1>4. /\ IsSeq(<<b>>) /\ Len(<<b>>) = 1 /\ <<b>>[1] = b /\ <<b>> # <<>>
      /\ IsSeq(<<v>>) /\ Len(<<v>>) = 1 /\ <<v>>[1] = v
  BY IsSeqTuples
<1>5. Handles(Here) = {1} /\ Len(Here.objs) = 1 /\ Here.data[1] = b /\ Here.objs[1] = v
  <2>1. 1..1 = {1}
    OBVIOUS
  <2> QED BY <1>1, <1>4, <2>1 DEF Handles
<1>6. SoundHeap(Here)
  <2>1. ~b.const
    BY <1>2
  <2>2. ConstObjects(Here) = {}
    BY <1>5, <2>1 DEF ConstObjects
  <2>3. b \in DataOf(Here)
    BY <1>2, <1>5 DEF DataOf
  <2>4. \A i \in 1..Len(Here.objs) : i = 1
    BY <1>5
  <2> QED BY <1>1, <1>3, <1>4, <1>5, <2>2, <2>3, <2>4, HeapSound
<1>7. Fit(N)
  <2>1. PICK p \in N : frames = <<Frame(p, Bare)>>
    BY DEF Init
  <2> DEFINE f == Frame(p, Bare)
  <2>2. FrameFits(f, Here, N) /\ f.phase = "start"
    BY <1>6, NewFrameFits
  <2>3. frames = <<f>>
    BY <2>1
  <2> HIDE DEF f
  <2>4. Len(frames) = 1 /\ frames[1] = f /\ Top = f
    BY <2>3, IsSeqTuples DEF Top
  <2>5. FramesFit(N) /\ Answered
    BY <2>2, <2>4 DEF FramesFit, Answered
  <2>6. StacksFit(Bare, Handles(Here))
    <3> DEFINE stack == << <<>> >>
    <3>1. ScopeFits(<<>>, Handles(Here))
      BY SmallScopes
    <3>2. StackFits(stack, Handles(Here))
      BY <3>1, IsSeqTuples DEF StackFits
    <3> HIDE DEF stack
    <3>3. StacksFit(<<stack>>, Handles(Here))
      BY <3>2, IsSeqTuples DEF StacksFit
    <3> QED BY <3>3 DEF Bare, stack
  <2>7. stacks = Bare /\ ctl.d = 1
    BY DEF Init, Run, VoidVar
  <2> QED BY <1>5, <2>5, <2>6, <2>7 DEF Fit
<1>8. consts = <<>> /\ funs = {} /\ lambdas = <<>>
  BY DEF Init
<1>9. ConstsFit /\ FunsFit(N) /\ LambdasFit(N)
  BY <1>8, IsSeqTuples DEF ConstsFit, FunsFit, LambdasFit
<1> QED BY <1>6, <1>7, <1>9 DEF HeapInv

(* The heap of every program of well-formed nodes, for as long as copying     *)
(* does it no harm.                                                           *)
THEOREM HeapAlwaysSound ==
  ASSUME NEW N, Programs \subseteq N, WellFormed(N)
  PROVE  ObjectsSpec /\ []CopyingSound => []HeapInv(N)
<1>1. Init => HeapInv(N)
  BY InitHeap
<1>2. IInv /\ CopyingSound /\ HeapInv(N) /\ [ObjectsNext]_vars => HeapInv(N)'
  BY HeapStep, StutterHeap DEF IInv, Ready
<1> QED BY <1>1, <1>2, IInvHolds, PTL DEF ObjectsSpec

(* A constant of the program is the same at every evaluation, whoever has     *)
(* been given it by reference: Constant_AST_Node hands out the one Boxed_Value *)
(* of the node (chaiscript_eval.hpp:270), and nothing that scripts do with a  *)
(* const Data writes what it holds.                                           *)
THEOREM ConstantsAlwaysKept ==
  ASSUME NEW N, Programs \subseteq N, WellFormed(N)
  PROVE  ObjectsSpec /\ []CopyingSound => []ConstantsKept
<1>1. HeapInv(N) => ConstantsKept
  <2> SUFFICES ASSUME HeapInv(N), NEW c \in DOMAIN consts PROVE Val(consts[c]) = c.val
    BY DEF ConstantsKept
  <2>1. ConstFits(c, consts[c])
    BY DEF HeapInv, ConstsFit
  <2> QED BY <2>1 DEF ConstFits, Val, ValIn, Here
<1> QED BY <1>1, HeapAlwaysSound, PTL
================================================================================
