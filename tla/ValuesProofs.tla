----------------------------- MODULE ValuesProofs -----------------------------
(***************************************************************************)
(* Numbers for every choice of widths: the operators answer as the         *)
(* integers do, and the assigning operators agree with the plain ones.     *)
(* Boxes for any names, Data records and objects: the pointers of a Data   *)
(* agree with what it holds but while a function may change it; one that   *)
(* is not const holds no const object; and a Data that is a temporary, or  *)
(* that a variable is declared with, has its object alone unless it is     *)
(* shared on purpose.                                                      *)
(***************************************************************************)
EXTENDS Numbers, Boxes, SequenceFacts

(* The powers of two up to a number are a function.                         *)
LEMMA PowersUpTo ==
  ASSUME NEW m \in Nat
  PROVE  \E g : g = [k \in 0..m |-> IF k = 0 THEN 1 ELSE 2 * g[k - 1]]
<1> DEFINE T == {n \in Nat : \E g : g = [k \in 0..n |-> IF k = 0 THEN 1 ELSE 2 * g[k - 1]]}
<1>1. 0 \in T
  <2> DEFINE g == [k \in 0..0 |-> 1]
  <2>1. g = [k \in 0..0 |-> IF k = 0 THEN 1 ELSE 2 * g[k - 1]]
    OBVIOUS
  <2> HIDE DEF g
  <2> QED BY <2>1
<1>2. ASSUME NEW n \in T PROVE n + 1 \in T
  <2>1. PICK g : g = [k \in 0..n |-> IF k = 0 THEN 1 ELSE 2 * g[k - 1]]
    OBVIOUS
  <2> DEFINE h == [k \in 0..(n + 1) |-> IF k <= n THEN g[k] ELSE 2 * g[n]]
  <2>0. n \in Nat
    OBVIOUS
  <2> HIDE DEF T
  <2>2. ASSUME NEW k \in 0..(n + 1) PROVE h[k] = IF k = 0 THEN 1 ELSE 2 * h[k - 1]
    <3>1. CASE k = 0
      <4>1. 0 \in 0..n /\ 0 \in 0..(n + 1) /\ 0 <= n
        BY <2>0
      <4>2. h[0] = g[0]
        BY <4>1
      <4>3. g[0] = 1
        BY <2>1, <4>1
      <4> QED BY <3>1, <4>2, <4>3
    <3>2. CASE k # 0 /\ k <= n
      <4>1. k \in 0..n /\ k - 1 \in 0..n /\ k - 1 \in 0..(n + 1) /\ k - 1 <= n
        BY <2>0, <3>2
      <4>2. h[k] = g[k] /\ h[k - 1] = g[k - 1]
        BY <3>2, <4>1
      <4>3. g[k] = 2 * g[k - 1]
        BY <2>1, <3>2, <4>1
      <4> QED BY <3>2, <4>2, <4>3
    <3>3. CASE k = n + 1
      <4>1. n \in 0..(n + 1) /\ n <= n /\ ~(n + 1 <= n) /\ n + 1 # 0 /\ k - 1 = n
        BY <2>0, <3>3
      <4>2. h[n] = g[n] /\ h[k] = 2 * g[n]
        BY <3>3, <4>1
      <4> QED BY <3>3, <4>1, <4>2
    <3> QED BY <2>0, <3>1, <3>2, <3>3
  <2>3. h = [k \in 0..(n + 1) |-> h[k]]
    OBVIOUS
  <2> HIDE DEF h
  <2>4. h = [k \in 0..(n + 1) |-> IF k = 0 THEN 1 ELSE 2 * h[k - 1]]
    BY <2>2, <2>3
  <2> QED BY <2>0, <2>4 DEF T
<1>3. T \in SUBSET Nat
  OBVIOUS
<1> HIDE DEF T
<1>4. m \in T
  BY <1>1, <1>2, <1>3, SetInduction
<1> QED BY <1>4 DEF T

(* They agree, and so there is one such function for all numbers.           *)
LEMMA Powers ==
  /\ TwoTo[0] = 1
  /\ \A n \in Nat : TwoTo[n + 1] = 2 * TwoTo[n]
<1> DEFINE upTo(m) == CHOOSE g : g = [k \in 0..m |-> IF k = 0 THEN 1 ELSE 2 * g[k - 1]]
           h == [n \in Nat |-> upTo(n)[n]]
           T == {k \in Nat : \A m \in Nat : k <= m => upTo(m)[k] = h[k]}
<1>1. ASSUME NEW m \in Nat PROVE upTo(m) = [k \in 0..m |-> IF k = 0 THEN 1 ELSE 2 * upTo(m)[k - 1]]
  <2>1. \E g : g = [k \in 0..m |-> IF k = 0 THEN 1 ELSE 2 * g[k - 1]]
    BY PowersUpTo
  <2> QED BY <2>1
<1>2. \A n \in Nat : h[n] = upTo(n)[n]
  OBVIOUS
<1> HIDE DEF upTo, h
<1>3. \A m \in Nat : upTo(m)[0] = 1
  <2> TAKE m \in Nat
  <2>1. 0 \in 0..m
    OBVIOUS
  <2> QED BY <1>1, <2>1
<1>4. ASSUME NEW m \in Nat, NEW k \in Nat, k + 1 <= m PROVE upTo(m)[k + 1] = 2 * upTo(m)[k]
  <2>1. k + 1 \in 0..m /\ k + 1 # 0 /\ (k + 1) - 1 = k
    BY <1>4
  <2> QED BY <1>1, <2>1
<1>5. h[0] = 1
  BY <1>2, <1>3
<1>6. T = Nat
  <2>1. 0 \in T
    BY <1>3, <1>5
  <2>2. ASSUME NEW k \in T PROVE k + 1 \in T
    <3>1. k \in Nat /\ \A m \in Nat : k <= m => upTo(m)[k] = h[k]
      OBVIOUS
    <3>2. h[k + 1] = 2 * h[k]
      <4>1. k + 1 \in Nat /\ k <= k + 1 /\ k + 1 <= k + 1
        BY <3>1
      <4>2. upTo(k + 1)[k + 1] = 2 * upTo(k + 1)[k]
        BY <1>4, <3>1, <4>1
      <4> QED BY <1>2, <3>1, <4>1, <4>2
    <3>3. ASSUME NEW m \in Nat, k + 1 <= m PROVE upTo(m)[k + 1] = h[k + 1]
      <4>1. k <= m
        BY <3>1, <3>3
      <4> QED BY <1>4, <3>1, <3>2, <3>3, <4>1
    <3> QED BY <3>1, <3>3
  <2>3. T \in SUBSET Nat
    OBVIOUS
  <2> HIDE DEF T
  <2> QED BY <2>1, <2>2, <2>3, SetInduction
<1>7. ASSUME NEW k \in Nat PROVE h[k + 1] = 2 * h[k]
  <2>1. k + 1 \in Nat /\ k <= k + 1 /\ k + 1 <= k + 1
    OBVIOUS
  <2>2. upTo(k + 1)[k] = h[k]
    BY <1>6, <2>1
  <2>3. upTo(k + 1)[k + 1] = 2 * upTo(k + 1)[k]
    BY <1>4, <2>1
  <2> QED BY <1>2, <2>1, <2>2, <2>3
<1>8. h = [n \in Nat |-> IF n = 0 THEN 1 ELSE 2 * h[n - 1]]
  <2>1. ASSUME NEW n \in Nat PROVE h[n] = IF n = 0 THEN 1 ELSE 2 * h[n - 1]
    <3>1. CASE n = 0
      BY <1>5, <3>1
    <3>2. CASE n # 0
      <4>1. n - 1 \in Nat /\ (n - 1) + 1 = n
        BY <3>2
      <4>2. h[(n - 1) + 1] = 2 * h[n - 1]
        BY <1>7, <4>1
      <4> QED BY <3>2, <4>1, <4>2
    <3> QED BY <3>1, <3>2
  <2>2. h = [n \in Nat |-> h[n]]
    BY DEF h
  <2> QED BY <2>1, <2>2
<1>9. TwoTo = [n \in Nat |-> IF n = 0 THEN 1 ELSE 2 * TwoTo[n - 1]]
  BY <1>8 DEF TwoTo
<1> HIDE DEF TwoTo
<1>10. TwoTo[0] = 1
  <2>1. 0 \in Nat
    OBVIOUS
  <2> QED BY <1>9, <2>1
<1>11. ASSUME NEW n \in Nat PROVE TwoTo[n + 1] = 2 * TwoTo[n]
  <2>1. n + 1 \in Nat /\ n + 1 # 0 /\ (n + 1) - 1 = n
    OBVIOUS
  <2> QED BY <1>9, <2>1
<1> QED BY <1>10, <1>11

(* They are positive, and grow.                                             *)
LEMMA PowersGrow ==
  /\ \A n \in Nat : TwoTo[n] \in Nat \ {0}
  /\ \A m, n \in Nat : m <= n => TwoTo[m] <= TwoTo[n]
<1> DEFINE T == {n \in Nat : TwoTo[n] \in Nat \ {0}}
           U(m) == {d \in Nat : TwoTo[m] <= TwoTo[m + d]}
<1>1. \A n \in Nat : TwoTo[n] \in Nat \ {0}
  <2>1. 0 \in T
    BY Powers
  <2>2. ASSUME NEW n \in T PROVE n + 1 \in T
    <3>1. n \in Nat /\ TwoTo[n] \in Nat \ {0}
      OBVIOUS
    <3>2. TwoTo[n + 1] = 2 * TwoTo[n]
      BY <3>1, Powers
    <3>3. TwoTo[n + 1] \in Nat \ {0}
      BY <3>1, <3>2
    <3> QED BY <3>1, <3>3
  <2>3. T \in SUBSET Nat
    OBVIOUS
  <2>4. T = Nat
    <3> HIDE DEF T
    <3> QED BY <2>1, <2>2, <2>3, SetInduction
  <2> QED BY <2>4
<1>2. ASSUME NEW m \in Nat, NEW n \in Nat, m <= n PROVE TwoTo[m] <= TwoTo[n]
  <2>1. 0 \in U(m)
    <3>1. m + 0 = m /\ TwoTo[m] \in Nat
      BY <1>1
    <3> QED BY <3>1
  <2>2. ASSUME NEW d \in U(m) PROVE d + 1 \in U(m)
    <3>1. d \in Nat /\ m + d \in Nat /\ TwoTo[m] <= TwoTo[m + d] /\ m + (d + 1) = (m + d) + 1
      OBVIOUS
    <3>2. TwoTo[(m + d) + 1] = 2 * TwoTo[m + d]
      BY <3>1, Powers
    <3>3. TwoTo[m + d] \in Nat /\ TwoTo[m] \in Nat
      BY <1>1, <3>1
    <3>4. TwoTo[m] <= TwoTo[m + (d + 1)]
      BY <3>1, <3>2, <3>3
    <3> QED BY <3>1, <3>4
  <2>3. U(m) \in SUBSET Nat
    OBVIOUS
  <2>4. U(m) = Nat
    <3> HIDE DEF U
    <3> QED BY <2>1, <2>2, <2>3, SetInduction
  <2>5. n - m \in Nat /\ m + (n - m) = n
    BY <1>2
  <2>6. n - m \in U(m)
    BY <2>4, <2>5
  <2> QED BY <2>5, <2>6
<1> QED BY <1>1, <1>2

(* What the places of the integral types are.                               *)
LEMMA WidthPowers ==
  /\ \A w \in Widths : TwoTo[w - 1] \in Nat \ {0} /\ TwoTo[w] = 2 * TwoTo[w - 1]
  /\ \A v, w \in Widths : v < w => TwoTo[v] <= TwoTo[w - 1]
<1>1. ASSUME NEW w \in Widths PROVE TwoTo[w - 1] \in Nat \ {0} /\ TwoTo[w] = 2 * TwoTo[w - 1]
  <2>1. w - 1 \in Nat /\ (w - 1) + 1 = w
    BY WidthAssumption
  <2> QED BY <2>1, Powers, PowersGrow
<1>2. ASSUME NEW v \in Widths, NEW w \in Widths, v < w PROVE TwoTo[v] <= TwoTo[w - 1]
  <2>1. v \in Nat /\ w - 1 \in Nat /\ v <= w - 1
    BY <1>2, WidthAssumption
  <2> QED BY <2>1, PowersGrow
<1> QED BY <1>1, <1>2
-----------------------------------------------------------------------------
LEMMA ModSmall ==
  ASSUME NEW a \in Int, NEW b \in Int, 0 <= a, a < b
  PROVE  a % b = a
  BY SMT

LEMMA WidthsAre ==
  /\ \A w \in Widths : w \in Nat /\ w \in Int /\ w >= 1
  /\ IntWidth \in Widths /\ IntWidth \in Int
<1>1. \A w \in Widths : w \in Nat \ {0}
  BY WidthAssumption
<1> QED BY <1>1, WidthAssumption

LEMMA WrapFits ==
  ASSUME NEW type \in IntegralTypes, NEW n \in Int, Fits(n, type)
  PROVE  Wrap(n, type) = n
<1> DEFINE w == type.width  h == TwoTo[w - 1]  p == TwoTo[w]
<1>1. w \in Widths /\ type.signed \in BOOLEAN
  BY DEF IntegralTypes, IntegralType
<1>2. h \in Nat \ {0} /\ p = 2 * h
  BY <1>1, WidthPowers
<1> HIDE DEF h, p
<1>3. CASE type.signed
  <2>1. -h <= n /\ n <= h - 1
    BY <1>3 DEF Fits, Least, Greatest, h, w
  <2>2. (n + h) % p = n + h
    BY <2>1, <1>2, ModSmall
  <2> QED BY <2>2, <1>2, <1>3 DEF Wrap, h, p, w
<1>4. CASE ~type.signed
  <2>1. 0 <= n /\ n <= p - 1
    BY <1>4 DEF Fits, Least, Greatest, p, w
  <2>2. n % p = n
    BY <2>1, <1>2, ModSmall
  <2> QED BY <2>2, <1>4 DEF Wrap, p, w
<1> QED BY <1>3, <1>4, <1>1
-----------------------------------------------------------------------------
(* A number keeps its place in a type that is no narrower, unless it would *)
(* change its sign.                                                        *)
LEMMA Widening ==
  ASSUME NEW t \in IntegralTypes, NEW u \in IntegralTypes, NEW n \in Int, Fits(n, t),
         t.width <= u.width,
         \/ t.signed = u.signed
         \/ ~t.signed /\ t.width < u.width
         \/ n >= 0 /\ ~u.signed
  PROVE  Fits(n, u)
<1> DEFINE v == t.width  w == u.width
           h == TwoTo[v - 1]  p == TwoTo[v]  k == TwoTo[w - 1]  q == TwoTo[w]
<1>1. v \in Widths /\ w \in Widths /\ t.signed \in BOOLEAN /\ u.signed \in BOOLEAN
  BY DEF IntegralTypes, IntegralType
<1>2. h \in Nat \ {0} /\ p = 2 * h /\ k \in Nat \ {0} /\ q = 2 * k
  BY <1>1, WidthPowers
<1>3. v = w => h = k /\ p = q
  OBVIOUS
<1>4. v < w => p <= k
  BY <1>1, WidthPowers
<1>5. v \in Int /\ w \in Int
  BY <1>1, WidthsAre
<1> HIDE DEF h, p, k, q
<1>6. IF t.signed THEN -h <= n /\ n <= h - 1 ELSE 0 <= n /\ n <= p - 1
  BY <1>1 DEF Fits, Least, Greatest, h, p, v
<1>7. IF u.signed THEN -k <= n /\ n <= k - 1 ELSE 0 <= n /\ n <= q - 1
  <2>1. CASE v = w
    BY <2>1, <1>1, <1>2, <1>3, <1>5, <1>6
  <2>2. CASE v < w
    BY <2>2, <1>1, <1>2, <1>4, <1>5, <1>6
  <2> QED BY <2>1, <2>2, <1>5
<1> QED BY <1>1, <1>7 DEF Fits, Least, Greatest, k, q, w

LEMMA IntegralFields ==
  /\ \A t \in IntegralTypes : /\ t.width \in Widths /\ t.signed \in BOOLEAN /\ IsIntegral(t)
                              /\ t = IntegralType(t.width, t.signed)
  /\ \A w \in Widths, s \in BOOLEAN : /\ IntegralType(w, s) \in IntegralTypes
                                      /\ IntegralType(w, s).width = w /\ IntegralType(w, s).signed = s
  BY DEF IntegralTypes, IntegralType, IsIntegral

LEMMA PromotedType ==
  ASSUME NEW t \in IntegralTypes
  PROVE  /\ Promoted(t) \in IntegralTypes
         /\ Promoted(t).width >= IntWidth /\ Promoted(t).width >= t.width
         /\ Promoted(t) = t \/ (t.width < IntWidth /\ Promoted(t) = IntegralType(IntWidth, TRUE))
<1>1. t.width \in Int /\ IsIntegral(t)
  BY IntegralFields, WidthsAre
<1>2. IntegralType(IntWidth, TRUE) \in IntegralTypes /\ IntegralType(IntWidth, TRUE).width = IntWidth
  BY IntegralFields, WidthsAre
<1>3. Promoted(t) = IF t.width < IntWidth THEN IntegralType(IntWidth, TRUE) ELSE t
  BY <1>1 DEF Promoted
<1>4. CASE t.width < IntWidth
  <2>1. Promoted(t) = IntegralType(IntWidth, TRUE)
    BY <1>3, <1>4
  <2>2. IntWidth >= IntWidth /\ IntWidth >= t.width
    BY <1>1, <1>4, WidthsAre
  <2> QED BY <1>2, <1>4, <2>1, <2>2
<1>5. CASE ~(t.width < IntWidth)
  <2>1. Promoted(t) = t
    BY <1>3, <1>5
  <2>2. t.width >= IntWidth /\ t.width >= t.width
    BY <1>1, <1>5, WidthsAre
  <2> QED BY <2>1, <2>2
<1> QED BY <1>4, <1>5

LEMMA PromotedFits ==
  ASSUME NEW t \in IntegralTypes, NEW n \in Int, Fits(n, t)
  PROVE  Fits(n, Promoted(t))
<1>1. CASE Promoted(t) = t
  BY <1>1
<1>2. CASE t.width < IntWidth /\ Promoted(t) = IntegralType(IntWidth, TRUE)
  <2>1. IntegralType(IntWidth, TRUE) \in IntegralTypes
    BY IntegralFields, WidthsAre
  <2>2. IntegralType(IntWidth, TRUE).width = IntWidth /\ IntegralType(IntWidth, TRUE).signed = TRUE
    BY IntegralFields, WidthsAre
  <2>3. t.width \in Int /\ t.signed \in BOOLEAN
    BY IntegralFields, WidthsAre
  <2>4. t.width < IntWidth /\ t.width <= IntWidth
    BY <1>2, <2>3, WidthsAre
  <2>5. CASE t.signed = TRUE
    BY <1>2, <2>1, <2>2, <2>4, <2>5, Widening
  <2>6. CASE t.signed = FALSE
    <3>1. ~t.signed
      BY <2>6
    <3>2. Fits(n, IntegralType(IntWidth, TRUE))
      BY <2>1, <2>2, <2>4, <3>1, Widening
    <3> QED BY <1>2, <3>2
  <2> QED BY <2>3, <2>5, <2>6
<1> QED BY <1>1, <1>2, PromotedType

(* The common type of two types, spelled out. *)
LEMMA Common ==
  ASSUME NEW a \in IntegralTypes, NEW b \in IntegralTypes
  PROVE  LET p == Promoted(a)  q == Promoted(b)  c == CommonType(a, b) IN
         /\ c \in IntegralTypes
         /\ p.width = q.width => c = IntegralType(p.width, p.signed /\ q.signed)
         /\ p.width < q.width => c = q
         /\ q.width < p.width => c = p
<1> DEFINE p == Promoted(a)  q == Promoted(b)
<1>1. p \in IntegralTypes /\ q \in IntegralTypes
  BY PromotedType
<1>2. IsIntegral(p) /\ IsIntegral(q) /\ p.width \in Nat /\ q.width \in Nat
      /\ p.signed \in BOOLEAN /\ q.signed \in BOOLEAN /\ p.width \in Widths
  BY <1>1, IntegralFields, WidthsAre
<1>3. CASE p.width = q.width
  BY <1>1, <1>2, <1>3, IntegralFields DEF CommonType
<1>4. CASE p.width < q.width
  BY <1>1, <1>2, <1>4 DEF CommonType, Wider
<1>5. CASE q.width < p.width
  BY <1>1, <1>2, <1>5 DEF CommonType, Wider
<1> QED BY <1>2, <1>3, <1>4, <1>5

LEMMA SwapTypes ==
  ASSUME NEW a \in IntegralTypes, NEW b \in IntegralTypes
  PROVE  CommonType(a, b) = CommonType(b, a)
<1> DEFINE p == Promoted(a)  q == Promoted(b)
<1>1. p.width \in Int /\ q.width \in Int /\ p.signed \in BOOLEAN /\ q.signed \in BOOLEAN
  BY PromotedType, IntegralFields, WidthsAre
<1>2. CASE p.width = q.width
  BY <1>1, <1>2, Common
<1>3. CASE p.width < q.width
  BY <1>1, <1>3, Common
<1>4. CASE q.width < p.width
  BY <1>1, <1>4, Common
<1> QED BY <1>1, <1>2, <1>3, <1>4

(* A number that has a place between two types fits their common type. *)
LEMMA PlaceInWider ==
  ASSUME NEW a \in IntegralTypes, NEW b \in IntegralTypes, a.width > b.width, a.width >= IntWidth
  PROVE  CommonType(a, b) = a
<1> DEFINE q == Promoted(b)
<1>1. a.width \in Int /\ b.width \in Int /\ IntWidth \in Int /\ q.width \in Int
      /\ a.signed \in BOOLEAN /\ a = IntegralType(a.width, a.signed)
  BY PromotedType, IntegralFields, WidthsAre
<1>2. Promoted(a) = a
  <2>1. ~(a.width < IntWidth)
    BY <1>1
  <2> QED BY <2>1 DEF Promoted
<1>3. CASE q = b
  BY <1>1, <1>2, <1>3, Common
<1>4. CASE q = IntegralType(IntWidth, TRUE)
  <2>1. q.width = IntWidth /\ q.signed = TRUE
    BY <1>4, IntegralFields, WidthsAre
  <2>2. CASE IntWidth < a.width
    BY <1>1, <1>2, <2>1, <2>2, Common
  <2>3. CASE IntWidth = a.width
    BY <1>1, <1>2, <2>1, <2>3, Common
  <2> QED BY <1>1, <2>2, <2>3
<1> QED BY <1>3, <1>4, PromotedType

LEMMA HasPlaceFits ==
  ASSUME NEW a \in IntegralTypes, NEW b \in IntegralTypes, NEW n \in Int, HasPlace(n, a, b)
  PROVE  Fits(n, CommonType(a, b))
<1>1. /\ a.width \in Int /\ b.width \in Int /\ IntWidth \in Int
      /\ a.signed \in BOOLEAN /\ b.signed \in BOOLEAN
      /\ a = IntegralType(a.width, a.signed) /\ b = IntegralType(b.width, b.signed)
  BY IntegralFields, WidthsAre
<1>2. CASE a.width < IntWidth /\ b.width < IntWidth
  <2>1. Fits(n, IntegralType(IntWidth, TRUE))
    BY <1>2 DEF HasPlace
  <2>2. Promoted(a) = IntegralType(IntWidth, TRUE) /\ Promoted(b) = IntegralType(IntWidth, TRUE)
    BY <1>2, IntegralFields DEF Promoted
  <2>3. IntegralType(IntWidth, TRUE).width = IntWidth /\ IntegralType(IntWidth, TRUE).signed = TRUE
    BY IntegralFields, WidthsAre
  <2>4. CommonType(a, b) = IntegralType(IntWidth, TRUE)
    <3> DEFINE i == IntegralType(IntWidth, TRUE)
    <3>1. CommonType(a, b) = IntegralType(i.width, i.signed /\ i.signed)
      BY ZenonT(40), <2>2, Common
    <3>2. (i.signed /\ i.signed) = TRUE /\ i.width = IntWidth
      BY <2>3
    <3> QED BY <3>1, <3>2
  <2> QED BY <2>1, <2>4
<1>3. CASE ~(a.width < IntWidth /\ b.width < IntWidth)
  <2>1. (a.width >= b.width => Fits(n, a)) /\ (b.width >= a.width => Fits(n, b))
    BY <1>3 DEF HasPlace
  <2>2. CASE a.width > b.width
    <3>1. CommonType(a, b) = a
      BY <1>1, <1>3, <2>2, PlaceInWider
    <3> QED BY <1>1, <2>1, <2>2, <3>1
  <2>3. CASE b.width > a.width
    <3>1. CommonType(a, b) = b
      BY <1>1, <1>3, <2>3, PlaceInWider, SwapTypes
    <3> QED BY <1>1, <2>1, <2>3, <3>1
  <2>4. CASE a.width = b.width
    <3>1. Promoted(a) = a /\ Promoted(b) = b
      BY <1>1, <1>3, <2>4, PromotedType
    <3>2. CommonType(a, b) = IntegralType(a.width, a.signed /\ b.signed)
      BY <2>4, <3>1, Common
    <3>3. Fits(n, a) /\ Fits(n, b)
      BY <1>1, <2>1, <2>4
    <3>4. CommonType(a, b) = a \/ CommonType(a, b) = b
      BY <1>1, <2>4, <3>2
    <3> QED BY <3>3, <3>4
  <2> QED BY <1>1, <2>2, <2>3, <2>4
<1> QED BY <1>2, <1>3

(* The conversion to the common type keeps a number that is not            *)
(* reinterpreted.                                                          *)
LEMMA Kept ==
  ASSUME NEW a, NEW b, a.type \in IntegralTypes, b.type \in IntegralTypes,
         a.value \in Int, Fits(a.value, a.type), ~Reinterpreted(a, b)
  PROVE  Wrap(a.value, CommonType(a.type, b.type)) = a.value
<1> DEFINE p == Promoted(a.type)  q == Promoted(b.type)  c == CommonType(a.type, b.type)
<1>1. p \in IntegralTypes /\ q \in IntegralTypes /\ c \in IntegralTypes
  BY PromotedType, Common
<1>2. /\ a.type.width \in Int /\ b.type.width \in Int /\ IntWidth \in Int
      /\ p.width \in Int /\ q.width \in Int /\ p.signed \in BOOLEAN /\ q.signed \in BOOLEAN
      /\ p = IntegralType(p.width, p.signed) /\ q = IntegralType(q.width, q.signed)
  BY <1>1, IntegralFields, WidthsAre
<1>3. Fits(a.value, p)
  BY PromotedFits
<1>4. ASSUME p.width <= q.width, p.signed, ~q.signed  PROVE a.value >= 0
  <2>1. q = b.type
    <3>1. IntegralType(IntWidth, TRUE).signed = TRUE
      BY IntegralFields, WidthsAre
    <3> QED BY <1>4, <3>1, PromotedType
  <2>2. b.type.width >= IntWidth /\ b.type.width >= a.type.width
    <3>1. p.width >= IntWidth /\ p.width >= a.type.width
      BY PromotedType
    <3> QED BY <1>2, <1>4, <2>1, <3>1
  <2> QED BY <1>4, <2>1, <2>2 DEF Reinterpreted
<1>5. Fits(a.value, c)
  <2>1. CASE q.width < p.width
    BY <1>3, <2>1, Common
  <2>2. CASE p.width < q.width
    <3>1. c = q
      BY <2>2, Common
    <3>2. p.width <= q.width
      BY <1>2, <2>2
    <3>3. p.signed = q.signed \/ (~p.signed /\ p.width < q.width) \/ (a.value >= 0 /\ ~q.signed)
      BY <1>2, <1>4, <2>2, <3>2
    <3> QED BY <1>1, <1>3, <3>1, <3>2, <3>3, Widening
  <2>3. CASE p.width = q.width
    <3>1. c = IntegralType(p.width, p.signed /\ q.signed)
      BY <2>3, Common
    <3>2. CASE p.signed /\ ~q.signed
      <4>1. c = q
        BY <1>2, <2>3, <3>1, <3>2
      <4>2. p.width <= q.width
        BY <1>2, <2>3
      <4>3. a.value >= 0
        BY <1>4, <3>2, <4>2
      <4> QED BY <1>1, <1>3, <3>2, <4>1, <4>2, <4>3, Widening
    <3>3. CASE ~(p.signed /\ ~q.signed)
      BY <1>2, <1>3, <3>1, <3>3
    <3> QED BY <3>2, <3>3
  <2> QED BY <1>2, <2>1, <2>2, <2>3
<1> QED BY <1>1, <1>5, WrapFits
-----------------------------------------------------------------------------
(* What is known of an operand, and of the last operation. *)
Operand(l) ==
  /\ l = [type |-> l.type, value |-> l.value, const |-> l.const, returned |-> l.returned]
  /\ l.type \in NumberTypes /\ l.const \in BOOLEAN /\ l.returned \in BOOLEAN
  /\ IsIntegral(l.type) => l.value \in Int /\ Fits(l.value, l.type)

Outcome ==
  /\ Operand(last.on)
  /\ last.result = go(last.op, last.on, rhs)
  /\ lhs = IF last.result.kind = "changed" THEN [last.on EXCEPT !.value = last.result.value]
           ELSE last.on

NumbersInv ==
  /\ Operand(rhs)
  /\ last = Nothing => Operand(lhs)
  /\ last.op \in Binary => Outcome

LEMMA NamesDiffer ==
  /\ "none" \notin Binary /\ "get_as" \notin Binary /\ "get_as_checked" \notin Binary
  /\ \A op \in Unary : op \notin Binary
  BY DEF Unary, Binary, Comparisons, Arithmetic, OnIntegers, Assigning

LEMMA TypesDiffer ==
  \A t \in NumberTypes : t # Bool /\ (IsIntegral(t) => t \in IntegralTypes)
  BY DEF NumberTypes, IntegralTypes, IntegralType, FloatingType, Bool, IsIntegral

LEMMA BoxedOperand ==
  ASSUME NEW n \in BoxedNumbers, NEW c \in BOOLEAN, NEW r \in BOOLEAN
  PROVE  Operand(Boxed(n, c, r))
<1>1. PICK t \in NumberTypes : n \in {[type |-> t, value |-> m] : m \in Magnitudes(t)}
  BY DEF BoxedNumbers
<1>2. PICK m \in Magnitudes(t) : n = [type |-> t, value |-> m]
  BY <1>1
<1>3. ASSUME IsIntegral(t)  PROVE m \in Int /\ Fits(m, t)
  <2>1. t \in IntegralTypes /\ t.width \in Widths /\ t.signed \in BOOLEAN
    BY <1>3, TypesDiffer, IntegralFields
  <2> DEFINE h == TwoTo[t.width - 1]  p == TwoTo[t.width]
  <2>2. h \in Nat \ {0} /\ p = 2 * h
    BY <2>1, WidthPowers
  <2>3. m \in Least(t) .. Greatest(t)
    BY <1>3 DEF Magnitudes
  <2>4. Least(t) \in Int /\ Greatest(t) \in Int
    <3> HIDE DEF h, p
    <3>1. Least(t) = IF t.signed THEN -h ELSE 0
      BY DEF Least, h
    <3>2. Greatest(t) = IF t.signed THEN h - 1 ELSE p - 1
      BY DEF Greatest, h, p
    <3> QED BY <2>2, <3>1, <3>2
  <2> QED BY <2>3, <2>4 DEF Fits
<1> DEFINE x == Boxed(n, c, r)
<1>4. x = [type |-> t, value |-> m, const |-> c, returned |-> r]
  BY <1>2 DEF Boxed
<1> HIDE DEF x
<1>5. x.type = t /\ x.value = m /\ x.const = c /\ x.returned = r
  BY <1>4
<1> QED BY <1>3, <1>4, <1>5 DEF Operand, x

LEMMA InitIInv == Init => NumbersInv
<1> SUFFICES ASSUME Init PROVE NumbersInv
  OBVIOUS
<1>1. Operand(rhs)
  BY BoxedOperand DEF Init
<1>2. Operand(lhs)
  <2>1. PICK l \in BoxedNumbers, f \in {<<FALSE, FALSE>>, <<TRUE, FALSE>>, <<FALSE, TRUE>>} :
          lhs = Boxed(l, f[1], f[2])
    BY DEF Init
  <2>2. f[1] \in BOOLEAN /\ f[2] \in BOOLEAN
    <3>1. CASE f = <<FALSE, FALSE>>
      BY <3>1
    <3>2. CASE f = <<TRUE, FALSE>>
      BY <3>2
    <3>3. CASE f = <<FALSE, TRUE>>
      BY <3>3
    <3> QED BY <3>1, <3>2, <3>3
  <2> QED BY <2>1, <2>2, BoxedOperand
<1>3. last.op \notin Binary
  BY NamesDiffer DEF Init, Nothing
<1> QED BY <1>1, <1>2, <1>3 DEF NumbersInv

LEMMA StepIInv == NumbersInv /\ [Next]_vars => NumbersInv'
<1> SUFFICES ASSUME NumbersInv, [Next]_vars PROVE NumbersInv'
  OBVIOUS
<1>1. CASE UNCHANGED vars
  BY <1>1 DEF NumbersInv, Outcome, vars
<1>2. ASSUME NEW op, NEW result, Ready, Done(op, result)
      PROVE  /\ Operand(rhs)' /\ ~(last' = Nothing) /\ last'.op = op
             /\ op \in Binary /\ result = go(op, lhs, rhs) => Outcome'
  <2>1. Operand(lhs) /\ Operand(rhs) /\ rhs' = rhs
    BY <1>2 DEF NumbersInv, Ready, Done
  <2>2. last' = [op |-> op, on |-> lhs, result |-> result]
        /\ lhs' = IF result.kind = "changed" THEN [lhs EXCEPT !.value = result.value] ELSE lhs
    BY <1>2 DEF Done
  <2>3. last' # Nothing
    <3>1. lhs.type # Bool
      BY <2>1, TypesDiffer DEF Operand
    <3>2. Nothing.on.type = Bool
      BY DEF Nothing, Boxed
    <3> QED BY <2>2, <3>1, <3>2
  <2>4. last'.op = op /\ last'.on = lhs /\ last'.result = result
    BY <2>2
  <2>5. Operand(rhs)'
    BY <2>1
  <2>6. ASSUME result = go(op, lhs, rhs)  PROVE Outcome'
    BY <2>1, <2>2, <2>4, <2>6 DEF Outcome
  <2> QED BY <2>3, <2>4, <2>5, <2>6
<1>3. CASE oper
  BY <1>2, <1>3 DEF oper, NumbersInv
<1>4. CASE oper_unary
  BY <1>2, <1>4, NamesDiffer DEF oper_unary, NumbersInv
<1>5. CASE cast
  BY <1>2, <1>5, NamesDiffer DEF cast, NumbersInv
<1>6. CASE checked_cast
  BY <1>2, <1>6, NamesDiffer DEF checked_cast, NumbersInv
<1> QED BY <1>1, <1>3, <1>4, <1>5, <1>6 DEF Next

(* What is known of the operands and of the last operation is so in every  *)
(* state.                                                                  *)
THEOREM OperandsKnown == Spec => []NumbersInv
<1>1. Init => NumbersInv
  BY InitIInv
<1>2. NumbersInv /\ [Next]_vars => NumbersInv'
  BY StepIInv
<1> QED BY <1>1, <1>2, PTL DEF Spec
-----------------------------------------------------------------------------
LEMMA ChangedFields ==
  ASSUME NEW t, NEW n
  PROVE  Changed(t, n).kind = "changed" /\ Changed(t, n).value = n
  BY DEF Changed

(* The operator itself makes a new number, or C++ leaves it undefined. *)
LEMMA AppliedKind ==
  ASSUME NEW op \in Arithmetic \cup OnIntegers, NEW l, NEW r
  PROVE  LET out == Applied(op, l, r) IN
         out = Undefined \/ (out.kind = "new" /\ out.error = "")
<1>1. \A n, t : LET out == Result(n, t) IN out = Undefined \/ (out.kind = "new" /\ out.error = "")
  BY DEF Result, New
<1>2. ASSUME NEW m, NEW n, NEW t
      PROVE  LET out == Shifted(op, m, n, t) IN
             out = Undefined \/ (out.kind = "new" /\ out.error = "")
  BY DEF Shifted, New
<1>3. ASSUME NEW m, NEW n, NEW t, op \notin Shifts
      PROVE  LET out == Computed(op, m, n, t) IN
             out = Undefined \/ (out.kind = "new" /\ out.error = "")
  <2>1. CASE op = "sum"
    BY <1>1, <2>1 DEF Computed, Divisions
  <2>2. CASE op = "difference"
    BY <1>1, <2>2 DEF Computed, Divisions
  <2>3. CASE op = "product"
    BY <1>1, <2>3 DEF Computed, Divisions
  <2>4. CASE op \in Divisions /\ n = 0
    BY <2>4 DEF Computed, Divisions
  <2>5. CASE op = "quotient" /\ n # 0
    BY <1>1, <2>5 DEF Computed, Divisions
  <2>6. CASE op = "remainder" /\ n # 0
    BY <2>6 DEF Computed, Divisions, New
  <2>7. CASE op = "bitwise_and"
    BY <2>7 DEF Computed, Divisions, New
  <2>8. CASE op = "bitwise_or"
    BY <2>8 DEF Computed, Divisions, New
  <2>9. CASE op = "bitwise_xor"
    BY <2>9 DEF Computed, Divisions, New
  <2> QED BY <1>3, <2>1, <2>2, <2>3, <2>4, <2>5, <2>6, <2>7, <2>8, <2>9
          DEF Arithmetic, OnIntegers, Divisions, Shifts
<1>4. op \notin Comparisons
  BY DEF Arithmetic, OnIntegers, Comparisons
<1>5. CASE op \in Shifts
  <2>1. Applied(op, l, r) = Shifted(op, l.value, r.value, Promoted(l.type))
    BY <1>5 DEF Applied
  <2> DEFINE out == Shifted(op, l.value, r.value, Promoted(l.type))
  <2>2. out = Undefined \/ (out.kind = "new" /\ out.error = "")
    BY ZenonT(40), <1>2
  <2> HIDE DEF out
  <2> QED BY <2>1, <2>2 DEF out
<1>6. CASE op \notin Shifts
  BY <1>3, <1>4, <1>6 DEF Applied, New
<1> QED BY <1>5, <1>6

(* The assigning operators and the plain ones are told apart by three      *)
(* names only.                                                             *)
LEMMA Plain ==
  ASSUME NEW op \in DOMAIN Assigning
  PROVE  LET plain == Assigning[op] IN
         /\ plain \in Arithmetic \cup OnIntegers
         /\ plain \notin DOMAIN Assigning /\ plain # "assign" /\ op # "assign"
         /\ op \notin OnIntegers
         /\ op \notin {"assign_bitwise_and", "assign_remainder"} =>
              (op \in Checked <=> plain \in Checked)
         /\ plain \in Checked \/ op \in Checked => op \in {"assign_quotient", "assign_bitwise_and", "assign_remainder"}
  BY DEF Assigning, Arithmetic, OnIntegers, Checked

(* x op= y leaves in x what x op y is, for every choice of widths.         *)
THEOREM AssigningAgrees == Spec => []AssignAgrees
<1>1. NumbersInv => AssignAgrees
  <2> SUFFICES ASSUME NumbersInv, last.op \in DOMAIN Assigning,
                      ~last.on.const, ~last.on.returned,
                      ~(last.op \in {"assign_bitwise_and", "assign_remainder"} /\ ZeroDivisor(rhs))
               PROVE  LET plain == go(Assigning[last.op], last.on, rhs) IN
                      \/ last.result.kind = plain.kind /\ last.result.error = plain.error
                      \/ /\ last.result.kind = "changed" /\ plain.kind = "new"
                         /\ lhs.value = Cast(plain.value, plain.type, lhs.type)
    BY DEF AssignAgrees
  <2> DEFINE op == last.op  l == last.on  opr == Assigning[op]  plain == go(opr, l, rhs)
  <2>1. Outcome
    BY DEF NumbersInv, Binary
  <2>2. Lvalue(l)
    BY DEF Lvalue
  <2>3. (op \in Checked /\ ZeroDivisor(rhs)) <=> (opr \in Checked /\ ZeroDivisor(rhs))
    BY Plain
  <2>4. CASE opr \in OnIntegers /\ ~AreIntegral(l, rhs)
    <3>1. plain = BadCast
      BY <2>4 DEF go
    <3>2. last.result = BadCast
      BY <2>1, <2>4 DEF Outcome, go
    <3> QED BY <3>1, <3>2
  <2>5. CASE ~(opr \in OnIntegers /\ ~AreIntegral(l, rhs)) /\ op \in Checked /\ ZeroDivisor(rhs)
    <3>1. plain = DivideByZero
      BY <2>3, <2>5, Plain DEF go
    <3>2. last.result = DivideByZero
      BY <2>1, <2>2, <2>5, Plain DEF Outcome, go
    <3> QED BY <3>1, <3>2
  <2>6. CASE ~(opr \in OnIntegers /\ ~AreIntegral(l, rhs)) /\ ~(op \in Checked /\ ZeroDivisor(rhs))
    <3>1. plain = Applied(opr, l, rhs)
      BY <2>3, <2>6, Plain DEF go
    <3>2. last.result = Assigned(op, l, rhs)
      BY <2>1, <2>2, <2>6, Plain DEF Outcome, go
    <3>3. plain = Undefined \/ (plain.kind = "new" /\ plain.error = "")
      <4>1. opr \in Arithmetic \cup OnIntegers
        BY Plain
      <4>2. LET x == Applied(opr, l, rhs) IN x = Undefined \/ (x.kind = "new" /\ x.error = "")
        BY <4>1, AppliedKind
      <4> HIDE DEF plain
      <4> QED BY <3>1, <4>2
    <3>4. CASE plain.kind = "undefined"
      <4>1. last.result = Undefined
        BY <3>1, <3>2, <3>4 DEF Assigned
      <4>2. plain = Undefined
        BY <3>3, <3>4
      <4> QED BY <4>1, <4>2
    <3>5. CASE plain.kind # "undefined"
      <4>1. last.result = Changed(l.type, Cast(plain.value, plain.type, l.type))
        BY <3>1, <3>2, <3>5 DEF Assigned
      <4>2. last.result.kind = "changed" /\ last.result.value = Cast(plain.value, plain.type, l.type)
        BY <4>1, ChangedFields
      <4>3. plain.kind = "new"
        <5>1. Undefined.kind = "undefined"
          BY DEF Undefined
        <5> HIDE DEF plain
        <5> QED BY <3>3, <3>5, <5>1
      <4>4. lhs.type = l.type /\ lhs.value = last.result.value
        BY <2>1, <4>2 DEF Outcome, Operand
      <4> QED BY <4>2, <4>3, <4>4
    <3> QED BY <3>4, <3>5
  <2> QED BY <2>4, <2>5, <2>6
<1> QED BY <1>1, OperandsKnown, PTL
-----------------------------------------------------------------------------
LEMMA QuotientIsInt ==
  ASSUME NEW m \in Int, NEW n \in Int, n # 0
  PROVE  Quotient(m, n) \in Int
<1>1. Magnitude(m) \in Nat /\ Magnitude(n) \in Nat \ {0}
  BY DEF Magnitude
<1>2. Magnitude(m) \div Magnitude(n) \in Int
  BY <1>1
<1> QED BY <1>2 DEF Quotient

LEMMA ResultExact ==
  ASSUME NEW t \in IntegralTypes, NEW n \in Int
  PROVE  (Result(n, t).kind = "new" /\ Result(n, t).value = n) \/ ~Fits(n, t)
<1>1. CASE Fits(n, t)
  <2>1. Result(n, t) = New(t, n)
    BY <1>1, WrapFits DEF Result
  <2>2. New(t, n).kind = "new" /\ New(t, n).value = n
    BY DEF New
  <2> QED BY <2>1, <2>2
<1> QED BY <1>1

(* A comparison or an arithmetic operator answers as the integers do, for  *)
(* every choice of widths.                                                 *)
THEOREM NumbersAsIntegers == Spec => []AnswersAsIntegers
<1>1. NumbersInv => AnswersAsIntegers
  <2> DEFINE op == last.op  l == last.on  m == l.value  n == rhs.value  out == last.result
             c == CommonType(l.type, rhs.type)  e == Exact(op, m, n)
  <2> SUFFICES ASSUME NumbersInv, op \in Comparisons \cup Arithmetic \cup Divisions, AreIntegral(l, rhs),
                      ~Reinterpreted(l, rhs), ~Reinterpreted(rhs, l)
               PROVE  IF op \in Comparisons THEN out = Truth(Compared(op, m, n))
                      ELSE IF op \in Divisions /\ n = 0 THEN out = DivideByZero
                      ELSE \/ out.kind = "new" /\ out.value = e
                           \/ ~HasPlace(e, l.type, rhs.type)
                           \/ op = "remainder" /\ ~HasPlace(Quotient(m, n), l.type, rhs.type)
    BY DEF AnswersAsIntegers
  <2>1. Outcome /\ Operand(l) /\ Operand(rhs)
    <3>1. op \in Binary
      BY DEF Binary, Divisions, OnIntegers, Arithmetic
    <3> QED BY <3>1 DEF NumbersInv, Outcome
  <2>2. l.type \in IntegralTypes /\ rhs.type \in IntegralTypes /\ c \in IntegralTypes /\ IsIntegral(c)
    BY <2>1, TypesDiffer, Common, IntegralFields DEF Operand, AreIntegral
  <2>3. m \in Int /\ n \in Int /\ Fits(m, l.type) /\ Fits(n, rhs.type)
    BY <2>1, <2>2, IntegralFields DEF Operand
  <2>4. Wrap(m, c) = m
    BY <2>2, <2>3, Kept
  <2>5. Wrap(n, c) = n
    BY <2>2, <2>3, Kept, SwapTypes
  <2>6. ~(op = "assign") /\ op \notin DOMAIN Assigning /\ op \notin Shifts
        /\ (op \in Checked <=> op \in Divisions)
    BY DEF Comparisons, Arithmetic, Divisions, Assigning, Shifts, Checked
  <2>7. ZeroDivisor(rhs) <=> n = 0
    BY <2>2, IntegralFields DEF ZeroDivisor
  <2>8. CASE op \in Divisions /\ n = 0
    <3>1. out = DivideByZero
      BY <2>1, <2>6, <2>7, <2>8 DEF Outcome, go
    <3>2. op \notin Comparisons
      BY <2>8 DEF Divisions, Comparisons
    <3> QED BY <2>8, <3>1, <3>2
  <2>9. CASE ~(op \in Divisions /\ n = 0)
    <3>1. out = Applied(op, l, rhs)
      BY <2>1, <2>6, <2>7, <2>9 DEF Outcome, go
    <3>2. CASE op \in Comparisons
      BY <2>2, <2>4, <2>5, <2>6, <2>9, <3>1, <3>2 DEF Applied
    <3>3. CASE op \notin Comparisons
      <4>1. out = Computed(op, m, n, c)
        BY <2>2, <2>4, <2>5, <2>6, <3>1, <3>3 DEF Applied
      <4>2. \A x \in Int : HasPlace(x, l.type, rhs.type) => Fits(x, c)
        BY <2>2, HasPlaceFits
      <4>3. \A x \in Int : \/ Result(x, c).kind = "new" /\ Result(x, c).value = x
                          \/ ~HasPlace(x, l.type, rhs.type)
        BY <2>2, <4>2, ResultExact
      <4>4. CASE op = "sum"
        <5>1. e = m + n /\ e \in Int /\ out = Result(e, c)
          BY <2>3, <4>1, <4>4 DEF Exact, Computed, Divisions
        <5> QED BY <2>9, <3>3, <4>3, <5>1
      <4>5. CASE op = "difference"
        <5>1. e = m - n /\ e \in Int /\ out = Result(e, c)
          BY <2>3, <4>1, <4>5 DEF Exact, Computed, Divisions
        <5> QED BY <2>9, <3>3, <4>3, <5>1
      <4>6. CASE op = "product"
        <5>1. e = m * n /\ out = Result(e, c)
          BY <2>3, <4>1, <4>6 DEF Exact, Computed, Divisions
        <5>2. e \in Int
          BY <2>3, <5>1
        <5> QED BY <2>9, <3>3, <4>3, <5>1, <5>2
      <4>7. CASE op = "quotient"
        <5>1. n # 0
          BY <2>9, <4>7 DEF Divisions
        <5>2. e = Quotient(m, n) /\ out = Result(e, c)
          BY <4>1, <4>7, <5>1 DEF Exact, Computed, Divisions
        <5>3. e \in Int
          BY <2>3, <5>1, <5>2, QuotientIsInt
        <5> QED BY <2>9, <3>3, <4>3, <5>2, <5>3
      <4>8. CASE op = "remainder"
        <5>1. n # 0
          BY <2>9, <4>8 DEF Divisions
        <5>2. e = m - n * Quotient(m, n)
              /\ out = IF Fits(Quotient(m, n), c) THEN New(c, e) ELSE Undefined
          BY <4>1, <4>8, <5>1 DEF Exact, Computed, Divisions
        <5>3. Quotient(m, n) \in Int
          BY <2>3, <5>1, QuotientIsInt
        <5>4. CASE Fits(Quotient(m, n), c)
          <6>1. out = New(c, e)
            BY <5>2, <5>4
          <6>2. New(c, e).kind = "new" /\ New(c, e).value = e
            BY DEF New
          <6>3. out.kind = "new" /\ out.value = e
            BY <6>1, <6>2
          <6> HIDE DEF e
          <6> QED BY <2>9, <3>3, <6>3
        <5>5. CASE ~Fits(Quotient(m, n), c)
          BY <2>9, <3>3, <4>2, <4>8, <5>3, <5>5
        <5> QED BY <5>4, <5>5
      <4> QED BY <3>3, <4>4, <4>5, <4>6, <4>7, <4>8 DEF Arithmetic, Divisions
    <3> QED BY <3>2, <3>3
  <2> QED BY <2>8, <2>9
<1> QED BY <1>1, OperandsKnown, PTL
-------------------------------------------------------------------------------
BoxesOK ==
  /\ bound \in [Names -> Ids \cup {None}]
  /\ data \in [Ids -> Box]
  /\ updating \in Used \cup {None}
  /\ isConst \subseteq Held /\ isConst \cap Hosted \subseteq HostConst
  /\ sharing \subseteq Held \ Hosted

(* One box: its pointers, what it holds of the objects made const, and     *)
(* what it is like while a function may change its smart pointer.          *)
PointersOf(b) ==
  /\ b.cptr = b.obj
  /\ b.ptr = IF b.const THEN None ELSE b.obj
Settled(b) == b.lent \/ PointersOf(b)
Harmless(b, const) ==
  /\ ~b.const => b.obj \notin const
  /\ b.kind = "unique" => ~b.const /\ ~b.borrowed /\ b.obj \notin Hosted
Updatable(b) == ~b.const /\ (b.kind = "shared" \/ (b.kind = "unique" /\ Settled(b)))

Current ==
  /\ \A d \in Used \ {None, updating} : Settled(data[d])
  /\ updating # None => Updatable(data[updating])
Writable == \A d \in Used \ {None} : Harmless(data[d], isConst)

(* The Data that must have an object of their own.                         *)
Alone(d) == d \in Used \ {None} /\ (data[d].temp \/ \E n \in Names \ Parameters : bound[n] = d)
Named ==
  /\ \A n \in Names \ Parameters : bound[n] # None => ~data[bound[n]].temp
  /\ \A n, m \in Names \ Parameters : n # m /\ bound[n] = bound[m] => bound[n] = None
Apart ==
  \A d, e \in Ids : Alone(d) /\ Alone(e) /\ d # e /\ data[d].obj = data[e].obj =>
    \/ data[d].obj \in sharing \cup Hosted \cup {None}
    \/ data[d].borrowed \/ data[e].borrowed

BoxesInv == BoxesOK /\ Current /\ Writable /\ Named /\ Apart
-----------------------------------------------------------------------------
(* A step changes one Data, x, but for the temporaries it takes over, and  *)
(* makes only new objects const.                                           *)
Others(x) ==
  \A e \in Used' \ {None, x} :
    /\ e \in Used
    /\ data'[e] = data[e] \/ data'[e] = [data[e] EXCEPT !.temp = FALSE]
NewConst == isConst' \cap Held \subseteq isConst

(* What a Data has after a step that nothing else had alone before.        *)
Lonely(x) ==
  \/ data'[x].obj \notin Held
  \/ data'[x].obj \in sharing' \cup Hosted \cup {None}
  \/ data'[x].borrowed
  \/ \E y \in Ids : /\ Alone(y) /\ (y = x \/ ~Alone(y)')
                    /\ data'[x].obj = data[y].obj /\ data'[x].borrowed = data[y].borrowed

LEMMA CurrentKept ==
  ASSUME BoxesInv, BoxesOK', NEW x \in Ids, Others(x),
         \A e \in Used' \ {None, x, updating'} : e # updating,
         x \in Used' \ {None, updating'} => Settled(data'[x]),
         updating' # None => Updatable(data'[updating'])
  PROVE  Current'
<1>1. ASSUME NEW e \in Used' \ {None, updating'}, e # x
      PROVE  Settled(data'[e])
  <2>1. e \in Used \ {None, updating} /\ e \in Ids
    BY <1>1 DEF Others, BoxesOK, Used
  <2>2. data[e] \in Box /\ Settled(data[e])
    BY <2>1 DEF BoxesInv, BoxesOK, Current
  <2>3. CASE data'[e] = data[e]
    BY <2>2, <2>3
  <2>4. CASE data'[e] = [data[e] EXCEPT !.temp = FALSE]
    BY <2>2, <2>4 DEF Settled, PointersOf, Box
  <2> QED  BY <2>1, <2>3, <2>4, <1>1 DEF Others
<1> QED  BY <1>1 DEF Current

LEMMA WritableKept ==
  ASSUME BoxesInv, BoxesOK', NEW x \in Ids, Others(x), NewConst,
         x \in Used' => Harmless(data'[x], isConst')
  PROVE  Writable'
<1>1. ASSUME NEW e \in Used' \ {None}, e # x
      PROVE  Harmless(data'[e], isConst')
  <2>1. e \in Used \ {None} /\ e \in Ids
    BY <1>1 DEF Others, BoxesOK, Used
  <2>2. data[e] \in Box /\ Harmless(data[e], isConst)
    BY <2>1 DEF BoxesInv, BoxesOK, Writable
  <2>3. data[e].obj \in Held \cup {None} /\ None \notin Held'
    BY <2>1 DEF Held
  <2>4. data[e].obj \in isConst' => data[e].obj \in isConst
    BY <2>3 DEF NewConst, BoxesOK
  <2>5. Harmless(data[e], isConst')
    BY <2>2, <2>4 DEF Harmless
  <2>6. CASE data'[e] = data[e]
    BY <2>5, <2>6
  <2>7. CASE data'[e] = [data[e] EXCEPT !.temp = FALSE]
    BY <2>2, <2>5, <2>7 DEF Harmless, Box
  <2> QED  BY <2>6, <2>7, <1>1 DEF Others
<1> QED  BY <1>1 DEF Writable

LEMMA ApartKept ==
  ASSUME BoxesInv, BoxesOK', NEW x \in Ids, Others(x),
         sharing \cap Held' \subseteq sharing',
         \A e \in Ids \ {x} : Alone(e)' => Alone(e),
         Alone(x)' => Lonely(x)
  PROVE  Apart'
<1>1. \A e \in Ids \ {x} :
        Alone(e)' => data'[e].obj = data[e].obj /\ data'[e].borrowed = data[e].borrowed /\ Alone(e)
  <2> SUFFICES ASSUME NEW e \in Ids \ {x}, Alone(e)'
               PROVE  data'[e].obj = data[e].obj /\ data'[e].borrowed = data[e].borrowed
    OBVIOUS
  <2>1. e \in Used' \ {None, x} /\ data[e] \in Box
    BY DEF Alone, BoxesInv, BoxesOK
  <2> QED  BY <2>1 DEF Others, Box
<1>2. \A e \in Ids : Alone(e) => data[e].obj \in Held \cup {None}
  BY DEF Alone, Held
<1>3. \A e \in Ids : Alone(e)' => data'[e].obj \in Held' \cup {None}
  BY DEF Alone, Held
<1>4. ASSUME NEW d \in Ids \ {x}, NEW e \in Ids \ {x}, Alone(d)', Alone(e)', d # e,
             data'[d].obj = data'[e].obj
      PROVE  \/ data'[d].obj \in sharing' \cup Hosted \cup {None}
             \/ data'[d].borrowed \/ data'[e].borrowed
  BY <1>1, <1>3, <1>4 DEF BoxesInv, Apart
<1>5. ASSUME NEW e \in Ids \ {x}, Alone(x)', Alone(e)', data'[x].obj = data'[e].obj
      PROVE  \/ data'[x].obj \in sharing' \cup Hosted \cup {None}
             \/ data'[x].borrowed \/ data'[e].borrowed
  <2>1. CASE data'[x].obj \notin Held
    BY <1>1, <1>2, <1>5, <2>1
  <2>2. CASE \E y \in Ids : /\ Alone(y) /\ (y = x \/ ~Alone(y)')
                            /\ data'[x].obj = data[y].obj /\ data'[x].borrowed = data[y].borrowed
    <3>1. PICK y \in Ids : /\ Alone(y) /\ (y = x \/ ~Alone(y)')
                           /\ data'[x].obj = data[y].obj /\ data'[x].borrowed = data[y].borrowed
      BY <2>2
    <3>2. y # e /\ Alone(e) /\ data[y].obj = data[e].obj /\ data'[e].borrowed = data[e].borrowed
      BY <3>1, <1>1, <1>5
    <3> QED  BY <3>1, <3>2, <1>3, <1>5 DEF BoxesInv, Apart
  <2> QED  BY <2>1, <2>2, <1>5 DEF Lonely
<1> QED  BY <1>4, <1>5 DEF Apart
-----------------------------------------------------------------------------
(* The values of an expression: what is new of their Data, and where its   *)
(* object comes from.                                                      *)
ValueOK(v, d, o) ==
  /\ v.id \in Ids /\ v.data \in [Ids -> Box]
  /\ \A e \in Ids \ {v.id} : v.data[e] = data[e]
  /\ Settled(BoxOf(v)) /\ Harmless(BoxOf(v), v.isConst)
  /\ \/ /\ v.from = "variable" /\ v.isConst = isConst
        /\ v.id \in Used \ {None, updating}
        /\ BoxOf(v) = data[v.id] \/ (data[v.id].temp /\ BoxOf(v) = [data[v.id] EXCEPT !.temp = FALSE])
     \/ /\ v.from = "given" /\ v.isConst = isConst
        /\ v.id = d /\ BoxOf(v).obj \in Held \cup {None}
        /\ BoxOf(v).temp => BoxOf(v).borrowed \/ BoxOf(v).obj \in Hosted \cup {None}
     \/ /\ v.from = "made" /\ v.isConst \in {isConst, isConst \cup {o}}
        /\ v.id = d /\ BoxOf(v).obj = o

LEMMA NewBoxType ==
  ASSUME NEW kind \in {"shared", "ref", "unique"}, NEW o \in Objects \cup {None},
         NEW const \in BOOLEAN, NEW temp \in BOOLEAN
  PROVE  /\ NewBox(kind, o, const, temp) \in Box
         /\ PointersOf(NewBox(kind, o, const, temp))
BY DEF NewBox, Box, PointersOf

LEMMA UndefType == Undef \in Box /\ PointersOf(Undef) /\ Undef.obj = None /\ ~Undef.temp /\ ~Undef.const
                   /\ Undef.kind = "none"
BY DEF Undef, NewBox, Box, PointersOf

LEMMA VariableValue ==
  ASSUME BoxesInv, NEW d \in Ids, NEW o \in Objects, NEW v \in Variables
  PROVE  ValueOK(v, d, o)
<1>1. PICK n \in Names : Usable(n) /\ v = Value(bound[n], data, isConst, "variable")
  BY DEF Variables
<1>2. bound[n] \in Used \ {None, updating} /\ bound[n] \in Ids
  BY <1>1 DEF Usable, BoxesInv, BoxesOK, Used
<1>3. Settled(data[bound[n]]) /\ Harmless(data[bound[n]], isConst)
  BY <1>2 DEF BoxesInv, Current, Writable
<1> QED  BY <1>1, <1>2, <1>3 DEF Value, ValueOK, BoxOf, BoxesInv, BoxesOK

LEMMA MadeValue ==
  ASSUME BoxesInv, NEW d \in Ids \ Used, NEW o \in Objects \ Held, NEW v \in Made(d, o)
  PROVE  ValueOK(v, d, o)
<1>1. PICK b \in MadeBoxes(o) :
        v = Value(d, [data EXCEPT ![d] = b], isConst \cup (IF b.const THEN {o} ELSE {}), "made")
  BY DEF Made
<1>2. b \in Box /\ PointersOf(b) /\ b.obj = o /\ ~b.borrowed /\ (b.kind = "unique" => ~b.const)
  <2>1. \E kind \in {"shared", "unique"}, const \in BOOLEAN, temp \in BOOLEAN :
          b = NewBox(kind, o, const, temp) /\ (kind = "unique" => ~const)
    BY <1>1 DEF MadeBoxes
  <2> QED  BY <2>1, NewBoxType DEF NewBox
<1>3. Harmless(b, isConst \cup (IF b.const THEN {o} ELSE {}))
  <2>1. o \notin isConst /\ o \notin Hosted
    BY BoxesAssumption DEF BoxesInv, BoxesOK, Held
  <2> QED  BY <1>2, <2>1 DEF Harmless
<1>4. /\ v.id = d /\ v.data = [data EXCEPT ![d] = b] /\ v.from = "made"
      /\ v.isConst = isConst \cup (IF b.const THEN {o} ELSE {})
  BY <1>1 DEF Value
<1>5. v.data \in [Ids -> Box] /\ BoxOf(v) = b /\ \A e \in Ids \ {d} : v.data[e] = data[e]
  BY <1>2, <1>4 DEF BoxOf, BoxesInv, BoxesOK
<1> QED  BY <1>2, <1>3, <1>4, <1>5 DEF ValueOK, Settled

(* What a function is given it can give back, as const as it got it.       *)
LEMMA GivenObject ==
  ASSUME BoxesInv, NEW to \in ReadingCasts \cup WritingCasts, NEW x \in Given(to)
  PROVE  x \in Held /\ x \in Objects /\ (to \in WritingCasts => x \notin isConst)
<1>1. PICK n \in Names : Sound(n) /\ x = Cast_Helper(data[bound[n]], to).obj /\ x # None
  BY DEF Given
<1> DEFINE b == data[bound[n]]
<1>2. bound[n] \in Used \ {None, updating} /\ b \in Box
  BY <1>1 DEF Sound, Usable, BoxesInv, BoxesOK, Used
<1>3. PointersOf(b) /\ Harmless(b, isConst)
  BY <1>1, <1>2 DEF BoxesInv, Current, Writable, Settled, Sound
<1>4. b.obj \in (Held \cup {None}) \cap (Objects \cup {None})
  BY <1>2 DEF Held, Box
<1> HIDE DEF b
<1>5. x = b.obj /\ (to \in WritingCasts => ~b.const)
  <2>1. x = Cast_Helper(b, to).obj /\ x # None
    BY <1>1 DEF b
  <2> USE <2>1, <1>3 DEF PointersOf, Harmless, Cast_Helper, verify_type, Refused, Yields
  <2>2. CASE b.kind = "none"
    BY <2>2
  <2>3. CASE b.kind # "none" /\ to \in {"const T&", "const T*"}
    BY <2>3 DEF WritingCasts
  <2>4. CASE b.kind # "none" /\ to \in {"T&", "T*"}
    BY <2>4
  <2>5. CASE b.kind # "none" /\ to = "shared_ptr<const T>"
    BY <2>5 DEF WritingCasts
  <2>6. CASE b.kind # "none" /\ to = "shared_ptr<T>"
    BY <2>6
  <2>7. CASE b.kind # "none" /\ to = "unique_ptr<T>&"
    BY <2>7
  <2> QED  BY <2>2, <2>3, <2>4, <2>5, <2>6, <2>7 DEF ReadingCasts, WritingCasts
<1> QED  BY <1>1, <1>3, <1>4, <1>5 DEF Harmless

LEMMA GivenValue ==
  ASSUME BoxesInv, NEW d \in Ids \ Used, NEW o \in Objects, NEW v \in Passed(d)
  PROVE  ValueOK(v, d, o)
<1>0. PICK g \in GivenBoxes : v = Value(d, [data EXCEPT ![d] = Borrowing(g)], isConst, "given")
  BY DEF Passed
<1> DEFINE b == Borrowing(g)
<1>2. Hosted \subseteq Held \cap Objects /\ None \notin isConst
      /\ \A x \in Hosted \ HostConst : x \notin isConst
  BY BoxesAssumption DEF Held, BoxesInv, BoxesOK
<1>3. \A to \in {"const T&", "shared_ptr<const T>"} : Given(to) \subseteq Held \cap Objects
  BY GivenObject DEF ReadingCasts, WritingCasts
<1>4. \A to \in {"T&", "T*", "shared_ptr<T>"} :
        Given(to) \subseteq Held \cap Objects /\ \A x \in Given(to) : x \notin isConst
  BY GivenObject DEF ReadingCasts, WritingCasts
<1>5. PICK kind \in {"shared", "ref"}, x \in (Held \cap Objects) \cup {None},
           const \in BOOLEAN, temp \in BOOLEAN :
        g = NewBox(kind, x, const, temp) /\ (~const => x \notin isConst)
  <2>1. CASE g \in ConstRefs
    BY <2>1, <1>2, <1>3 DEF ConstRefs
  <2>2. CASE g \in Refs
    BY <2>2, <1>2, <1>4 DEF Refs
  <2>5. CASE g \in RawPointers
    BY <2>5, <1>2, <1>4 DEF RawPointers
  <2>3. CASE g \in ConstPointers
    BY <2>3, <1>2, <1>3 DEF ConstPointers
  <2>4. CASE g \in Pointers
    BY <2>4, <1>2, <1>4 DEF Pointers
  <2> QED  BY <1>0, <2>1, <2>2, <2>3, <2>4, <2>5 DEF GivenBoxes
<1>6. /\ b \in Box /\ Settled(b) /\ b.obj = x /\ Harmless(b, isConst)
      /\ b.temp => b.borrowed \/ b.obj \in Hosted \cup {None}
  <2>1. g \in Box /\ PointersOf(g) /\ g.obj = x /\ Harmless(g, isConst) /\ g.kind # "unique"
    BY <1>5, NewBoxType DEF NewBox, Harmless
  <2>2. b = [g EXCEPT !.borrowed = g.temp /\ g.obj \notin Hosted \cup {None}]
    BY DEF Borrowing
  <2> HIDE DEF b
  <2>3. \E p \in BOOLEAN : b = [g EXCEPT !.borrowed = p] /\ (p <=> g.temp /\ g.obj \notin Hosted \cup {None})
    BY <2>2
  <2> QED  BY <2>1, <2>3 DEF Box, PointersOf, Settled, Harmless
<1> HIDE DEF b
<1>1. v = Value(d, [data EXCEPT ![d] = b], isConst, "given")
  BY <1>0 DEF b
<1>7. v.id = d /\ v.data = [data EXCEPT ![d] = b] /\ v.from = "given" /\ v.isConst = isConst
  BY <1>1 DEF Value
<1>8. v.data \in [Ids -> Box] /\ BoxOf(v) = b /\ \A e \in Ids \ {d} : v.data[e] = data[e]
  BY <1>6, <1>7 DEF BoxOf, BoxesInv, BoxesOK
<1> QED  BY <1>5, <1>6, <1>7, <1>8 DEF ValueOK

LEMMA ResultValue ==
  ASSUME BoxesInv, NEW d \in Ids \ Used, NEW o \in Objects \ Held, NEW v \in Results(d, o)
  PROVE  ValueOK(v, d, o)
BY VariableValue, MadeValue, GivenValue DEF Results

(* A declared value is new, or nothing else has a use for it.              *)
LEMMA ClonedValue ==
  ASSUME BoxesInv, NEW d \in Ids \ Used, NEW o \in Objects \ Held, NEW v \in Results(d, o),
         NEW c \in clone_if_necessary(v, d, o)
  PROVE  /\ ValueOK(c, d, o) /\ ~BoxOf(c).temp
         /\ c.from = "variable" => data[c.id].temp /\ BoxOf(c).borrowed = data[c.id].borrowed
         /\ c.from = "given" => BoxOf(c).borrowed \/ BoxOf(c).obj \in Hosted \cup {None}
<1>1. ValueOK(v, d, o) /\ (v.from = "variable" => v.data = data)
  BY ResultValue DEF Results, Variables, Made, Passed, Value
<1>2. CASE BoxOf(v).temp /\ c = TakenOver(v)
  <2>1. v = [id |-> v.id, data |-> v.data, isConst |-> v.isConst, from |-> v.from]
    BY DEF Results, Variables, Made, Passed, Value
  <2>2. /\ c.id = v.id /\ c.data = [v.data EXCEPT ![v.id] = [BoxOf(v) EXCEPT !.temp = FALSE]]
        /\ c.isConst = v.isConst /\ c.from = v.from
    BY <1>2, <2>1 DEF TakenOver, BoxOf
  <2>3. BoxOf(v) \in Box
    BY <1>1 DEF ValueOK, BoxOf
  <2> DEFINE b == [BoxOf(v) EXCEPT !.temp = FALSE]
  <2>7. b \in Box
    BY <2>3 DEF Box
  <2> HIDE DEF b
  <2>8. c.data = [v.data EXCEPT ![v.id] = b]
    BY <2>2 DEF b
  <2>9. c.data \in [Ids -> Box] /\ BoxOf(c) = b /\ \A e \in Ids \ {c.id} : c.data[e] = data[e]
    BY <1>1, <2>2, <2>7, <2>8 DEF ValueOK, BoxOf
  <2>4. c.data \in [Ids -> Box] /\ BoxOf(c) = [BoxOf(v) EXCEPT !.temp = FALSE]
        /\ \A e \in Ids \ {c.id} : c.data[e] = data[e]
    BY <2>9 DEF b
  <2>5. /\ ~BoxOf(c).temp /\ BoxOf(c).obj = BoxOf(v).obj /\ BoxOf(c).borrowed = BoxOf(v).borrowed
        /\ Settled(BoxOf(c)) /\ Harmless(BoxOf(c), c.isConst)
    BY <1>1, <2>2, <2>3, <2>4 DEF ValueOK, Box, Settled, PointersOf, Harmless
  <2>6. c.from = "variable" => data[c.id].temp /\ BoxOf(c) = [data[c.id] EXCEPT !.temp = FALSE]
    BY <1>1, <1>2, <2>2, <2>4 DEF ValueOK, BoxOf
  <2>10. c.from = "variable" => BoxOf(v) = data[c.id]
    BY <1>1, <2>2 DEF ValueOK, BoxOf
  <2>11. c.from = "given" => BoxOf(c).borrowed \/ BoxOf(c).obj \in Hosted \cup {None}
    BY <1>1, <1>2, <2>2, <2>5 DEF ValueOK
  <2> QED  BY <1>1, <2>2, <2>4, <2>5, <2>6, <2>10, <2>11 DEF ValueOK
<1>3. CASE c = Copied(v, d, o) /\ ~BoxOf(v).temp
  <2> DEFINE b == NewBox("shared", o, FALSE, FALSE)
  <2>1. b \in Box /\ PointersOf(b) /\ b.obj = o /\ ~b.temp /\ ~b.const /\ b.kind = "shared"
    BY NewBoxType DEF NewBox
  <2> HIDE DEF b
  <2>2. c.id = d /\ c.data = [v.data EXCEPT ![d] = b] /\ c.isConst = isConst /\ c.from = "made"
    BY <1>3 DEF Copied, Value, b
  <2>3. \A e \in Ids \ {d} : v.data[e] = data[e]
    BY <1>1, <1>3 DEF ValueOK, BoxOf
  <2> QED  BY <1>1, <2>1, <2>2, <2>3 DEF ValueOK, BoxOf, Harmless, BoxesInv, BoxesOK, Settled
<1> QED  BY <1>2, <1>3 DEF clone_if_necessary
-----------------------------------------------------------------------------
LEMMA TypesKept ==
  ASSUME BoxesInv, NEW const, NEW share,
         const \cap Held \subseteq isConst, sharing \subseteq share, Keep(const, share),
         bound' \in [Names -> Ids \cup {None}], data' \in [Ids -> Box],
         updating' \in Used' \cup {None}
  PROVE  BoxesOK' /\ NewConst /\ sharing \cap Held' \subseteq sharing'
<1>1. Hosted \subseteq Held /\ Hosted \subseteq Held'
  BY BoxesAssumption DEF Held
<1>2. isConst' = const \cap Held' /\ sharing' = share \cap (Held' \ Hosted)
  BY DEF Keep
<1> QED  BY <1>1, <1>2 DEF BoxesOK, NewConst, BoxesInv

LEMMA Sources ==
  ASSUME BoxesInv, NEW d \in Ids \ Used, NEW o \in Objects \ Held, NEW v, ValueOK(v, d, o)
  PROVE  /\ v.isConst \cap Held \subseteq isConst
         /\ BoxOf(v) \in Box /\ v.id # None /\ v.id # updating
         /\ v.from = "made" => BoxOf(v).obj \notin Held
         /\ v.from = "variable" => v.id \in Used /\ data[v.id] \in Box /\ BoxOf(v).obj = data[v.id].obj
                                    /\ (BoxOf(v).temp => data[v.id].temp)
         /\ v.from # "variable" => v.id = d
<1>1. v.isConst \cap Held \subseteq isConst /\ BoxOf(v) \in Box /\ v.id # None
  BY BoxesAssumption DEF ValueOK, BoxOf
<1>2. v.from # "variable" => v.id = d
  BY DEF ValueOK
<1>3. v.id # updating
  BY BoxesAssumption DEF ValueOK, BoxesInv, BoxesOK
<1>4. v.from = "made" => BoxOf(v).obj \notin Held
  BY DEF ValueOK
<1>5. ASSUME v.from = "variable"
      PROVE  v.id \in Used /\ data[v.id] \in Box /\ BoxOf(v).obj = data[v.id].obj
             /\ (BoxOf(v).temp => data[v.id].temp)
  <2>1. v.id \in Used /\ data[v.id] \in Box
    BY <1>5 DEF ValueOK, BoxesInv, BoxesOK
  <2>2. BoxOf(v) = data[v.id] \/ (data[v.id].temp /\ BoxOf(v) = [data[v.id] EXCEPT !.temp = FALSE])
    BY <1>5 DEF ValueOK
  <2> QED  BY <2>1, <2>2 DEF Box
<1> QED  BY <1>1, <1>2, <1>3, <1>4, <1>5

(* A name that has no value gets one.                                      *)
LEMMA NameKept ==
  ASSUME BoxesInv, NEW d \in Ids \ Used, NEW o \in Objects \ Held, NEW n \in Names, NEW c, NEW share,
         ValueOK(c, d, o), bound[n] = None,
         bound' = [bound EXCEPT ![n] = c.id], data' = c.data, updating' = updating,
         Keep(c.isConst, share), sharing \subseteq share,
         n \notin Parameters => ~BoxOf(c).temp,
         c.from = "given" =>
           \/ BoxOf(c).borrowed \/ BoxOf(c).obj \in share \cup Hosted \cup {None}
           \/ n \in Parameters /\ ~BoxOf(c).temp,
         BoxOf(c).borrowed = data[c.id].borrowed \/ c.from # "variable",
         c.from = "variable" => n \in Parameters \/ data[c.id].temp
  PROVE  BoxesInv'
<1> DEFINE x == c.id
<1>1. x \in Ids /\ c.data \in [Ids -> Box] /\ (\A e \in Ids \ {x} : c.data[e] = data[e])
      /\ Settled(data'[x]) /\ Harmless(data'[x], c.isConst) /\ data'[x] = BoxOf(c)
  BY DEF ValueOK, BoxOf
<1>2. /\ c.isConst \cap Held \subseteq isConst /\ x # None /\ x # updating
      /\ c.from = "made" => BoxOf(c).obj \notin Held
      /\ c.from = "variable" => x \in Used /\ data[x] \in Box /\ BoxOf(c).obj = data[x].obj
                                 /\ (BoxOf(c).temp => data[x].temp)
      /\ c.from # "variable" => x = d
  BY Sources
<1>3. Used' \subseteq Used \cup {x} /\ x \in Used' /\ Used \ {None} \subseteq Used'
      /\ \A m \in Names : bound'[m] = IF m = n THEN x ELSE bound[m]
  BY DEF Used, BoxesInv, BoxesOK
<1>4. BoxesOK' /\ NewConst /\ sharing \cap Held' \subseteq sharing'
  <2>1. bound' \in [Names -> Ids \cup {None}] /\ updating' \in Used' \cup {None}
    BY <1>1, <1>3 DEF BoxesInv, BoxesOK
  <2> QED  BY <1>1, <1>2, <2>1, TypesKept
<1>5. Others(x)
  BY <1>1, <1>3 DEF Others, BoxesInv, BoxesOK, Used
<1>12. c.from = "variable" => data'[x].borrowed = data[x].borrowed
  BY <1>1
<1> HIDE DEF x
<1>6. Current'
  <2>1. updating # None => updating \in Ids \ {x}
    BY <1>2 DEF BoxesInv, BoxesOK, Used
  <2>2. updating' # None => Updatable(data'[updating'])
    BY <2>1, <1>1 DEF BoxesInv, Current
  <2> QED  BY <1>1, <1>4, <1>5, <2>2, CurrentKept
<1>7. Writable'
  <2>1. Harmless(data'[x], isConst')
    BY <1>1 DEF Harmless, Keep
  <2> QED  BY <1>1, <1>4, <1>5, <2>1, WritableKept
<1>8. \A m \in Names \ Parameters : n \notin Parameters /\ m # n => bound[m] # x
  <2> SUFFICES ASSUME NEW m \in Names \ Parameters, n \notin Parameters, bound[m] = x
               PROVE  FALSE
    OBVIOUS
  <2>1. x \in Used
    BY DEF Used
  <2>2. c.from = "variable" /\ data[x].temp
    BY <1>2, <2>1 DEF x
  <2> QED  BY <1>2, <2>2 DEF BoxesInv, Named
<1>9. \A e \in Used \cap Ids : data'[e].temp => data[e].temp
  <2>1. x \in Used => (data'[x].temp => data[x].temp)
    BY <1>1, <1>2
  <2> QED  BY <1>1, <2>1
<1>10. Named'
  <2>1. ASSUME NEW m \in Names \ Parameters, bound'[m] # None
        PROVE  ~data'[bound'[m]].temp
    <3>1. CASE m = n
      BY <3>1, <1>1, <1>3
    <3>2. CASE m # n
      <4>1. bound'[m] \in Used \cap Ids /\ ~data[bound[m]].temp /\ bound'[m] = bound[m]
        BY <3>2, <2>1, <1>3 DEF BoxesInv, BoxesOK, Named, Used
      <4> QED  BY <4>1, <1>9
    <3> QED  BY <3>1, <3>2
  <2>2. ASSUME NEW l \in Names \ Parameters, NEW m \in Names \ Parameters, l # m, bound'[l] = bound'[m]
        PROVE  bound'[l] = None
    BY <2>2, <1>3, <1>8, <1>2 DEF BoxesInv, Named
  <2> QED  BY <2>1, <2>2 DEF Named
<1>11. Apart'
  <2>1. ASSUME NEW e \in Ids \ {x}, Alone(e)'
        PROVE  Alone(e)
    <3>1. e \in Used' \ {None} /\ (data'[e].temp \/ \E m \in Names \ Parameters : bound'[m] = e)
      BY <2>1 DEF Alone
    <3> QED  BY <3>1, <1>1, <1>3 DEF Alone
  <2>2. Alone(x)' => Lonely(x)
    <3>1. CASE c.from = "made"
      BY <3>1, <1>1, <1>2 DEF Lonely
    <3>2. CASE c.from = "given"
      <4>1. data'[x].obj \in Held' \cup {None}
        BY <1>2, <1>3 DEF Held
      <4>2. n \in Parameters /\ ~BoxOf(c).temp => ~Alone(x)'
        <5>1. x \notin Used
          BY <3>2, <1>2
        <5>2. \A m \in Names \ {n} : bound'[m] # x
          BY <5>1, <1>3 DEF Used
        <5> QED  BY <5>2, <1>1 DEF Alone
      <4> QED  BY <3>2, <4>1, <4>2, <1>1 DEF Lonely, Keep
    <3>3. CASE c.from = "variable"
      <4>1. Alone(x)' => Alone(x)
        <5>1. CASE data[x].temp
          BY <5>1, <3>3, <1>2 DEF Alone
        <5>2. CASE ~data[x].temp
          BY <5>2, <3>3, <1>1, <1>2, <1>3 DEF Alone, x
        <5> QED  BY <5>1, <5>2
      <4> QED  BY <4>1, <3>3, <1>1, <1>2, <1>12 DEF Lonely
    <3> QED  BY <3>1, <3>2, <3>3 DEF ValueOK
  <2> QED  BY <1>1, <1>4, <1>5, <2>1, <2>2, ApartKept
<1> QED  BY <1>4, <1>6, <1>7, <1>10, <1>11 DEF BoxesInv

(* A variable's Data is overwritten with that of a value.                  *)
LEMMA AssignKept ==
  ASSUME BoxesInv, NEW d \in Ids \ Used, NEW o \in Objects \ Held, NEW n \in Names, NEW c, NEW b,
         NEW share, NEW old \in {data, c.data},
         ValueOK(c, d, o), Usable(n),
         b \in Box, Settled(b), Harmless(b, c.isConst), ~b.temp, b.obj = BoxOf(c).obj,
         bound' = bound, data' = [old EXCEPT ![bound[n]] = b], updating' = updating,
         Keep(c.isConst, share), sharing \subseteq share,
         c.from = "given" => b.borrowed \/ b.obj \in share \cup Hosted \cup {None},
         c.from = "variable" =>
           \/ b.obj \in share \cup Hosted \cup {None}
           \/ /\ data[c.id].temp /\ ~BoxOf(c).temp /\ old = c.data
              /\ b.borrowed = data[c.id].borrowed
  PROVE  BoxesInv'
<1> DEFINE x == bound[n]
<1>1. x \in Used /\ x \in Ids /\ x # None /\ x # updating
  BY DEF Usable, Used, BoxesInv, BoxesOK
<1>2. /\ c.isConst \cap Held \subseteq isConst
      /\ c.from = "made" => BoxOf(c).obj \notin Held
      /\ c.from = "variable" => c.id \in Used /\ data[c.id] \in Box /\ BoxOf(c).obj = data[c.id].obj
                                 /\ (BoxOf(c).temp => data[c.id].temp)
      /\ c.from # "variable" => c.id = d
  BY Sources
<1>3. Used' = Used /\ old \in [Ids -> Box]
  BY DEF Used, ValueOK, BoxesInv, BoxesOK
<1>4. data' \in [Ids -> Box] /\ data'[x] = b /\ \A e \in Ids \ {x} : data'[e] = old[e]
  BY <1>1, <1>3
<1> HIDE DEF x
<1>5. \A e \in (Used \cap Ids) \ {x} :
        data'[e] = data[e] \/ (data[e].temp /\ data'[e] = [data[e] EXCEPT !.temp = FALSE])
  <2>1. ASSUME NEW e \in (Used \cap Ids) \ {x}, e = c.id
        PROVE  c.data[e] = data[e] \/ (data[e].temp /\ c.data[e] = [data[e] EXCEPT !.temp = FALSE])
    BY <2>1, <1>2 DEF ValueOK, BoxOf
  <2>2. ASSUME NEW e \in (Used \cap Ids) \ {x}, e # c.id
        PROVE  c.data[e] = data[e]
    BY <2>2 DEF ValueOK
  <2> QED  BY <2>1, <2>2, <1>4, old \in {data, c.data}
<1>6. BoxesOK' /\ NewConst /\ sharing \cap Held' \subseteq sharing'
  <2>1. bound' \in [Names -> Ids \cup {None}] /\ updating' \in Used' \cup {None}
    BY <1>3 DEF BoxesInv, BoxesOK
  <2> QED  BY <1>2, <1>4, <2>1, TypesKept
<1>7. Used \ {None} \subseteq Ids
  BY DEF Used, BoxesInv, BoxesOK
<1>8. Others(x)
  BY <1>3, <1>5, <1>7 DEF Others
<1>9. Current'
  <2>1. ASSUME updating # None
        PROVE  Updatable(data'[updating])
    <3>1. updating \in (Used \cap Ids) \ {x}
      BY <2>1, <1>1, <1>7 DEF BoxesInv, BoxesOK
    <3>2. data[updating] \in Box /\ Updatable(data[updating])
      BY <2>1, <3>1 DEF BoxesInv, BoxesOK, Current
    <3>3. data'[updating] = data[updating] \/ data'[updating] = [data[updating] EXCEPT !.temp = FALSE]
      BY <3>1, <1>5
    <3> QED  BY <3>2, <3>3 DEF Box, Updatable, Settled, PointersOf
  <2> QED  BY <1>1, <1>4, <1>6, <1>8, <2>1, CurrentKept
<1>10. Writable'
  <2>1. Harmless(data'[x], isConst')
    BY <1>4 DEF Harmless, Keep
  <2> QED  BY <1>1, <1>6, <1>8, <2>1, WritableKept
<1>11. ASSUME NEW e \in Used \cap Ids
       PROVE  data[e] \in Box /\ (data'[e].temp => data[e].temp)
  <2>1. data[e] \in Box
    BY DEF BoxesInv, BoxesOK
  <2>2. CASE e = x
    BY <2>1, <2>2, <1>4
  <2>3. CASE e # x
    <3>1. data'[e] = data[e] \/ data[e].temp
      BY <2>3, <1>5
    <3> QED  BY <2>1, <3>1
  <2> QED  BY <2>2, <2>3
<1>12. Named'
  <2>1. ASSUME NEW m \in Names \ Parameters, bound[m] # None
        PROVE  ~data'[bound[m]].temp
    <3>1. bound[m] \in Used \cap Ids /\ ~data[bound[m]].temp
      BY <2>1 DEF Used, BoxesInv, BoxesOK, Named
    <3> QED  BY <3>1, <1>11
  <2> QED  BY <2>1 DEF Named, BoxesInv
<1>13. Apart'
  <2>1. \A e \in Ids \ {x} : Alone(e)' => Alone(e)
    BY <1>3, <1>11 DEF Alone
  <2>2. b.obj \in share \cup Hosted \cup {None} => b.obj \in sharing' \cup Hosted \cup {None}
    <3>1. b.obj \in Held' \cup {None}
      BY <1>1, <1>3, <1>4 DEF Held
    <3> QED  BY <3>1 DEF Keep
  <2>3. ASSUME c.from = "variable", data[c.id].temp, ~BoxOf(c).temp, old = c.data,
               b.borrowed = data[c.id].borrowed
        PROVE  Lonely(x)
    <3>1. /\ c.id \in Ids /\ Alone(c.id) /\ data'[x].obj = data[c.id].obj
          /\ data'[x].borrowed = data[c.id].borrowed
      BY <2>3, <1>2, <1>4 DEF Alone, ValueOK
    <3>2. \A m \in Names \ Parameters : bound[m] # c.id
      BY <2>3, <3>1 DEF BoxesInv, Named, Alone
    <3>3. c.id # x => ~data'[c.id].temp
      BY <2>3, <3>1, <1>4 DEF BoxOf
    <3>4. c.id # x => ~Alone(c.id)'
      BY <3>2, <3>3 DEF Alone
    <3> QED  BY <3>1, <3>4 DEF Lonely
  <2>4. Lonely(x)
    <3>1. CASE c.from = "made"
      BY <3>1, <1>2, <1>4 DEF Lonely
    <3>2. CASE b.borrowed \/ b.obj \in share \cup Hosted \cup {None}
      BY <3>2, <2>2, <1>4 DEF Lonely
    <3> QED  BY <3>1, <3>2, <2>3 DEF ValueOK
  <2> QED  BY <1>1, <1>6, <1>8, <2>1, <2>4, ApartKept
<1> QED  BY <1>6, <1>9, <1>10, <1>12, <1>13 DEF BoxesInv
-----------------------------------------------------------------------------
(* What the host, a scope and a running function do.                       *)
LEMMA InitOK == BoxesInit => BoxesInv
<1> SUFFICES ASSUME BoxesInit
             PROVE  BoxesInv
  OBVIOUS
<1>1. Used \subseteq {None} /\ Held = Hosted \ {None}
  BY DEF BoxesInit, Used, Held
<1>2. BoxesOK
  BY <1>1, UndefType, BoxesAssumption DEF BoxesInit, BoxesOK
<1> QED  BY <1>1, <1>2 DEF BoxesInit, BoxesInv, Current, Writable, Named, Apart, Alone

LEMMA DropKept ==
  ASSUME BoxesInv, NEW n \in Names, Drop(n)
  PROVE  BoxesInv'
<1> DEFINE x == bound[n]
<1>1. x \in Used \cap Ids /\ x # None /\ x # updating /\ updating' = updating
      /\ \A m \in Names : bound'[m] = IF m = n THEN None ELSE bound[m]
  BY DEF Drop, Usable, Used, BoxesInv, BoxesOK
<1>2. \A e \in Ids \ {x} : data'[e] = data[e]
  BY DEF Drop, BoxesInv, BoxesOK
<1>3. x \in Used' => data' = data
  BY <1>1 DEF Drop, Used
<1>4. Used' \subseteq Used \cup {None} /\ (updating # None => updating \in Used')
  BY <1>1 DEF Used, BoxesInv, BoxesOK
<1>5. BoxesOK' /\ NewConst /\ sharing \cap Held' \subseteq sharing'
  <2>1. bound' \in [Names -> Ids \cup {None}] /\ data' \in [Ids -> Box]
    BY UndefType DEF Drop, BoxesInv, BoxesOK
  <2>2. updating' \in Used' \cup {None}
    BY <1>1, <1>4
  <2> QED  BY <2>1, <2>2, TypesKept DEF Drop
<1> HIDE DEF x
<1>6. Others(x)
  BY <1>2, <1>4 DEF Others, Used, BoxesInv, BoxesOK
<1>7. Current'
  <2>1. updating # None => data'[updating] = data[updating]
    BY <1>1, <1>2 DEF BoxesInv, BoxesOK, Used
  <2> QED  BY <1>1, <1>3, <1>5, <1>6, <2>1, CurrentKept DEF BoxesInv, Current
<1>8. Writable'
  <2>1. x \in Used' => Harmless(data[x], isConst')
    BY <1>1 DEF BoxesInv, Writable, Harmless, Drop, Keep
  <2> QED  BY <1>1, <1>3, <1>5, <1>6, <2>1, WritableKept
<1>9. ASSUME NEW m \in Names, bound'[m] # None
      PROVE  bound'[m] = bound[m] /\ data'[bound[m]] = data[bound[m]]
  <2>1. bound'[m] = bound[m] /\ bound[m] \in Used' /\ bound[m] \in Ids
    BY <1>1, <1>9 DEF Used, BoxesInv, BoxesOK
  <2> QED  BY <2>1, <1>2, <1>3
<1>10. Named'
  <2>1. ASSUME NEW m \in Names \ Parameters, bound'[m] # None
        PROVE  ~data'[bound'[m]].temp
    BY <2>1, <1>9 DEF BoxesInv, Named
  <2>2. ASSUME NEW l \in Names \ Parameters, NEW m \in Names \ Parameters, l # m, bound'[l] = bound'[m]
        PROVE  bound'[l] = None
    BY <2>2, <1>9 DEF BoxesInv, Named
  <2> QED  BY <2>1, <2>2 DEF Named
<1>11. ASSUME NEW e \in Ids, Alone(e)'
       PROVE  Alone(e) /\ data'[e] = data[e]
  <2>1. e \in Used' \ {None}
    BY <1>11 DEF Alone
  <2>2. e \in Used \ {None} /\ data'[e] = data[e]
    BY <2>1, <1>2, <1>3, <1>4
  <2>3. (\E m \in Names \ Parameters : bound'[m] = e) => \E m \in Names \ Parameters : bound[m] = e
    BY <1>9, <2>1
  <2> QED  BY <1>11, <2>2, <2>3 DEF Alone
<1>12. Apart'
  BY <1>1, <1>5, <1>6, <1>11, ApartKept DEF Lonely
<1> QED  BY <1>5, <1>7, <1>8, <1>10, <1>12 DEF BoxesInv

LEMMA BeginUpdateKept ==
  ASSUME BoxesInv, NEW n \in Names, BeginUpdate(n)
  PROVE  BoxesInv'
<1>2. Used' = Used /\ Held' = Held /\ bound[n] \in Used \ {None, updating}
  BY DEF BeginUpdate, Used, Held, Usable
<1>1. Updatable(data[bound[n]])
  <2>1. Settled(data[bound[n]]) /\ Harmless(data[bound[n]], isConst)
    BY <1>2 DEF BoxesInv, Current, Writable
  <2>2. CASE Cast_Helper(data[bound[n]], "shared_ptr<T>").ok
    BY <2>2 DEF Cast_Helper, Refused, Updatable
  <2>3. CASE Cast_Helper(data[bound[n]], "unique_ptr<T>&").obj # None
    BY <2>1, <2>3 DEF Cast_Helper, Refused, Updatable, Harmless
  <2> QED  BY <2>2, <2>3 DEF BeginUpdate
<1>3. BoxesOK'
  BY <1>2 DEF BeginUpdate, BoxesInv, BoxesOK
<1>4. Current'
  BY <1>1, <1>2 DEF BeginUpdate, BoxesInv, Current
<1>5. Writable' /\ Named' /\ Apart'
  BY <1>2 DEF BeginUpdate, BoxesInv, Writable, Named, Apart, Alone
<1> QED  BY <1>3, <1>4, <1>5 DEF BoxesInv

(* Update and Sentinel change fields of the Data under update only.        *)
LEMMA UpdatedKept ==
  ASSUME BoxesInv, updating # None, NEW b \in Box, bound' = bound,
         data' = [data EXCEPT ![updating] = b],
         b.temp = data[updating].temp, b.borrowed = data[updating].borrowed, b.kind = "shared", ~b.const, b.obj \notin isConst,
         updating' \in {updating, None}, updating' = None => PointersOf(b),
         isConst' = isConst \cap Held', sharing \cap Held' \subseteq sharing', sharing' \subseteq Held' \ Hosted,
         b.obj \in Held => b.obj \in sharing' \cup Hosted \cup {data[updating].obj}
  PROVE  BoxesInv'
<1>0. PICK x \in Ids : x = updating
  BY DEF BoxesInv, BoxesOK, Used
<1>1. x \in Used \cap Ids /\ x # None /\ Used' = Used /\ data[x] \in Box
  BY <1>0 DEF BoxesInv, BoxesOK, Used
<1>2. data' \in [Ids -> Box] /\ data'[x] = b /\ \A e \in Ids \ {x} : data'[e] = data[e]
  BY <1>0, <1>1 DEF BoxesInv, BoxesOK
<1>3. BoxesOK' /\ NewConst
  BY <1>0, <1>1, <1>2 DEF BoxesInv, BoxesOK, NewConst
<1>4. Others(x)
  BY <1>0, <1>1, <1>2 DEF Others, Used, BoxesInv, BoxesOK
<1>5. Current'
  BY <1>0, <1>1, <1>2, <1>3, <1>4, CurrentKept DEF Settled, Updatable
<1>6. Writable'
  BY <1>0, <1>1, <1>2, <1>3, <1>4, WritableKept DEF Harmless
<1>7. \A e \in Ids : data'[e].temp = data[e].temp
  BY <1>2
<1>8. Named'
  BY <1>7, <1>1 DEF BoxesInv, Named, BoxesOK
<1>9. \A e \in Ids : Alone(e)' <=> Alone(e)
  BY <1>0, <1>1, <1>7 DEF Alone
<1>10. ASSUME Alone(x)'
       PROVE  Lonely(x)
  <2>1. Alone(x)
    BY <1>0, <1>1, <1>9, <1>10
  <2>2. b.obj \notin Held \/ b.obj \in sharing' \cup Hosted \/ b.obj = data[x].obj
    BY <1>0
  <2> QED  BY <1>0, <1>1, <1>2, <2>1, <2>2 DEF Lonely
<1>11. Apart'
  <2>1. \A e \in Ids \ {x} : Alone(e)' => Alone(e)
    BY <1>9
  <2> QED  BY <1>0, <1>1, <1>3, <1>4, <2>1, <1>10, ApartKept
<1> QED  BY <1>3, <1>5, <1>6, <1>8, <1>11 DEF BoxesInv

LEMMA UpdateKept ==
  ASSUME BoxesInv, NEW o \in (Objects \ Held) \cup Hosted \cup Given("shared_ptr<T>") \cup {None}, Update(o)
  PROVE  BoxesInv'
<1> DEFINE b == [data[updating] EXCEPT !.obj = o]
<1>1. updating \in Ids /\ updating # None /\ data[updating] \in Box
      /\ data[updating].kind = "shared" /\ ~data[updating].const
  BY DEF Update, BoxesInv, BoxesOK, Used, Current, Updatable
<1>2. o \in Objects \cup {None} /\ o \notin isConst
  <2>1. CASE o \in Given("shared_ptr<T>")
    BY <2>1, GivenObject DEF ReadingCasts, WritingCasts
  <2>2. CASE o \in (Objects \ Held) \cup Hosted \cup {None}
    BY <2>2, BoxesAssumption DEF Update, BoxesInv, BoxesOK, Held
  <2> QED  BY <2>1, <2>2
<1>3. /\ b \in Box /\ b.temp = data[updating].temp /\ b.borrowed = data[updating].borrowed
      /\ b.kind = "shared" /\ ~b.const /\ b.obj = o
  BY <1>1, <1>2 DEF Box
<1> HIDE DEF b
<1>4. data' = [data EXCEPT ![updating] = b] /\ bound' = bound /\ updating' = updating
  BY DEF Update, b
<1>5. o \in Held => o \in Held'
  <2>1. data'[updating].obj = o /\ updating \in Used'
    BY <1>1, <1>3, <1>4 DEF BoxesInv, BoxesOK, Used
  <2> QED  BY <2>1, <1>1 DEF Held
<1>6. /\ isConst' = isConst \cap Held' /\ sharing \cap Held' \subseteq sharing'
      /\ sharing' \subseteq Held' \ Hosted /\ (o \in Held => o \in sharing' \cup Hosted)
  BY <1>5 DEF Update, Keep, BoxesInv, BoxesOK
<1> QED  BY <1>1, <1>2, <1>3, <1>4, <1>6, UpdatedKept

LEMMA SentinelKept ==
  ASSUME BoxesInv, Sentinel
  PROVE  BoxesInv'
<1> DEFINE b == [data[updating] EXCEPT !.ptr = data[updating].obj, !.cptr = data[updating].obj]
<1>1. updating \in Used \cap Ids /\ updating # None /\ data[updating] \in Box
      /\ data[updating].kind = "shared" /\ ~data[updating].const /\ data[updating].obj \notin isConst
  BY DEF Sentinel, BoxesInv, BoxesOK, Used, Current, Updatable, Writable, Harmless
<1>2. /\ b \in Box /\ b.temp = data[updating].temp /\ b.borrowed = data[updating].borrowed /\ b.kind = "shared" /\ ~b.const
      /\ b.obj = data[updating].obj /\ PointersOf(b)
  BY <1>1 DEF Box, PointersOf
<1>3. data' = [data EXCEPT ![updating] = b]
  BY <1>1 DEF Sentinel, BoxesInv, BoxesOK
<1> HIDE DEF b
<1>4. bound' = bound /\ updating' = None /\ isConst' = isConst /\ sharing' = sharing
  BY DEF Sentinel
<1>5. Held' = Held
  <2>1. Used' = Used /\ \A e \in Ids : data'[e].obj = data[e].obj
    BY <1>1, <1>2, <1>3, <1>4 DEF Used, BoxesInv, BoxesOK
  <2>2. Used \ {None} \subseteq Ids
    BY DEF Used, BoxesInv, BoxesOK
  <2> QED  BY <2>1, <2>2 DEF Held
<1>6. isConst \subseteq Held /\ sharing \subseteq Held \ Hosted
  BY DEF BoxesInv, BoxesOK
<1> QED  BY <1>1, <1>2, <1>3, <1>4, <1>5, <1>6, UpdatedKept

(* A unique_ptr is changed in all the Data that hold it.                   *)
LEMMA UpdateUniqueKept ==
  ASSUME BoxesInv, NEW o \in (Objects \ Held) \cup {None}, UpdateUnique(o)
  PROVE  BoxesInv'
<1> DEFINE b(e) == [data[e] EXCEPT !.obj = o, !.lent = TRUE]
<1>1. /\ updating \in Used /\ updating # None /\ updating \in Ids
      /\ data[updating].kind = "unique" /\ data[updating].obj # None
      /\ Holding \subseteq Used \cap Ids /\ updating \in Holding
  BY DEF UpdateUnique, Holding, BoxesInv, BoxesOK, Used
<1>2. o \notin Held /\ o \notin Hosted /\ o \notin isConst
  BY BoxesAssumption DEF BoxesInv, BoxesOK, Held
<1>3. \A e \in Ids : data[e] \in Box
  BY DEF BoxesInv, BoxesOK
<1>4. \A e \in Ids : data'[e] = IF e \in Holding THEN b(e) ELSE data[e]
  BY DEF UpdateUnique
<1>5. \A e \in Ids : /\ b(e) \in Box /\ b(e).obj = o /\ b(e).lent /\ b(e).temp = data[e].temp
                     /\ b(e).borrowed = data[e].borrowed /\ b(e).kind = data[e].kind
                     /\ b(e).const = data[e].const
  BY <1>3 DEF Box
<1>6. \A e \in Holding : /\ data[e].kind = "unique" /\ data[e].obj = data[updating].obj
                         /\ ~data[e].const /\ ~data[e].borrowed /\ data[e].obj \notin Hosted
  BY DEF Holding, BoxesInv, Writable, Harmless
<1>7. bound' = bound /\ updating' = updating /\ Used' = Used
  BY DEF UpdateUnique, Used
<1>8. data' = [e \in Ids |-> IF e \in Holding THEN b(e) ELSE data[e]]
  BY DEF UpdateUnique
<1> HIDE DEF b
<1>9. /\ isConst' = isConst \cap Held'
      /\ sharing' = (sharing \cup (IF data[updating].obj \in sharing THEN {o} ELSE {})) \cap (Held' \ Hosted)
  BY DEF UpdateUnique, Keep
<1>10. BoxesOK'
  <2>1. data' \in [Ids -> Box]
    BY <1>3, <1>5, <1>8
  <2> QED  BY <1>7, <1>9, <2>1 DEF BoxesInv, BoxesOK
<1>11. Current'
  <2>1. \A e \in Used \ {None, updating} : Settled(data'[e])
    BY <1>4, <1>5 DEF BoxesInv, BoxesOK, Current, Settled, Used
  <2>2. Updatable(data'[updating])
    BY <1>1, <1>4, <1>5, <1>6 DEF Updatable, Settled
  <2> QED  BY <1>7, <2>1, <2>2 DEF Current
<1>12. Writable'
  <2>1. ASSUME NEW e \in Used \ {None}
        PROVE  Harmless(data'[e], isConst')
    <3>1. e \in Ids /\ Harmless(data[e], isConst)
      BY DEF BoxesInv, BoxesOK, Writable, Used
    <3>2. CASE e \in Holding
      BY <3>1, <3>2, <1>2, <1>4, <1>5, <1>6, <1>9 DEF Harmless
    <3>3. CASE e \notin Holding
      BY <3>1, <3>3, <1>4, <1>9 DEF Harmless
    <3> QED  BY <3>2, <3>3
  <2> QED  BY <1>7, <2>1 DEF Writable
<1>13. \A e \in Ids : data'[e].temp = data[e].temp /\ data'[e].borrowed = data[e].borrowed
  BY <1>4, <1>5
<1>14. Named'
  BY <1>7, <1>13 DEF BoxesInv, BoxesOK, Named
<1>15. \A e \in Ids : Alone(e)' <=> Alone(e)
  BY <1>7, <1>13 DEF Alone
<1>16. \A e \in Ids : Alone(e) => data[e].obj \in Held \cup {None} /\ data'[e].obj \in Held' \cup {None}
  BY <1>7 DEF Alone, Held
<1>17. Apart'
  <2>1. ASSUME NEW e \in Ids, NEW f \in Ids, Alone(e), Alone(f), e # f, data'[e].obj = data'[f].obj,
               ~data[e].borrowed, ~data[f].borrowed
        PROVE  data'[e].obj \in sharing' \cup Hosted \cup {None}
    <3>1. CASE e \in Holding /\ f \in Holding
      <4>1. data[updating].obj \in sharing
        BY <3>1, <2>1, <1>1, <1>6 DEF BoxesInv, Apart
      <4>2. data'[e].obj = o
        BY <3>1, <1>4, <1>5
      <4> QED  BY <4>1, <4>2, <2>1, <1>2, <1>9, <1>16
    <3>2. CASE e \in Holding /\ f \notin Holding
      BY <3>2, <2>1, <1>2, <1>4, <1>5, <1>16
    <3>3. CASE e \notin Holding /\ f \in Holding
      BY <3>3, <2>1, <1>2, <1>4, <1>5, <1>16
    <3>4. CASE e \notin Holding /\ f \notin Holding
      <4>1. data'[e].obj = data[e].obj /\ data'[f].obj = data[f].obj
        BY <3>4, <1>4
      <4>2. data[e].obj \in sharing \cup Hosted \cup {None}
        BY <4>1, <2>1 DEF BoxesInv, Apart
      <4> QED  BY <4>1, <4>2, <2>1, <1>9, <1>16
    <3> QED  BY <3>1, <3>2, <3>3, <3>4
  <2> QED  BY <2>1, <1>13, <1>15 DEF Apart
<1> QED  BY <1>10, <1>11, <1>12, <1>14, <1>17 DEF BoxesInv

LEMMA ReturnKept ==
  ASSUME BoxesInv, Return
  PROVE  BoxesInv'
<1>1. Used' = Used /\ Held' = Held /\ updating' = None
  BY DEF Return, Used, Held
<1>2. BoxesOK'
  BY <1>1 DEF Return, BoxesInv, BoxesOK
<1>3. Settled(data[updating])
  BY DEF Return, BoxesInv, Current, Updatable
<1>4. Current'
  BY <1>1, <1>3 DEF Return, BoxesInv, Current
<1>5. Writable' /\ Named' /\ Apart'
  BY <1>1 DEF Return, BoxesInv, Writable, Named, Apart, Alone
<1> QED  BY <1>2, <1>4, <1>5 DEF BoxesInv
-----------------------------------------------------------------------------
(* What the statements of a script do.                                     *)
LEMMA VarDeclKept ==
  ASSUME BoxesInv, NEW n \in Names, NEW d \in Ids \ Used, VarDecl(n, d)
  PROVE  BoxesInv'
<1> DEFINE x == d
<1>1. x \in Ids /\ x \notin Used /\ x # None /\ updating' = updating
      /\ (\A m \in Names : bound'[m] = IF m = n THEN x ELSE bound[m])
      /\ data' = [data EXCEPT ![x] = Undef] /\ data'[x] = Undef
  BY BoxesAssumption DEF VarDecl, BoxesInv, BoxesOK
<1>2. Used' \subseteq Used \cup {x} /\ x \in Used' /\ Used \ {None} \subseteq Used'
      /\ Used \ {None} \subseteq Ids
  BY <1>1 DEF VarDecl, Used, BoxesInv, BoxesOK
<1>3. \A e \in Ids \ {x} : data'[e] = data[e]
  BY <1>1 DEF BoxesInv, BoxesOK
<1>4. BoxesOK' /\ NewConst /\ sharing \cap Held' \subseteq sharing'
  <2>1. bound' \in [Names -> Ids \cup {None}] /\ data' \in [Ids -> Box]
    BY <1>1, UndefType DEF VarDecl, BoxesInv, BoxesOK
  <2>2. updating' \in Used' \cup {None}
    BY <1>1, <1>2 DEF BoxesInv, BoxesOK
  <2> QED  BY <2>1, <2>2, TypesKept DEF VarDecl
<1>5. Others(x)
  BY <1>2, <1>3 DEF Others
<1>6. Current'
  <2>1. updating # None => data'[updating] = data[updating]
    BY <1>1, <1>2, <1>3 DEF BoxesInv, BoxesOK
  <2> QED  BY <1>1, <1>4, <1>5, <2>1, UndefType, CurrentKept DEF BoxesInv, Current, BoxesOK, Settled
<1>7. Writable'
  <2>1. Harmless(Undef, isConst')
    BY <1>4, UndefType DEF Harmless, BoxesOK, Held
  <2> QED  BY <1>1, <1>4, <1>5, <2>1, WritableKept
<1>8. Named'
  <2>1. ASSUME NEW m \in Names \ Parameters, bound'[m] # None
        PROVE  ~data'[bound'[m]].temp
    <3>1. CASE m = n
      BY <3>1, <1>1, UndefType
    <3>2. CASE m # n
      <4>1. bound'[m] = bound[m] /\ bound[m] \in Ids \ {x} /\ ~data[bound[m]].temp
        BY <3>2, <2>1, <1>1, <1>2 DEF BoxesInv, Named, Used
      <4> QED  BY <4>1, <1>3
    <3> QED  BY <3>1, <3>2
  <2>2. ASSUME NEW l \in Names \ Parameters, NEW m \in Names \ Parameters, l # m, bound'[l] = bound'[m]
        PROVE  bound'[l] = None
    BY <2>2, <1>1 DEF BoxesInv, Named, Used
  <2> QED  BY <2>1, <2>2 DEF Named
<1>9. Apart'
  <2>1. ASSUME NEW e \in Ids \ {x}, Alone(e)'
        PROVE  Alone(e)
    BY <2>1, <1>1, <1>2, <1>3 DEF Alone
  <2>2. Lonely(x)
    BY <1>1, UndefType DEF Lonely
  <2> QED  BY <1>1, <1>4, <1>5, <2>1, <2>2, ApartKept
<1> QED  BY <1>4, <1>6, <1>7, <1>8, <1>9 DEF BoxesInv

LEMMA AssignDeclKept ==
  ASSUME BoxesInv, NEW n \in Names, NEW d \in Ids \ Used, NEW o \in Objects \ Held,
         NEW v \in Results(d, o), AssignDecl(n, v, d, o)
  PROVE  BoxesInv'
<1>1. PICK c \in clone_if_necessary(v, d, o) :
        /\ bound' = [bound EXCEPT ![n] = c.id]
        /\ data' = c.data /\ Keep(c.isConst, sharing)
  BY DEF AssignDecl
<1>2. /\ ValueOK(c, d, o) /\ ~BoxOf(c).temp
      /\ c.from = "variable" => data[c.id].temp /\ BoxOf(c).borrowed = data[c.id].borrowed
      /\ c.from = "given" => BoxOf(c).borrowed \/ BoxOf(c).obj \in Hosted \cup {None}
  BY ClonedValue
<1> QED  BY <1>1, <1>2, NameKept DEF AssignDecl

LEMMA PassKept ==
  ASSUME BoxesInv, NEW n \in Names, NEW d \in Ids \ Used, NEW o \in Objects \ Held,
         NEW v \in Results(d, o), Pass(n, v)
  PROVE  BoxesInv'
<1>1. ValueOK(v, d, o)
  BY ResultValue
<1>2. v.from = "variable" => v.data = data
  BY DEF Results, Variables, Made, Passed, Value
<1>3. v.from = "given" => ~BoxOf(v).temp \/ BoxOf(v).borrowed \/ BoxOf(v).obj \in Hosted \cup {None}
  BY <1>1 DEF ValueOK
<1> QED  BY <1>1, <1>2, <1>3, NameKept DEF Pass, BoxOf

LEMMA HostAddKept ==
  ASSUME BoxesInv, NEW n \in Names, NEW d \in Ids \ Used, NEW o \in Objects \ Held,
         NEW v \in Results(d, o), HostAdd(n, v)
  PROVE  BoxesInv'
<1> DEFINE c == TakenOver(v)
<1>1. ValueOK(v, d, o) /\ BoxOf(v) \in Box /\ v.id = d /\ v.from \in {"made", "given"}
  BY ResultValue, Sources DEF HostAdd, ValueOK
<1>2. v = [id |-> v.id, data |-> v.data, isConst |-> v.isConst, from |-> v.from]
  BY DEF Results, Variables, Made, Passed, Value
<1> DEFINE b == [BoxOf(v) EXCEPT !.temp = FALSE]
<1>3. /\ b \in Box /\ ~b.temp /\ b.obj = BoxOf(v).obj /\ b.borrowed = BoxOf(v).borrowed
      /\ Settled(b) /\ Harmless(b, v.isConst)
  BY <1>1 DEF ValueOK, Box, Settled, PointersOf, Harmless
<1>4. /\ c.id = v.id /\ c.data = [v.data EXCEPT ![v.id] = b]
      /\ c.isConst = v.isConst /\ c.from = v.from
  BY <1>2 DEF TakenOver, BoxOf
<1> HIDE DEF b, c
<1>5. c.data \in [Ids -> Box] /\ BoxOf(c) = b /\ \A e \in Ids \ {c.id} : c.data[e] = data[e]
  BY <1>1, <1>3, <1>4 DEF ValueOK, BoxOf
<1>6. ValueOK(c, d, o)
  BY <1>1, <1>3, <1>4, <1>5 DEF ValueOK
<1>7. sharing \subseteq Shared(v) /\ (c.from = "given" => BoxOf(c).obj \in Shared(v))
  BY <1>3, <1>4, <1>5 DEF Shared
<1>8. /\ bound[n] = None /\ bound' = [bound EXCEPT ![n] = c.id] /\ data' = c.data
      /\ updating' = updating /\ Keep(c.isConst, Shared(v))
  BY <1>4 DEF HostAdd, c
<1> QED  BY <1>1, <1>3, <1>4, <1>5, <1>6, <1>7, <1>8, NameKept

LEMMA AssignUndefKept ==
  ASSUME BoxesInv, NEW n \in Names, NEW d \in Ids \ Used, NEW o \in Objects \ Held,
         NEW v \in Results(d, o), AssignUndef(n, v, d, o)
  PROVE  BoxesInv'
<1>1. PICK c \in clone_if_necessary(v, d, o) :
        data' = [Left(c) EXCEPT ![bound[n]] = BoxOf(c)] /\ Keep(c.isConst, sharing)
  BY DEF AssignUndef, Overwritten
<1>2. /\ ValueOK(c, d, o) /\ ~BoxOf(c).temp
      /\ c.from = "variable" => data[c.id].temp /\ BoxOf(c).borrowed = data[c.id].borrowed
      /\ c.from = "given" => BoxOf(c).borrowed \/ BoxOf(c).obj \in Hosted \cup {None}
  BY ClonedValue
<1>3. BoxOf(c) \in Box /\ Settled(BoxOf(c)) /\ Harmless(BoxOf(c), c.isConst)
  BY <1>2, Sources DEF ValueOK
<1>4. Left(c) \in {data, c.data} /\ (c.from = "variable" => Left(c) = c.data)
  BY DEF Left
<1> QED  BY <1>1, <1>2, <1>3, <1>4, AssignKept DEF AssignUndef, Overwritten

LEMMA AssignRefKept ==
  ASSUME BoxesInv, NEW n \in Names, NEW d \in Ids \ Used, NEW o \in Objects \ Held,
         NEW v \in Results(d, o), AssignRef(n, v)
  PROVE  BoxesInv'
<1> DEFINE b == [BoxOf(v) EXCEPT !.temp = FALSE]
<1>1. ValueOK(v, d, o) /\ BoxOf(v) \in Box
  BY ResultValue, Sources
<1>2. /\ b \in Box /\ ~b.temp /\ b.obj = BoxOf(v).obj
      /\ Settled(b) /\ Harmless(b, v.isConst)
  BY <1>1 DEF ValueOK, Box, Settled, PointersOf, Harmless
<1>3. sharing \subseteq Shared(v) /\ (v.from # "made" => b.obj \in Shared(v))
  BY <1>2 DEF Shared
<1>4. data' = [data EXCEPT ![bound[n]] = b]
  BY DEF AssignRef, Overwritten
<1> HIDE DEF b
<1> QED  BY <1>1, <1>2, <1>3, <1>4, AssignKept DEF AssignRef

LEMMA StepOK == BoxesInv /\ [BoxesNext]_boxVars => BoxesInv'
<1> SUFFICES ASSUME BoxesInv, [BoxesNext]_boxVars
             PROVE  BoxesInv'
  OBVIOUS
<1>1. CASE UNCHANGED boxVars
  BY <1>1 DEF boxVars, BoxesInv, BoxesOK, Current, Writable, Named, Apart, Alone, Used, Held
<1>2. CASE \E n \in Names : Drop(n) \/ BeginUpdate(n)
  BY <1>2, DropKept, BeginUpdateKept
<1>3. CASE \E n \in Names, d \in Ids \ Used : VarDecl(n, d)
  BY <1>3, VarDeclKept
<1>4. ASSUME NEW n \in Names, NEW d \in Ids \ Used, NEW o \in Objects \ Held, NEW v \in Results(d, o),
             AssignDecl(n, v, d, o) \/ AssignUndef(n, v, d, o) \/ AssignRef(n, v) \/ Pass(n, v)
               \/ HostAdd(n, v)
      PROVE  BoxesInv'
  BY <1>4, AssignDeclKept, AssignUndefKept, AssignRefKept, PassKept, HostAddKept
<1>5. CASE \E o \in (Objects \ Held) \cup Hosted \cup Given("shared_ptr<T>") \cup {None} : Update(o)
  BY <1>5, UpdateKept
<1>6. CASE \E o \in (Objects \ Held) \cup {None} : UpdateUnique(o)
  BY <1>6, UpdateUniqueKept
<1>7. CASE Sentinel \/ Return
  BY <1>7, SentinelKept, ReturnKept
<1> QED  BY <1>1, <1>2, <1>3, <1>4, <1>5, <1>6, <1>7 DEF BoxesNext

LEMMA Invariance == BoxesSpec => []BoxesInv
BY InitOK, StepOK, PTL DEF BoxesSpec
-----------------------------------------------------------------------------
LEMMA UsableBox ==
  ASSUME BoxesInv, NEW n \in Names, Usable(n)
  PROVE  /\ bound[n] \in Used \ {None, updating} /\ data[bound[n]] \in Box
         /\ Settled(data[bound[n]]) /\ Harmless(data[bound[n]], isConst)
BY DEF Usable, Used, BoxesInv, BoxesOK, Current, Writable

(* Whatever a script and the functions of the host do with boxed values,   *)
(* no cast of Cast_Helper gives a way to write to an object made const,    *)
(* but by the pointers beside a unique_ptr that a function has changed.    *)
THEOREM ConstIsKept == BoxesSpec => []ConstKept
<1>1. BoxesInv => ConstKept
  <2> SUFFICES ASSUME BoxesInv, NEW n \in Names, Sound(n), NEW to \in WritingCasts
               PROVE  Cast_Helper(data[bound[n]], to).obj \notin isConst
    BY DEF ConstKept
  <2>1. None \notin isConst
    BY DEF BoxesInv, BoxesOK, Held
  <2>2. CASE Cast_Helper(data[bound[n]], to).obj = None
    BY <2>1, <2>2
  <2>3. CASE Cast_Helper(data[bound[n]], to).obj # None
    <3>1. Cast_Helper(data[bound[n]], to).obj \in Given(to)
      BY <2>3 DEF Given
    <3> QED  BY <3>1, GivenObject
  <2> QED  BY <2>2, <2>3
<1> QED  BY <1>1, Invariance, PTL

LEMMA OneCast ==
  ASSUME NEW b, PointersOf(b), NEW to \in ReadingCasts \cup WritingCasts, Cast_Helper(b, to).ok
  PROVE  Cast_Helper(b, to).obj = b.obj
<1> USE DEF PointersOf, Cast_Helper, verify_type, Refused, Yields
<1>1. CASE b.kind = "none"
  BY <1>1
<1>2. CASE b.kind # "none" /\ to \in {"const T&", "const T*"}
  BY <1>2
<1>3. CASE b.kind # "none" /\ to \in {"T&", "T*"}
  BY <1>3
<1>4. CASE b.kind # "none" /\ to \in {"shared_ptr<const T>", "shared_ptr<T>", "unique_ptr<T>&"}
  BY <1>4
<1> QED  BY <1>1, <1>2, <1>3, <1>4 DEF ReadingCasts, WritingCasts

(* Every cast of Cast_Helper that succeeds finds the object that m_obj     *)
(* holds, however often functions have changed what a shared_ptr holds and *)
(* whatever unique_ptr other Data have: only in the Data that hold a       *)
(* unique_ptr that a function has changed are the pointers beside it stale.*)
THEOREM OneObjectSeen == BoxesSpec => []OneObject
<1>1. BoxesInv => OneObject
  <2> SUFFICES ASSUME BoxesInv, NEW n \in Names, Sound(n), NEW to \in ReadingCasts \cup WritingCasts,
                      Cast_Helper(data[bound[n]], to).ok
               PROVE  Cast_Helper(data[bound[n]], to).obj = data[bound[n]].obj
    BY DEF OneObject
  <2>1. PointersOf(data[bound[n]])
    BY UsableBox DEF Sound, Settled
  <2> QED  BY <2>1, OneCast
<1> QED  BY <1>1, Invariance, PTL

(* Declarations and assignments give every variable an object of its own,  *)
(* unless a reference was asked for or it took over what a function had    *)
(* returned of another's object, and leave no variable a temporary.        *)
THEOREM VariablesOwn == BoxesSpec => []OwnValue
<1>1. BoxesInv => OwnValue
  <2> SUFFICES ASSUME BoxesInv
               PROVE  OwnValue
    OBVIOUS
  <2>1. \A n \in Names \ Parameters : Usable(n) => ~data[bound[n]].temp /\ Alone(bound[n]) /\ bound[n] \in Ids
    BY UsableBox DEF BoxesInv, Named, Alone, Usable, BoxesOK
  <2>2. ASSUME NEW n \in Names \ Parameters, NEW m \in Names \ Parameters, n # m, Usable(n), Usable(m),
               data[bound[n]].obj = data[bound[m]].obj
        PROVE  \/ data[bound[n]].obj \in sharing \cup Hosted \cup {None}
               \/ data[bound[n]].borrowed \/ data[bound[m]].borrowed
    <3>1. bound[n] # bound[m]
      BY <2>2 DEF BoxesInv, Named, Usable
    <3> QED  BY <2>1, <2>2, <3>1 DEF BoxesInv, Apart
  <2> QED  BY <2>1, <2>2 DEF OwnValue
<1> QED  BY <1>1, Invariance, PTL
===============================================================================
