------------------------------- MODULE Numbers -------------------------------
(***************************************************************************)
(* Boxed_Number: the operators of C++ on two boxed numbers whose types are *)
(* known only at run time.  An integral type is its width in bits and its  *)
(* signedness, which is all get_common_type keeps of it; the magnitudes of *)
(* floating point values are not followed.                                 *)
(***************************************************************************)
EXTENDS Integers, FiniteSetsExt

CONSTANTS
  IntWidth,      (* bits of an int                                          *)
  Widths,        (* bits of the integral types, those of an int among them  *)
  Precisions,    (* ranks of the floating point types, as float and double  *)
  Unknown        (* a magnitude that is not followed                        *)

ASSUME WidthAssumption == Widths \subseteq Nat \ {0} /\ IntWidth \in Widths
ASSUME UnknownAssumption == Unknown \notin Int

VARIABLES
  lhs,           (* the boxed number on the left, or the only one           *)
  rhs,           (* the boxed number on the right                           *)
  last           (* the operator applied, to what, and what came of it      *)

vars == <<lhs, rhs, last>>
-----------------------------------------------------------------------------
(* 2 to the power of n, the numbers of n bits. *)
TwoTo[n \in Nat] == IF n = 0 THEN 1 ELSE 2 * TwoTo[n - 1]

(* Common_Types, and bool, the type of a comparison's result. *)
IntegralType(width, signed) == [kind |-> "integral", width |-> width, signed |-> signed]
FloatingType(precision) == [kind |-> "floating", width |-> precision, signed |-> TRUE]
Bool == [kind |-> "bool", width |-> 1, signed |-> FALSE]
IntegralTypes == {IntegralType(w, s) : w \in Widths, s \in BOOLEAN}
NumberTypes == IntegralTypes \cup {FloatingType(p) : p \in Precisions}

IsIntegral(type) == type.kind = "integral"
Least(type) == IF type.signed THEN -(TwoTo[type.width - 1]) ELSE 0
Greatest(type) == IF type.signed THEN TwoTo[type.width - 1] - 1 ELSE TwoTo[type.width] - 1
Fits(n, type) == Least(type) <= n /\ n <= Greatest(type)

(* A conversion to an integral type is modulo a power of two. *)
Wrap(n, type) ==
  IF type.signed THEN ((n + TwoTo[type.width - 1]) % TwoTo[type.width]) - TwoTo[type.width - 1]
  ELSE n % TwoTo[type.width]

(* static_cast, as in get_as_aux. *)
Cast(n, from, to) ==
  IF IsIntegral(from) /\ IsIntegral(to) THEN Wrap(n, to) ELSE Unknown

(* The integral promotions and the usual arithmetic conversions of C++.    *)
(* NotPromoted forgets the first.                                          *)
NotPromoted(type) == type
Promoted(type) ==
  IF IsIntegral(type) /\ type.width < IntWidth THEN IntegralType(IntWidth, TRUE) ELSE type
Wider(a, b) == IF a.width < b.width THEN b ELSE a
CommonType(a, b) ==
  LET p == Promoted(a)  q == Promoted(b) IN
  IF ~IsIntegral(p) \/ ~IsIntegral(q)
    THEN IF IsIntegral(p) THEN q ELSE IF IsIntegral(q) THEN p ELSE Wider(p, q)
  ELSE IF p.width = q.width THEN IntegralType(p.width, p.signed /\ q.signed)
  ELSE Wider(p, q)
-----------------------------------------------------------------------------
(* What comes of an operator: a new number, the left one changed, an       *)
(* exception, or nothing C++ defines.                                      *)
New(type, n) == [kind |-> "new", type |-> type, value |-> n, error |-> ""]
Changed(type, n) == [kind |-> "changed", type |-> type, value |-> n, error |-> ""]
Throws(error) == [kind |-> "throws", type |-> Bool, value |-> 0, error |-> error]
Undefined == [kind |-> "undefined", type |-> Bool, value |-> 0, error |-> ""]
DivideByZero == Throws("arithmetic_error")
BadCast == Throws("bad_any_cast")

Truth(b) == New(Bool, IF b THEN 1 ELSE 0)

Comparisons == {"equals", "less_than", "greater_than", "less_than_equal",
                "greater_than_equal", "not_equal"}
Compared(op, m, n) ==
  CASE op = "equals" -> m = n
    [] op = "less_than" -> m < n
    [] op = "greater_than" -> m > n
    [] op = "less_than_equal" -> m <= n
    [] op = "greater_than_equal" -> m >= n
    [] op = "not_equal" -> m # n

Magnitude(n) == IF n < 0 THEN -n ELSE n
Quotient(m, n) ==                      (* rounded towards zero              *)
  LET q == Magnitude(m) \div Magnitude(n) IN IF (m < 0) = (n < 0) THEN q ELSE -q

(* The bits that are set in the representation of a number. *)
BitsOf(n, type) == LET u == n % TwoTo[type.width]
                 IN {i \in 0 .. type.width - 1 : (u \div TwoTo[i]) % 2 = 1}
OfBits(bits, type) == Wrap(MapThenSumSet(LAMBDA i : TwoTo[i], bits), type)

Arithmetic == {"sum", "quotient", "product", "difference"}
OnIntegers == {"shift_left", "shift_right", "remainder", "bitwise_and", "bitwise_or", "bitwise_xor"}
Divisions == {"quotient", "remainder"}
Shifts == {"shift_left", "shift_right"}

(* An integral result that its type cannot hold wraps when the type is     *)
(* unsigned and is undefined when it is signed.                            *)
Result(n, type) == IF type.signed /\ ~Fits(n, type) THEN Undefined ELSE New(type, Wrap(n, type))

(* m and n have been converted to type. *)
Computed(op, m, n, type) ==
  CASE op = "sum" -> Result(m + n, type)
    [] op = "difference" -> Result(m - n, type)
    [] op = "product" -> Result(m * n, type)
    [] op \in Divisions /\ n = 0 -> Undefined
    [] op = "quotient" /\ n # 0 -> Result(Quotient(m, n), type)
    [] op = "remainder" /\ n # 0 ->
         IF Fits(Quotient(m, n), type) THEN New(type, m - n * Quotient(m, n)) ELSE Undefined
    [] op = "bitwise_and" -> New(type, OfBits(BitsOf(m, type) \cap BitsOf(n, type), type))
    [] op = "bitwise_or" -> New(type, OfBits(BitsOf(m, type) \cup BitsOf(n, type), type))
    [] op = "bitwise_xor" ->
         New(type, OfBits((BitsOf(m, type) \cup BitsOf(n, type)) \ (BitsOf(m, type) \cap BitsOf(n, type)), type))

(* A shift has the type of its left operand; the right one counts. *)
Shifted(op, m, n, type) ==
  IF n < 0 \/ n >= type.width THEN Undefined
  ELSE IF op = "shift_left" THEN New(type, Wrap(m * TwoTo[n], type))
  ELSE New(type, m \div TwoTo[n])

(* The operator itself, as the compiler instantiates it for two types. *)
Applied(op, l, r) ==
  LET type == CommonType(l.type, r.type) IN
  IF op \in Shifts
    THEN Shifted(op, l.value, r.value, Promoted(l.type))
  ELSE IF ~IsIntegral(type)
    THEN IF op \in Comparisons THEN New(Bool, Unknown) ELSE New(type, Unknown)
  ELSE IF op \in Comparisons
    THEN Truth(Compared(op, Wrap(l.value, type), Wrap(r.value, type)))
  ELSE Computed(op, Wrap(l.value, type), Wrap(r.value, type), type)
-----------------------------------------------------------------------------
(* check_divide_by_zero, for the operand's own type. *)
ZeroDivisor(r) == IsIntegral(r.type) /\ r.value = 0

(* The operator that each assigning operator stands for; assign itself     *)
(* takes the right operand as it is.                                       *)
Assigning ==
  [ assign_product |-> "product", assign_sum |-> "sum", assign_quotient |-> "quotient",
    assign_difference |-> "difference", assign_bitwise_and |-> "bitwise_and",
    assign_bitwise_or |-> "bitwise_or", assign_shift_left |-> "shift_left",
    assign_shift_right |-> "shift_right", assign_remainder |-> "remainder",
    assign_bitwise_xor |-> "bitwise_xor" ]
Binary == Comparisons \cup Arithmetic \cup OnIntegers \cup DOMAIN Assigning \cup {"assign"}

(* The operators that go checks for a zero divisor; CheckedOnce forgets    *)
(* the assigning one.                                                      *)
CheckedOnce == {"quotient", "remainder", "assign_bitwise_and"}
Checked == {"quotient", "remainder", "assign_quotient", "assign_bitwise_and"}

(* *t_lhs op= c_rhs: the result is converted back. *)
Assigned(op, l, r) ==
  LET result == Applied(Assigning[op], l, r) IN
  IF result.kind = "undefined" THEN Undefined
  ELSE Changed(l.type, Cast(result.value, result.type, l.type))

(* An lvalue is neither const nor the result of a function (oper). *)
Lvalue(l) == ~l.const /\ ~l.returned

AreIntegral(l, r) == IsIntegral(l.type) /\ IsIntegral(r.type)

go(op, l, r) ==
  LET onIntegers == op \in OnIntegers \/ (op \in DOMAIN Assigning /\ Assigning[op] \in OnIntegers)
      assigns == op = "assign" \/ op \in DOMAIN Assigning
      divides == op \in Checked /\ ZeroDivisor(r)
  IN
  IF (onIntegers /\ ~AreIntegral(l, r)) \/ (assigns /\ ~Lvalue(l)) THEN BadCast
  ELSE IF divides THEN DivideByZero
  ELSE IF op = "assign" THEN Changed(l.type, Cast(r.value, r.type, l.type))
  ELSE IF assigns THEN Assigned(op, l, r)
  ELSE Applied(op, l, r)

(* The operators of one number.  ++ and -- take what a function returned,  *)
(* too.                                                                    *)
Unary == {"pre_increment", "pre_decrement", "unary_minus", "unary_plus", "bitwise_complement"}
unary_operator(op, l) ==
  LET type == Promoted(l.type)
      one == IF op = "pre_increment" THEN 1 ELSE -1
      result(n) == IF IsIntegral(type) THEN Result(n, type) ELSE New(type, Unknown)
  IN
  CASE op \in {"pre_increment", "pre_decrement"} ->
         IF l.const THEN BadCast
         ELSE IF ~IsIntegral(type) THEN Changed(l.type, Unknown)
         ELSE IF Result(l.value + one, type).kind = "undefined" THEN Undefined
         ELSE Changed(l.type, Wrap(l.value + one, l.type))
    [] op = "unary_minus" -> IF IsIntegral(type) THEN Result(-l.value, type) ELSE New(type, Unknown)
    [] op = "unary_plus" -> New(type, l.value)
    [] op = "bitwise_complement" ->
         IF IsIntegral(type) THEN New(type, Wrap(-l.value - 1, type)) ELSE BadCast

get_as(l, target) == New(target, Cast(l.value, l.type, target))

(* check_type: same size, signedness and kind, or bad_any_cast. *)
get_as_checked(l, target) == IF l.type = target THEN get_as(l, target) ELSE BadCast
-----------------------------------------------------------------------------
Magnitudes(type) == IF IsIntegral(type) THEN Least(type) .. Greatest(type) ELSE {Unknown}
BoxedNumbers == UNION { {[type |-> t, value |-> n] : n \in Magnitudes(t)} : t \in NumberTypes }
Boxed(number, const, returned) ==
  [type |-> number.type, value |-> number.value, const |-> const, returned |-> returned]
Nothing == [op |-> "none", on |-> Boxed([type |-> Bool, value |-> 0], TRUE, TRUE), result |-> Undefined]

(* The right operand is only read. *)
Init ==
  /\ \E l \in BoxedNumbers : \E flags \in {<<FALSE, FALSE>>, <<TRUE, FALSE>>, <<FALSE, TRUE>>} :
       lhs = Boxed(l, flags[1], flags[2])
  /\ \E r \in BoxedNumbers : rhs = Boxed(r, TRUE, FALSE)
  /\ last = Nothing

(* After an undefined operation nothing is known of the program. *)
Done(op, result) ==
  /\ last' = [op |-> op, on |-> lhs, result |-> result]
  /\ lhs' = IF result.kind = "changed" THEN [lhs EXCEPT !.value = result.value] ELSE lhs
  /\ UNCHANGED rhs
Ready == last = Nothing

oper == \E op \in Binary : Ready /\ Done(op, go(op, lhs, rhs))
oper_unary == \E op \in Unary : Ready /\ Done(op, unary_operator(op, lhs))
cast == \E t \in NumberTypes : Ready /\ Done("get_as", get_as(lhs, t))
checked_cast == \E t \in NumberTypes : Ready /\ Done("get_as_checked", get_as_checked(lhs, t))

Next == oper \/ oper_unary \/ cast \/ checked_cast
Spec == Init /\ [][Next]_vars
-----------------------------------------------------------------------------
(* A negative number turns into a large one where it meets an unsigned     *)
(* type that is no narrower than its own and than int: C++ says so.        *)
Reinterpreted(a, b) ==
  a.value < 0 /\ ~b.type.signed /\ b.type.width >= IntWidth /\ b.type.width >= a.type.width

(* A number has a place in int, if both types are narrower, or else in the *)
(* wider of them, in both if neither is wider.                             *)
HasPlace(n, a, b) ==
  IF a.width < IntWidth /\ b.width < IntWidth THEN Fits(n, IntegralType(IntWidth, TRUE))
  ELSE (a.width >= b.width => Fits(n, a)) /\ (b.width >= a.width => Fits(n, b))

Exact(op, m, n) ==
  CASE op = "sum" -> m + n
    [] op = "difference" -> m - n
    [] op = "product" -> m * n
    [] op = "quotient" -> Quotient(m, n)
    [] op = "remainder" -> m - n * Quotient(m, n)

(* A comparison or an arithmetic operator says of two numbers what is so   *)
(* of the integers they stand for, whatever their types, unless one is     *)
(* negative and the other's type reinterprets it; there is no result only  *)
(* if there is no quotient, or no place for the number.                    *)
AnswersAsIntegers ==
  LET out == last.result  l == last.on  m == l.value  n == rhs.value  op == last.op IN
  (/\ op \in Comparisons \cup Arithmetic \cup Divisions /\ AreIntegral(l, rhs)
   /\ ~Reinterpreted(l, rhs) /\ ~Reinterpreted(rhs, l))
  => IF op \in Comparisons THEN out = Truth(Compared(op, m, n))
     ELSE IF op \in Divisions /\ n = 0 THEN out = DivideByZero
     ELSE \/ out.kind = "new" /\ out.value = Exact(op, m, n)
          \/ ~HasPlace(Exact(op, m, n), l.type, rhs.type)
          \/ op = "remainder" /\ ~HasPlace(Quotient(m, n), l.type, rhs.type)

(* x op= y leaves in x what x op y is, converted to the type of x, and     *)
(* fails where x op y fails.  go lists both and checks them apart, and two *)
(* entries differ: &= has the check for a zero divisor, %= has not.        *)
AssignAgrees ==
  last.op \in DOMAIN Assigning /\ ~last.on.const /\ ~last.on.returned =>
    LET plain == go(Assigning[last.op], last.on, rhs) IN
    \/ last.result.kind = plain.kind /\ last.result.error = plain.error
    \/ /\ last.result.kind = "changed" /\ plain.kind = "new"
       /\ lhs.value = Cast(plain.value, plain.type, lhs.type)
    \/ last.op \in {"assign_bitwise_and", "assign_remainder"} /\ ZeroDivisor(rhs)

(* "Arithmetic error: divide by zero" (divide_by_zero_protection.chai:5):  *)
(* an operator that divides by zero throws.                                *)
Dividing == {"quotient", "remainder", "assign_quotient", "assign_remainder"}
DivideByZeroThrows ==
  last.op \in Dividing /\ ZeroDivisor(rhs) => last.result.kind = "throws"
=============================================================================
