------------------------------- MODULE Decimals -------------------------------
(***************************************************************************)
(* Texts as sequences of characters, and parse_num, which reads a number   *)
(* off the digits of one.  A floating point number is the decimal it was   *)
(* written as: the rounding of a double is left out.                       *)
(***************************************************************************)
EXTENDS Integers, Sequences, SequencesExt

DigitSeq == <<"0", "1", "2", "3", "4", "5", "6", "7", "8", "9", "a", "b", "c", "d", "e", "f">>
DigitsOf(base) == {DigitSeq[i] : i \in 1..base}
DecimalDigits == DigitsOf(10)
DigitValue(c) == (CHOOSE i \in 1..16 : DigitSeq[i] = c) - 1

(* The first position of s at or after p whose character is not in chars. *)
After(s, p, chars) ==
  CHOOSE q \in p .. Len(s) + 1 :
    (q > Len(s) \/ s[q] \notin chars) /\ \A r \in p .. q - 1 : s[r] \in chars

(* The characters of s from p up to q, without q. *)
Between(s, p, q) == SubSeq(s, p, q - 1)

(* n * 10 ^ e, with as few digits as it takes. *)
Decimal(n, e) ==
  IF n = 0 THEN [n |-> 0, e |-> 0]
  ELSE LET zeros == CHOOSE k \in 0..9 : n % 10 ^ k = 0 /\ n % 10 ^ (k + 1) # 0
       IN [n |-> n \div 10 ^ zeros, e |-> e + zeros]

(* The number that digits are in a base. *)
OfDigits(digits, base) == FoldLeft(LAMBDA n, c : n * base + DigitValue(c), 0, digits)

(* parse_num for an integral type stops at the first character that is no  *)
(* digit; nothing reads as zero.                                           *)
parse_num(s) == OfDigits(Between(s, 1, After(s, 1, DecimalDigits)), 10)

(* The decimal whose digits are these, places of them after the point. *)
OfPlaces(digits, places) ==
  LET kept == CHOOSE k \in 0 .. Len(digits) :
                /\ \A i \in k + 1 .. Len(digits) : digits[i] = "0"
                /\ k > 0 => digits[k] # "0"
  IN IF kept = 0 THEN Decimal(0, 0)
     ELSE Decimal(OfDigits(SubSeq(digits, 1, kept), 10), Len(digits) - kept - places)

(* parse_num for a floating point type: a point, an exponent and its sign  *)
(* change what the digits after them do.                                   *)
parse_real(s) ==
  LET step(st, c) ==
        CASE c = "." -> [st EXCEPT !.point = TRUE]
          [] c \in {"e", "E"} ->
               [digits |-> <<>>, point |-> FALSE, places |-> 0,
                base |-> OfPlaces(st.digits, st.places), exponent |-> 1]
          [] c = "-" -> [st EXCEPT !.exponent = -1]
          [] c \in DecimalDigits ->
               [st EXCEPT !.digits = Append(@, c), !.places = IF st.point THEN @ + 1 ELSE @]
          [] OTHER -> st
      end == FoldLeft(step, [digits |-> <<>>, point |-> FALSE, places |-> 0,
                             base |-> Decimal(0, 0), exponent |-> 0], s)
  IN IF end.exponent = 0 THEN OfPlaces(end.digits, end.places)
     ELSE Decimal(end.base.n, end.base.e + OfDigits(end.digits, 10) * end.exponent)
===============================================================================
