------------------------------- MODULE Literals -------------------------------
(***************************************************************************)
(* How ChaiScript_Parser reads a number: Num tries a hexadecimal, a binary *)
(* and a floating point literal in turn, over one position they share, and *)
(* takes what is left for a decimal or octal one; buildInt finds the type. *)
(***************************************************************************)
EXTENDS Decimals

CONSTANTS
  IntBits,       (* bits of an int                                          *)
  LongBits       (* bits of a long, and of a long long                      *)

IntSuffix == {"u", "U", "l", "L"}
FloatSuffix == {"f", "F", "l", "L"}
At(s, p, chars) == p <= Len(s) /\ s[p] \in chars

Found(p) == [ok |-> TRUE, at |-> p]
Missed(p) == [ok |-> FALSE, at |-> p]
-----------------------------------------------------------------------------
(* Hex_ and Binary_ step back by one character only: after 0x or 0b        *)
(* without a digit the position is past the zero.                          *)
Hex_(s, p) ==
  IF ~At(s, p, {"0"}) \/ ~At(s, p + 1, {"x", "X"}) THEN Missed(p)
  ELSE IF ~At(s, p + 2, DigitsOf(16)) THEN Missed(p + 1)
  ELSE Found(After(s, After(s, p + 2, DigitsOf(16)), IntSuffix))

Binary_(s, p) ==
  IF ~At(s, p, {"0"}) \/ ~At(s, p + 1, {"b", "B"}) THEN Missed(p)
  ELSE IF ~At(s, p + 2, DigitsOf(2)) THEN Missed(p + 1)
  ELSE Found(After(s, p + 2, DigitsOf(2)))

(* An exponent needs a digit; without one the position stays behind the e. *)
read_exponent_and_suffix(s, p) ==
  IF ~At(s, p, {"e", "E"}) THEN Found(After(s, p, FloatSuffix))
  ELSE LET sign == IF At(s, p + 1, {"+", "-"}) THEN p + 2 ELSE p + 1
           end == After(s, sign, DecimalDigits)
       IN IF end = sign THEN Missed(end) ELSE Found(After(s, end, FloatSuffix))

(* Also what a decimal or octal literal is read with: after digits without *)
(* a point or an exponent the position is behind them.                     *)
Float_(s, p) ==
  LET end == After(s, p, DecimalDigits) IN
  IF At(s, end, {"e", "E"}) /\ At(s, p, DecimalDigits \cup {"."}) THEN read_exponent_and_suffix(s, end)
  ELSE IF At(s, end, {"."}) /\ At(s, end + 1, DecimalDigits)
    THEN read_exponent_and_suffix(s, After(s, end + 1, DecimalDigits))
  ELSE Missed(end)
-----------------------------------------------------------------------------
(* The types of literals; a number too large for all of them becomes the   *)
(* largest long long.                                                      *)
Bits(type) == IF type \in {"int", "unsigned int"} THEN IntBits ELSE LongBits
IsUnsigned(type) == type \in {"unsigned int", "unsigned long", "unsigned long long"}
Largest(type) == 2 ^ (IF IsUnsigned(type) THEN Bits(type) ELSE Bits(type) - 1) - 1

Whole(type, n) == [type |-> type, value |-> Decimal(n, 0)]
Real(type, decimal) == [type |-> type, value |-> decimal]

(* The suffix, letter by letter from the end. *)
Suffix(match) ==
  LET from == CHOOSE p \in 1 .. Len(match) + 1 :
                /\ \A q \in p .. Len(match) : match[q] \in IntSuffix
                /\ p > 1 => match[p - 1] \notin IntSuffix
  IN Between(match, from, Len(match) + 1)
LongsIn(suffix) == Len(SelectSeq(suffix, LAMBDA c : c \in {"l", "L"}))

(* std::stoll and std::stoull read the digits the base has and no more. *)
Digits(match, base, prefixed) ==
  LET from == IF prefixed THEN 3 ELSE 1
  IN Between(match, from, After(match, from, DigitsOf(base)))

(* buildIntSigned tries the unsigned types for a suffix only.              *)
BuildInt(base, match, prefixed, asDecimal) ==
  LET suffix == Suffix(match)
      unsigned == \E i \in DOMAIN suffix : suffix[i] \in {"u", "U"}
      long == LongsIn(suffix) > 0
      longlong == LongsIn(suffix) > 1
      u == OfDigits(Digits(match, base, prefixed), base)
      orUnsigned == unsigned \/ ~asDecimal
  IN
  IF u <= Largest("long long")
    THEN IF ~unsigned /\ ~long /\ u <= Largest("int") THEN Whole("int", u)
         ELSE IF orUnsigned /\ ~long /\ u <= Largest("unsigned int") THEN Whole("unsigned int", u)
         ELSE IF ~unsigned /\ ~longlong THEN Whole("long", u)
         ELSE IF orUnsigned /\ ~longlong THEN Whole("unsigned long", u)
         ELSE IF ~unsigned THEN Whole("long long", u)
         ELSE Whole("unsigned long long", u)
  ELSE IF u <= Largest("unsigned long long")
    THEN Whole(IF longlong THEN "unsigned long long" ELSE "unsigned long", u)
  ELSE Whole("long long", Largest("long long"))

buildIntSigned(base, match, prefixed) == BuildInt(base, match, prefixed, TRUE)
buildInt(base, match, prefixed) == BuildInt(base, match, prefixed, base = 10)

(* f anywhere in the suffix makes a float. *)
buildFloat(match) ==
  LET suffix == SelectSeq(match, LAMBDA c : c \in FloatSuffix)
      type == IF \E i \in DOMAIN suffix : suffix[i] \in {"f", "F"} THEN "float"
              ELSE IF suffix # <<>> THEN "long double" ELSE "double"
  IN Real(type, parse_real(match))

(* std::stoll throws invalid_argument when there is no digit to read; the  *)
(* position stays where it is then.                                        *)
NotNumber(p) == [ok |-> FALSE, at |-> p, constant |-> Whole("int", 0)]
Parsed(p, constant) == [ok |-> TRUE, at |-> p, constant |-> constant]

(* The number at the beginning of s, and the position behind it. *)
Num(s) ==
  LET hex == Hex_(s, 1)
      binary == Binary_(s, hex.at)
      float == Float_(s, binary.at)
      end == After(s, float.at, IntSuffix)
      match(p) == Between(s, 1, p)
  IN
  IF ~At(s, 1, DecimalDigits \cup {"."}) THEN NotNumber(1)
  ELSE IF hex.ok THEN Parsed(hex.at, buildInt(16, match(hex.at), TRUE))
  ELSE IF binary.ok THEN Parsed(binary.at, buildInt(2, match(binary.at), TRUE))
  ELSE IF float.ok THEN Parsed(float.at, buildFloat(match(float.at)))
  ELSE IF end = 1 \/ s[1] = "." THEN NotNumber(end)
  ELSE Parsed(end, buildInt(IF s[1] = "0" THEN 8 ELSE 10, match(end), FALSE))
===============================================================================
