--------------------------------- MODULE Json ---------------------------------
(***************************************************************************)
(* utility/json.hpp: JSON::Load, a recursive descent over a text and an    *)
(* offset, and JSON::dump, which writes a value out.                       *)
(***************************************************************************)
EXTENDS Decimals

(* The classes of JSON values.  Integral and Floating hold the number that *)
(* was written; an object holds its pairs in the order they came.          *)
Null == [kind |-> "null"]
Boolean(b) == [kind |-> "boolean", bool |-> b]
IntegralValue(n) == [kind |-> "integral", int |-> n]
FloatingValue(decimal) == [kind |-> "floating", real |-> decimal]
String(chars) == [kind |-> "string", chars |-> chars]
Array(items) == [kind |-> "array", items |-> items]
Object(pairs) == [kind |-> "object", pairs |-> pairs]

(* operator[] of an object: the pair with that key, or a new one. *)
WithKey(pairs, key, value) ==
  IF \E i \in DOMAIN pairs : pairs[i].key = key
    THEN [i \in DOMAIN pairs |-> IF pairs[i].key = key THEN [pairs[i] EXCEPT !.value = value] ELSE pairs[i]]
    ELSE Append(pairs, [key |-> key, value |-> value])

(* What a reader returns: a value and the offset behind it, or that it     *)
(* threw; str.at throws out_of_range.                                      *)
Read(value, p) == [ok |-> TRUE, value |-> value, at |-> p, error |-> ""]
Raises(error) == [ok |-> FALSE, value |-> Null, at |-> 0, error |-> error]
OutOfRange == Raises("out_of_range")
Unexpected == Raises("runtime_error")

White == {" ", "\n"}
Ends(s, p) == p > Len(s)
Is(s, p, c) == p <= Len(s) /\ s[p] = c
consume_ws(s, p) == After(s, p, White)      (* at the end of the text at throws *)
-----------------------------------------------------------------------------
Escapes == [c \in {"\"", "\\", "/", "n", "t"} |-> IF c = "n" THEN "\n" ELSE IF c = "t" THEN "\t" ELSE c]
HexDigits == DigitsOf(16) \cup {"A", "B", "C", "D", "E", "F"}

(* parse_string, from the character at p on; \u and its digits are kept as *)
(* they are, and of an escape it does not know only the backslash.         *)
RECURSIVE Characters(_, _, _)
Characters(s, p, chars) ==
  IF Ends(s, p) THEN OutOfRange
  ELSE IF s[p] = "\"" THEN Read(String(chars), p + 1)
  ELSE IF s[p] # "\\" THEN Characters(s, p + 1, Append(chars, s[p]))
  ELSE IF Ends(s, p + 1) THEN OutOfRange
  ELSE IF s[p + 1] \in DOMAIN Escapes THEN Characters(s, p + 2, Append(chars, Escapes[s[p + 1]]))
  ELSE IF s[p + 1] # "u" THEN Characters(s, p + 2, Append(chars, "\\"))
  ELSE LET four == After(s, p + 2, HexDigits) IN
       IF four >= p + 6 THEN Characters(s, p + 6, chars \o SubSeq(s, p, p + 5))
       ELSE IF Ends(s, four) THEN OutOfRange
       ELSE Unexpected
parse_string(s, p) == Characters(s, p + 1, <<>>)

(* parse_number reads on to a character it cannot use and steps back over  *)
(* it.  It looks at that character only if there is another one behind it, *)
(* and at the end of the text it steps back all the same.  TerminatesItem  *)
(* forgets the end of an object.                                           *)
TerminatesItem(c) == c \in White \cup {",", "]"}
Terminates(c) == c \in White \cup {",", "]", "}"}
Power(n, e) == Decimal(n.n, n.e + e)
parse_number(s, p) ==
  LET from == IF s[p] = "-" THEN p + 1 ELSE p
      point == After(s, from, DecimalDigits)
      isDouble == Is(s, point, ".")
      stop == IF isDouble THEN After(s, point + 1, DecimalDigits) ELSE point
      val == Between(s, from, stop)
      more == stop < Len(s)                       (* offset < str.size()     *)
      exponential == more /\ s[stop] \in {"E", "e"}
      signed == exponential /\ s[stop + 1] \in {"+", "-"}
      digits == IF signed THEN stop + 2 ELSE stop + 1
      end == After(s, digits, DecimalDigits)
      back == LET q == IF exponential THEN end ELSE stop IN IF Ends(s, q) THEN q - 1 ELSE q
      exp_str == Between(s, digits, end)
      exp == parse_num(exp_str) * (IF signed /\ s[stop + 1] = "-" THEN -1 ELSE 1)
      negated(n) == IF s[p] = "-" THEN -n ELSE n
      mantissa == IF isDouble THEN parse_real(val) ELSE Decimal(parse_num(val), 0)
      real == Power([mantissa EXCEPT !.n = negated(@)], IF exponential THEN exp ELSE 0)
  IN
  IF exponential /\ ~Ends(s, end) /\ ~Terminates(s[end]) THEN Unexpected
  ELSE IF ~exponential /\ more /\ ~Terminates(s[stop]) THEN Unexpected
  ELSE IF isDouble \/ (exponential /\ exp_str # <<>>) THEN Read(FloatingValue(real), back)
  ELSE Read(IntegralValue(negated(parse_num(val))), back)

(* parse_bool and parse_null compare a substring. *)
Word(s, p, word, value) ==
  IF SubSeq(s, p, IF p + Len(word) - 1 <= Len(s) THEN p + Len(word) - 1 ELSE Len(s)) = word
    THEN Read(value, p + Len(word)) ELSE Unexpected
parse_null(s, p) == Word(s, p, <<"n", "u", "l", "l">>, Null)
parse_bool(s, p) ==
  IF s[p] = "t" THEN Word(s, p, <<"t", "r", "u", "e">>, Boolean(TRUE))
  ELSE Word(s, p, <<"f", "a", "l", "s", "e">>, Boolean(FALSE))

(* parse_array and parse_object go on while there is text: a comma that    *)
(* ends it ends the array, too.  parse_arrayUnclosed takes the end of the  *)
(* text for a bracket.                                                     *)
RECURSIVE parse_next(_, _), Elements(_, _, _), Members(_, _, _)
Elements(s, p, items) ==
  IF Ends(s, p) THEN Read(Array(items), p)
  ELSE LET next == parse_next(s, p)
           q == consume_ws(s, next.at)
           array == Append(items, next.value)
       IN IF ~next.ok THEN next
          ELSE IF Ends(s, q) THEN OutOfRange
          ELSE IF s[q] = "," THEN Elements(s, q + 1, array)
          ELSE IF s[q] = "]" THEN Read(Array(array), q + 1)
          ELSE Unexpected
parse_arrayUnclosed(s, p) ==
  LET q == consume_ws(s, p + 1) IN
  IF Ends(s, q) THEN Read(Array(<<>>), q) ELSE Elements(s, q, <<>>)
parse_array(s, p) ==
  LET q == consume_ws(s, p + 1) IN
  IF Ends(s, q) THEN OutOfRange
  ELSE IF s[q] = "]" THEN Read(Array(<<>>), q + 1)
  ELSE Elements(s, q, <<>>)

(* A key that is no string is the empty string (to_string). *)
KeyOf(value) == IF value.kind = "string" THEN value.chars ELSE <<>>
Members(s, p, pairs) ==
  IF Ends(s, p) THEN Read(Object(pairs), p)
  ELSE LET key == parse_next(s, p)
           colon == consume_ws(s, key.at)
           value == parse_next(s, consume_ws(s, colon + 1))
           q == consume_ws(s, value.at)
           object == WithKey(pairs, KeyOf(key.value), value.value)
       IN IF ~key.ok THEN key
          ELSE IF Ends(s, colon) THEN OutOfRange
          ELSE IF s[colon] # ":" THEN Unexpected
          ELSE IF ~value.ok THEN value
          ELSE IF Ends(s, q) THEN OutOfRange
          ELSE IF s[q] = "," THEN Members(s, q + 1, object)
          ELSE IF s[q] = "}" THEN Read(Object(object), q + 1)
          ELSE Unexpected
parse_object(s, p) ==
  LET q == consume_ws(s, p + 1) IN
  IF Ends(s, q) THEN OutOfRange
  ELSE IF s[q] = "}" THEN Read(Object(<<>>), q + 1)
  ELSE Members(s, q, <<>>)

parse_next(s, at) ==
  LET p == consume_ws(s, at) IN
  IF Ends(s, p) THEN OutOfRange
  ELSE CASE s[p] = "[" -> parse_array(s, p)
         [] s[p] = "{" -> parse_object(s, p)
         [] s[p] = "\"" -> parse_string(s, p)
         [] s[p] \in {"t", "f"} -> parse_bool(s, p)
         [] s[p] = "n" -> parse_null(s, p)
         [] s[p] \in DecimalDigits \cup {"-"} -> parse_number(s, p)
         [] OTHER -> Unexpected

Load(s) == parse_next(s, 1)
-----------------------------------------------------------------------------
(* from_json at the level of scripts: an object is a Map, and a text that  *)
(* ends too early is reported as unparsed.                                 *)
Map(f) == [kind |-> "map", map |-> f]
RECURSIVE ToScript(_)
ToScript(value) ==
  CASE value.kind = "object" ->
         Map([k \in {value.pairs[i].key : i \in DOMAIN value.pairs} |->
                ToScript(value.pairs[CHOOSE i \in DOMAIN value.pairs : value.pairs[i].key = k].value)])
    [] value.kind = "array" -> Array([i \in DOMAIN value.items |-> ToScript(value.items[i])])
    [] OTHER -> value
Reported(loaded) ==
  IF loaded.ok THEN Read(ToScript(loaded.value), loaded.at)
  ELSE IF loaded.error = "out_of_range" THEN Raises("Unparsed JSON input")
  ELSE loaded
from_json(s) == Reported(Load(s))

(* The pairs of a Map come in some order of the keys. *)
RECURSIVE to_json_object(_)
to_json_object(value) ==
  CASE value.kind = "map" ->
         LET keys == SetToSeq(DOMAIN value.map)
         IN Object([i \in DOMAIN keys |-> [key |-> keys[i], value |-> to_json_object(value.map[keys[i]])]])
    [] value.kind = "array" -> Array([i \in DOMAIN value.items |-> to_json_object(value.items[i])])
    [] OTHER -> value
-----------------------------------------------------------------------------
(* std::to_string: an integer's digits, and six decimals of a double.      *)
Places == 6
RECURSIVE Numeral(_)
Numeral(n) == IF n < 10 THEN <<DigitSeq[n + 1]>> ELSE Append(Numeral(n \div 10), DigitSeq[(n % 10) + 1])
Zeros(k) == IF k <= 0 THEN <<>> ELSE [i \in 1..k |-> "0"]
Padded(digits, k) == Zeros(k - Len(digits)) \o digits
Sign(n) == IF n < 0 THEN <<"-">> ELSE <<>>
Absolute(n) == IF n < 0 THEN -n ELSE n

(* The nearest decimal of Places digits after the point. *)
Rounded(d) ==
  LET extra == -d.e - Places IN
  IF extra <= 0 THEN d
  ELSE IF extra > 8 THEN Decimal(0, 0)
  ELSE Decimal((IF d.n < 0 THEN -1 ELSE 1) * ((Absolute(d.n) + 5 * 10 ^ (extra - 1)) \div 10 ^ extra), -Places)
Fixed(d) ==
  LET r == Rounded(d)
      digits == Numeral(Absolute(r.n))
      decimals == IF r.e < 0 THEN -r.e ELSE 0
      all == Padded(digits \o Zeros(r.e + decimals), decimals + 1)
      whole == Len(all) - decimals
  IN Sign(r.n) \o SubSeq(all, 1, whole) \o <<".">>
       \o SubSeq(all, whole + 1, Len(all)) \o Zeros(Places - decimals)

EscapeQuotes(chars) ==
  FoldLeft(LAMBDA written, c : written \o (IF c = "\"" THEN <<"\\", c>> ELSE <<c>>), <<>>, chars)
json_escape(chars) ==
  FoldLeft(LAMBDA written, c :
             written \o CASE c \in {"\"", "\\"} -> <<"\\", c>>
                       [] c = "\n" -> <<"\\", "n">>
                       [] c = "\t" -> <<"\\", "t">>
                       [] OTHER -> <<c>>,
           <<>>, chars)
Quoted(chars) == <<"\"">> \o json_escape(chars) \o <<"\"">>

Joined(texts, separator) ==
  FoldLeft(LAMBDA all, t : IF all = <<>> THEN t ELSE all \o separator \o t, <<>>, texts)

(* The indentation, spaces in front of the pairs of an object, is left out. *)
RECURSIVE dump(_)
dump(value) ==
  CASE value.kind = "null" -> <<"n", "u", "l", "l">>
    [] value.kind = "boolean" -> IF value.bool THEN <<"t", "r", "u", "e">> ELSE <<"f", "a", "l", "s", "e">>
    [] value.kind = "integral" -> Sign(value.int) \o Numeral(Absolute(value.int))
    [] value.kind = "floating" -> Fixed(value.real)
    [] value.kind = "string" -> Quoted(value.chars)
    [] value.kind = "array" ->
         <<"[">> \o Joined([i \in DOMAIN value.items |-> dump(value.items[i])], <<",", " ">>) \o <<"]">>
    [] value.kind = "object" ->
         <<"{", "\n">>
           \o Joined([i \in DOMAIN value.pairs |->
                        Quoted(value.pairs[i].key) \o <<" ", ":", " ">> \o dump(value.pairs[i].value)],
                     <<",", "\n">>)
           \o <<"\n", "}">>

to_json(value) == dump(to_json_object(value))
===============================================================================
