-------------------------------- MODULE Values --------------------------------
(***************************************************************************)
(* Where the values of a script come from: the literals of its text, the   *)
(* JSON texts it is given, and the operators on numbers; and the boxes it  *)
(* keeps them in.  A text grows by a piece at a time and is read whenever  *)
(* it has; each reader is compared with the grammar of what it reads.      *)
(***************************************************************************)
EXTENDS Numbers, Literals, Json, Lists, Boxes

CONSTANTS
  Outlines,      (* what reads a text, how it begins and what it grows by   *)
  MaxPieces,     (* bound: the pieces of a text                             *)
  MaxExponent    (* bound: the powers of ten of the numbers written out     *)

VARIABLES
  outline,       (* what the text is made of                                *)
  added,         (* the pieces it has grown by                              *)
  text           (* the text                                                *)

textVars == <<outline, added, text>>

TextInit == outline \in Outlines /\ added = 0 /\ text = outline.before
Grow(piece) ==
  /\ added < MaxPieces
  /\ added' = added + 1
  /\ text' = text \o piece
  /\ UNCHANGED outline
TextNext == \E piece \in outline.pieces : Grow(piece)

(* A text is read, or two numbers are operated on, or values are kept. *)
NoOutline == [reader |-> "none", before |-> <<>>, pieces |-> {}]
NoNumber == [type |-> Bool, value |-> 0]
NoTexts == outline = NoOutline /\ added = 0 /\ text = <<>>
NoNumbers == lhs = NoNumber /\ rhs = NoNumber /\ last = Nothing
ValuesInit ==
  \/ TextInit /\ NoNumbers /\ BoxesInit
  \/ Init /\ NoTexts /\ BoxesInit
  \/ BoxesInit /\ NoTexts /\ NoNumbers
ValuesNext ==
  \/ outline # NoOutline /\ TextNext /\ UNCHANGED <<vars, boxVars>>
  \/ lhs # NoNumber /\ Next /\ UNCHANGED <<textVars, boxVars>>
  \/ outline = NoOutline /\ lhs = NoNumber /\ BoxesNext /\ UNCHANGED <<vars, textVars>>
ValuesSpec == ValuesInit /\ [][ValuesNext]_<<vars, textVars, boxVars>>
-----------------------------------------------------------------------------
(* Integer literals as C++ has them: a base, digits and a suffix; the type *)
(* is the first of its list that holds the number.                         *)
First(s, n) == SubSeq(s, 1, n)
Rest(s, n) == SubSeq(s, n + 1, Len(s))
AllIn(s, chars) == s # <<>> /\ \A i \in DOMAIN s : s[i] \in chars

CppSuffixes == {<<>>, <<"u">>, <<"l">>, <<"u", "l">>, <<"l", "u">>, <<"l", "l">>,
                <<"u", "l", "l">>, <<"l", "l", "u">>}
Bases == {[base |-> 10, prefix |-> <<>>], [base |-> 8, prefix |-> <<"0">>],
          [base |-> 16, prefix |-> <<"0", "x">>], [base |-> 2, prefix |-> <<"0", "b">>]}
CppTypes == <<"int", "unsigned int", "long", "unsigned long", "long long", "unsigned long long">>
Holds(type, base, suffix) ==
  /\ LongsIn(suffix) = 1 => type \notin {"int", "unsigned int"}
  /\ LongsIn(suffix) = 2 => type \in {"long long", "unsigned long long"}
  /\ IF "u" \in Range(suffix) THEN IsUnsigned(type) ELSE base = 10 => ~IsUnsigned(type)

(* Each digit times the power of its place. *)
ByPlaces(digits, base) ==
  MapThenSumSet(LAMBDA i : DigitValue(digits[i]) * base ^ (Len(digits) - i), DOMAIN digits)

CppReadings(s) ==
  {[base |-> b.base, suffix |-> Rest(s, n), number |-> ByPlaces(Rest(First(s, n), Len(b.prefix)), b.base)] :
     <<b, n>> \in {<<b, n>> \in Bases \X (0 .. Len(s)) :
                    /\ Rest(s, n) \in CppSuffixes
                    /\ Len(b.prefix) <= n /\ First(s, Len(b.prefix)) = b.prefix
                    /\ n > Len(b.prefix) \/ b.base = 8
                    /\ \A i \in Len(b.prefix) + 1 .. n : s[i] \in DigitsOf(b.base)
                    /\ b.base = 10 => s[1] # "0"}}
CppType(r) ==
  SelectSeq(CppTypes, LAMBDA t : Holds(t, r.base, r.suffix) /\ r.number <= Largest(t))

(* Floating point literals: digits, a point and digits, an exponent, and a *)
(* suffix, not all of them.                                                *)
Unsigned(x) == IF x # <<>> /\ x[1] \in {"+", "-"} THEN Rest(x, 1) ELSE x
IsFraction(x) == x = <<>> \/ (x[1] = "." /\ AllIn(Rest(x, 1), DecimalDigits))
IsExponent(x) == x = <<>> \/ (x[1] = "e" /\ AllIn(Unsigned(Rest(x, 1)), DecimalDigits))
ExponentOf(x) ==
  IF x = <<>> THEN 0
  ELSE ByPlaces(Unsigned(Rest(x, 1)), 10) * (IF x[2] = "-" THEN -1 ELSE 1)

Parts(s) ==
  {[whole |-> First(s, c[1]), fraction |-> SubSeq(s, c[1] + 1, c[2]),
    exponent |-> SubSeq(s, c[2] + 1, c[3]), suffix |-> Rest(s, c[3])] :
     c \in {c \in (0 .. Len(s)) \X (0 .. Len(s)) \X (0 .. Len(s)) : c[1] <= c[2] /\ c[2] <= c[3]}}
CppReals(s) ==
  {p \in Parts(s) :
     /\ p.whole \o p.fraction # <<>> /\ p.fraction \o p.exponent # <<>>
     /\ p.whole = <<>> \/ AllIn(p.whole, DecimalDigits)
     /\ IsFraction(p.fraction) /\ IsExponent(p.exponent)
     /\ p.suffix \in {<<>>, <<"f">>, <<"l">>}}
RealType(p) == IF p.suffix = <<>> THEN "double" ELSE IF p.suffix = <<"f">> THEN "float" ELSE "long double"
RealValue(p) ==
  LET places == IF p.fraction = <<>> THEN 0 ELSE Len(p.fraction) - 1
  IN Decimal(ByPlaces(p.whole \o Rest(p.fraction, 1), 10), ExponentOf(p.exponent) - places)

(* A literal of C++ is read to its end, with its value and the type C++    *)
(* gives it; a binary one has no suffix here, and a floating point one     *)
(* needs a digit behind its point.                                         *)
LiteralsAsInCpp ==
  outline.reader = "literal" =>
    /\ \A r \in CppReadings(text) :
         CppType(r) # <<>> /\ ~(r.base = 2 /\ r.suffix # <<>>) =>
           Num(text) = Parsed(Len(text) + 1, Whole(CppType(r)[1], r.number))
    /\ \A r \in CppReals(text) : Num(text) = Parsed(Len(text) + 1, Real(RealType(r), RealValue(r)))
-----------------------------------------------------------------------------
(* What a JSON text means, by the grammar: the shape of the whole first,   *)
(* then that of the parts it is cut into.                                  *)
NotJson == [kind |-> "not JSON"]
NotMember == [key |-> NotJson, value |-> NotJson]

Trim(s) ==
  LET inked == {i \in DOMAIN s : s[i] \notin White}
  IN IF inked = {} THEN <<>> ELSE SubSeq(s, Min(inked), Max(inked))
Inside(s) == SubSeq(s, 2, Len(s) - 1)
Enclosed(s, left, right) == Len(s) >= 2 /\ s[1] = left /\ s[Len(s)] = right

JsonNumbers(s) ==
  {p \in Parts(IF s # <<>> /\ s[1] = "-" THEN Rest(s, 1) ELSE s) :
     /\ AllIn(p.whole, DecimalDigits) /\ (p.whole[1] = "0" => Len(p.whole) = 1)
     /\ IsFraction(p.fraction) /\ IsExponent(p.exponent) /\ p.suffix = <<>>}
JsonNumber(s, p) ==
  LET n == RealValue(p)  signed == [n EXCEPT !.n = IF s[1] = "-" THEN -@ ELSE @]
  IN IF p.fraction \o p.exponent = <<>> THEN IntegralValue(signed.n * 10 ^ signed.e)
     ELSE FloatingValue(signed)

(* The characters of a string, escapes undone; \u is left to the reader.   *)
RECURSIVE Unescaped(_)
Unescaped(s) ==
  IF s = <<>> THEN String(<<>>)
  ELSE LET one == s[1] # "\\"
           rest == Unescaped(Rest(s, IF one THEN 1 ELSE 2))
       IN IF rest = NotJson \/ (one /\ s[1] \in {"\"", "\n"})
               \/ (~one /\ (Len(s) = 1 \/ s[2] \notin DOMAIN Escapes)) THEN NotJson
          ELSE String(<<IF one THEN s[1] ELSE Escapes[s[2]]>> \o rest.chars)

RECURSIVE Meaning(_), Listed(_, _)
Meaning(s) ==
  LET t == Trim(s)  inside == Inside(t)
      empty == Trim(inside) = <<>>
      numbers == JsonNumbers(t)
      items == Listed(inside, FALSE)  pairs == Listed(inside, TRUE)
  IN
  CASE t = dump(Null) -> Null
    [] t = dump(Boolean(TRUE)) -> Boolean(TRUE)
    [] t = dump(Boolean(FALSE)) -> Boolean(FALSE)
    [] Enclosed(t, "\"", "\"") -> Unescaped(inside)
    [] Enclosed(t, "[", "]") -> IF empty \/ items # <<>> THEN Array(items) ELSE NotJson
    [] Enclosed(t, "{", "}") ->
         IF empty \/ pairs # <<>> THEN Object(FoldLeft(LAMBDA o, p : WithKey(o, p.key, p.value), <<>>, pairs))
         ELSE NotJson
    [] t # <<>> /\ t[1] \in DecimalDigits \cup {"-"} ->
         IF numbers # {} THEN JsonNumber(t, CHOOSE p \in numbers : TRUE) ELSE NotJson
    [] OTHER -> NotJson

(* The items, or the pairs, that commas separate; nothing if there is no   *)
(* way to cut them.                                                        *)
PairIn(s) ==
  LET colons == {k \in DOMAIN s : s[k] = ":" /\ Meaning(First(s, k - 1)).kind = "string"}
      value == Meaning(Rest(s, Min(colons)))
  IN IF colons = {} THEN <<>> ELSE IF value = NotJson THEN <<>>
     ELSE <<[key |-> Meaning(First(s, Min(colons) - 1)).chars, value |-> value]>>
One(s, isPair) ==
  IF isPair THEN PairIn(s)
  ELSE LET value == Meaning(s) IN IF value = NotJson THEN <<>> ELSE <<value>>
Listed(s, isPair) ==
  LET one == One(s, isPair)
      cuts == {k \in DOMAIN s : s[k] = "," /\ One(First(s, k - 1), isPair) # <<>>}
      rest == Listed(Rest(s, Min(cuts)), isPair)
  IN IF one # <<>> THEN one
     ELSE IF cuts = {} THEN <<>> ELSE IF rest = <<>> THEN <<>>
     ELSE One(First(s, Min(cuts) - 1), isPair) \o rest

(* Every JSON text is read as what it means, to its end; \u is not undone. *)
JsonAsMeant ==
  outline.reader = "json" /\ Meaning(text) # NotJson =>
    Load(text).ok /\ Load(text).value = Meaning(text)

(* A script gets back what it wrote: from_json(to_json(x)) is x for every  *)
(* x that from_json makes of a text, but for the decimals after the sixth. *)
RECURSIVE Written(_)
Written(x) ==
  CASE x.kind = "floating" -> FloatingValue(Rounded(x.real))
    [] x.kind = "array" -> Array([i \in DOMAIN x.items |-> Written(x.items[i])])
    [] x.kind = "map" -> Map([k \in DOMAIN x.map |-> Written(x.map[k])])
    [] OTHER -> x
RECURSIVE Moderate(_)
Moderate(x) ==
  CASE x.kind = "floating" -> Absolute(x.real.e) <= MaxExponent
    [] x.kind = "array" -> \A i \in DOMAIN x.items : Moderate(x.items[i])
    [] x.kind = "map" -> \A k \in DOMAIN x.map : Moderate(x.map[k])
    [] OTHER -> TRUE
KeptByJson(x) == Moderate(x) => from_json(to_json(x)).value = Written(x)
RoundTrip ==
  outline.reader = "json" => \A read \in {from_json(text)} : read.ok => KeptByJson(read.value)

(* A text that was cut off is noticed: what is read of an array, an object *)
(* or a string is closed in the text, unless it ends behind a comma.       *)
Nesting(s) ==
  LET step(st, c) ==
        IF st.closed THEN st
        ELSE IF st.escaped THEN [st EXCEPT !.escaped = FALSE]
        ELSE IF st.quoted THEN [st EXCEPT !.escaped = c = "\\", !.quoted = c # "\"",
                                          !.closed = c = "\"" /\ st.depth = 0]
        ELSE IF c = "\"" THEN [st EXCEPT !.quoted = TRUE]
        ELSE IF c \in {"[", "{"} THEN [st EXCEPT !.depth = @ + 1]
        ELSE IF c \in {"]", "}"} THEN [st EXCEPT !.depth = @ - 1, !.closed = st.depth = 1]
        ELSE st
  IN FoldLeft(step, [depth |-> 0, quoted |-> FALSE, escaped |-> FALSE, closed |-> FALSE], s)
CutOffNoticed ==
  outline.reader = "json" /\ Load(text).ok /\ Load(text).value.kind \in {"array", "object", "string"}
    => Nesting(text).closed \/ text[Len(text)] = ","
-----------------------------------------------------------------------------
(* What a range goes over, from its front to its back. *)
View(r) ==
  LET part == SubSeq(r.over, r.begin, r.end - 1) IN IF r.turned THEN Reverse(part) ELSE part
RangesOver(s) ==
  {[over |-> s, begin |-> b[1], end |-> b[2], turned |-> t] :
     b \in {b \in (1 .. Len(s) + 1) \X (1 .. Len(s) + 1) : b[1] <= b[2]}, t \in BOOLEAN}

RangeAsView(r, v) ==
  /\ IsEmpty(r) = (v = <<>>) /\ View(retro(r)) = Reverse(v)
  /\ v # <<>> =>
       /\ FrontOf(r) = Head(v) /\ BackOf(r) = Last(v)
       /\ View(PopFront(r)) = Tail(v) /\ View(PopBack(r)) = Front(v)

(* The leading elements of v that f holds of, by their number. *)
Leading(v, f) == Min({i \in 1 .. Len(v) + 1 : i > Len(v) \/ v[i] \notin f}) - 1
AtMost(n, v) == IF n < 0 THEN 0 ELSE IF n > Len(v) THEN Len(v) ELSE n
Swapped(v) == [i \in DOMAIN v |-> Call(v[i], v[i])]
SearchesAsDefined(r, v, f, elements) ==
  /\ any_of(r, f) = (Range(v) \cap f # {}) /\ all_of(r, f) = (Range(v) \subseteq f)
  /\ FilterInto(r, f, <<>>) = SelectSeq(v, LAMBDA x : x \in f)
  /\ TakeWhileInto(r, f, <<>>) = First(v, Leading(v, f))
  /\ DropWhileInto(r, f, <<>>) = Rest(v, Leading(v, f))
  /\ \A x \in elements :
       /\ contains(r, x, f \X {x}) = any_of(r, f)
       /\ View(find(r, x, f \X {x})) = Rest(v, Leading(v, elements \ f))
LoopsAsDefined(r, v, elements) ==
  /\ foldl(r, <<>>) = FoldLeft(LAMBDA kept, x : Call(x, kept), <<>>, v)
  /\ MapInto(r, [x \in elements |-> Call(x, x)], <<>>) = Swapped(v)
  /\ join(r, <<",">>) = Joined([i \in DOMAIN v |-> <<v[i]>>], <<",">>)
  /\ \A n \in -1 .. Len(v) + 1 :
       TakeInto(r, n, <<>>) = First(v, AtMost(n, v)) /\ DropInto(r, n, <<>>) = Rest(v, AtMost(n, v))
ContainersAsDefined(s, elements) ==
  /\ reverse(s) = Reverse(s)
  /\ Len(s) >= 2 => reduce(s) = FoldLeft(Call, Head(s), Tail(s))
  /\ trim(s) = Trim(s) /\ \A x \in {trim(s), reverse(s)} : EqualVectors(s, x) = (s = x)
  /\ GenerateInto(1, Len(s), <<>>) = [i \in 1 .. Len(s) |-> i]
  /\ \A n \in -1 .. Len(s) + 1, x \in elements :
       /\ insert_at(s, n, x) = IF n \in 0 .. Len(s) THEN Inserted(InsertAt(s, n + 1, x)) ELSE PastTheEnd
       /\ erase_at(s, n) = IF n \in 0 .. Len(s) - 1 THEN Inserted(RemoveAt(s, n + 1)) ELSE PastTheEnd
PairsAsDefined(r, v, x, y) ==
  /\ concat(v, x) = v \o y
  /\ ZipInto(r, x, <<>>) = [i \in 1 .. Min({Len(v), Len(y)}) |-> Call(v[i], y[i])]

(* The list functions do what their names say with a range that was partly *)
(* used, turned around or turned back, as they do with a whole container.  *)
ListsAsDefined ==
  outline.reader = "list" =>
    \A elements \in {{p[1] : p \in outline.pieces}} :
      /\ \A r \in RangesOver(text) : \A v \in {View(r)} :
           /\ RangeAsView(r, v)
           /\ \A f \in SUBSET elements : SearchesAsDefined(r, v, f, elements)
           /\ LoopsAsDefined(r, v, elements)
           /\ PairsAsDefined(r, v, range(text), text)
           /\ PairsAsDefined(r, v, retro(r), Reverse(v))
      /\ ContainersAsDefined(text, elements)
===============================================================================
