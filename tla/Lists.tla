-------------------------------- MODULE Lists --------------------------------
(***************************************************************************)
(* The list functions of the prelude, loops over ranges: a range is used   *)
(* up from both its ends, and a retro turns one around.  A container is    *)
(* the sequence of its elements, a predicate the set of the elements it    *)
(* holds of, a comparison the set of pairs it holds of; what any other     *)
(* function of the script returns is told by its arguments.  The functions *)
(* that the code gives an inserter get what it has inserted already.       *)
(***************************************************************************)
EXTENDS Integers, Sequences

Call(x, y) == <<x, y>>

(* Bidir_Range, and the retro that has one as its m_range. *)
range(s) == [over |-> s, begin |-> 1, end |-> Len(s) + 1, turned |-> FALSE]
retro(r) == [r EXCEPT !.turned = ~@]

IsEmpty(r) == r.begin = r.end
(* An empty range has neither front nor back, and popping it changes       *)
(* nothing: it throws.  No loop of the prelude comes to that.              *)
RangeEmpty == "Range empty"
FrontOf(r) ==
  IF IsEmpty(r) THEN RangeEmpty ELSE IF r.turned THEN r.over[r.end - 1] ELSE r.over[r.begin]
BackOf(r) == FrontOf(retro(r))
WithoutFirst(r) == IF IsEmpty(r) THEN r ELSE [r EXCEPT !.begin = @ + 1]
WithoutLast(r) == IF IsEmpty(r) THEN r ELSE [r EXCEPT !.end = @ - 1]
(* PopFrontAsIs forgets that a retro goes the other way. *)
PopFrontAsIs(r) == WithoutFirst(r)
PopFront(r) == IF r.turned THEN WithoutLast(r) ELSE WithoutFirst(r)
PopBack(r) == IF r.turned THEN WithoutFirst(r) ELSE WithoutLast(r)
-----------------------------------------------------------------------------
(* Searches and folds. *)
RECURSIVE any_of(_, _), all_of(_, _), contains(_, _, _), find(_, _, _), foldl(_, _)
any_of(r, f) == ~IsEmpty(r) /\ (FrontOf(r) \in f \/ any_of(PopFront(r), f))
all_of(r, f) == IsEmpty(r) \/ (FrontOf(r) \in f /\ all_of(PopFront(r), f))
contains(r, item, compare) ==
  ~IsEmpty(r) /\ (<<FrontOf(r), item>> \in compare \/ contains(PopFront(r), item, compare))
find(r, value, compare) ==
  IF IsEmpty(r) \/ <<FrontOf(r), value>> \in compare THEN r ELSE find(PopFront(r), value, compare)
foldl(r, retval) ==
  IF IsEmpty(r) THEN retval ELSE foldl(PopFront(r), Call(FrontOf(r), retval))

(* reduce's guard wants a container of two elements. *)
RECURSIVE Reduced(_, _)
Reduced(r, retval) ==
  IF IsEmpty(r) THEN retval ELSE Reduced(PopFront(r), Call(retval, FrontOf(r)))
reduce(s) == Reduced(PopFront(range(s)), FrontOf(range(s)))
-----------------------------------------------------------------------------
(* From a range into an inserter. *)
RECURSIVE MapInto(_, _, _), FilterInto(_, _, _), CopyInto(_, _), ReverseInto(_, _)
CopyInto(r, to) == IF IsEmpty(r) THEN to ELSE CopyInto(PopFront(r), Append(to, FrontOf(r)))
ReverseInto(r, to) == IF IsEmpty(r) THEN to ELSE ReverseInto(PopBack(r), Append(to, BackOf(r)))
MapInto(r, func, to) ==
  IF IsEmpty(r) THEN to ELSE MapInto(PopFront(r), func, Append(to, func[FrontOf(r)]))
FilterInto(r, f, to) ==
  IF IsEmpty(r) THEN to
  ELSE FilterInto(PopFront(r), f, IF FrontOf(r) \in f THEN Append(to, FrontOf(r)) ELSE to)

RECURSIVE TakeInto(_, _, _), TakeWhileInto(_, _, _), AfterDrop(_, _), AfterDropWhile(_, _)
TakeInto(r, i, to) ==
  IF i <= 0 \/ IsEmpty(r) THEN to ELSE TakeInto(PopFront(r), i - 1, Append(to, FrontOf(r)))
TakeWhileInto(r, f, to) ==
  IF IsEmpty(r) \/ FrontOf(r) \notin f THEN to
  ELSE TakeWhileInto(PopFront(r), f, Append(to, FrontOf(r)))
AfterDrop(r, i) == IF i <= 0 \/ IsEmpty(r) THEN r ELSE AfterDrop(PopFront(r), i - 1)
AfterDropWhile(r, f) ==
  IF IsEmpty(r) \/ FrontOf(r) \notin f THEN r ELSE AfterDropWhile(PopFront(r), f)
DropInto(r, num, to) == CopyInto(AfterDrop(r, num), to)
DropWhileInto(r, f, to) == CopyInto(AfterDropWhile(r, f), to)

RECURSIVE ZipInto(_, _, _), GenerateInto(_, _, _), Delimited(_, _, _)
ZipInto(x, y, to) ==
  IF IsEmpty(x) \/ IsEmpty(y) THEN to
  ELSE ZipInto(PopFront(x), PopFront(y), Append(to, Call(FrontOf(x), FrontOf(y))))
GenerateInto(i, y, to) == IF i > y THEN to ELSE GenerateInto(i + 1, y, Append(to, i))

(* join; to_string of a container is its elements, joined, in brackets. *)
Delimited(r, delim, retval) ==
  IF IsEmpty(r) THEN retval
  ELSE Delimited(PopFront(r), delim, retval \o delim \o <<FrontOf(r)>>)
join(r, delim) ==
  IF IsEmpty(r) THEN <<>> ELSE Delimited(PopFront(r), delim, <<FrontOf(r)>>)
-----------------------------------------------------------------------------
(* From a container into a new one of its type: of a range there is none.  *)
map(s, func) == MapInto(range(s), func, <<>>)
filter(s, f) == FilterInto(range(s), f, <<>>)
take(s, num) == TakeInto(range(s), num, <<>>)
take_while(s, f) == TakeWhileInto(range(s), f, <<>>)
drop(s, num) == DropInto(range(s), num, <<>>)
drop_while(s, f) == DropWhileInto(range(s), f, <<>>)
reverse(s) == ReverseInto(range(s), <<>>)
concat(s, y) == CopyInto(y, s)

Blank == {" ", "\t", "\r", "\n"}
ltrim(s) == drop_while(s, Blank)
rtrim(s) == reverse(drop_while(reverse(s), Blank))
trim(s) == ltrim(rtrim(s))

(* == of two Vectors. *)
RECURSIVE SameElements(_, _)
SameElements(x, y) ==
  IsEmpty(x) \/ (FrontOf(x) = FrontOf(y) /\ SameElements(PopFront(x), PopFront(y)))
EqualVectors(s, t) == Len(s) = Len(t) /\ SameElements(range(s), range(t))

(* insert_at and erase_at, or that they throw; positions count from zero.  *)
Inserted(s) == [ok |-> TRUE, list |-> s]
PastTheEnd == [ok |-> FALSE, list |-> <<>>]
insert_at(s, pos, x) ==
  IF pos < 0 \/ Len(s) < pos THEN PastTheEnd
  ELSE Inserted(SubSeq(s, 1, pos) \o <<x>> \o SubSeq(s, pos + 1, Len(s)))
erase_at(s, pos) ==
  IF pos < 0 \/ Len(s) <= pos THEN PastTheEnd
  ELSE Inserted(SubSeq(s, 1, pos) \o SubSeq(s, pos + 2, Len(s)))
===============================================================================
