---------------------------- MODULE MCConversions ----------------------------
EXTENDS Conversions
CONSTANTS A, B, C

(* A polymorphic pair, its own reverse as a function, a function between   *)
(* types of which one takes part in another conversion, and one that adds  *)
(* as many types as the first; two of them join the same types.            *)
MCAddable == { [to |-> A, from |-> B, kind |-> "dynamic"],
               [to |-> B, from |-> A, kind |-> "function"],
               [to |-> B, from |-> C, kind |-> "static"],
               [to |-> B, from |-> C, kind |-> "function"],
               [to |-> C, from |-> B, kind |-> "function"] }

(* Questions about these, about a pair that no conversion joins though     *)
(* both of its types take part in one, and a cast to the value's own type. *)
Ask(name, to, from) == [name |-> name, to |-> to, from |-> from]
MCAsked == { Ask("converts", B, A), Ask("convert", A, B), Ask("convert", B, C),
             Ask("boxed_cast", B, C), Ask("boxed_cast", C, A), Ask("boxed_cast", B, B) }
=============================================================================
