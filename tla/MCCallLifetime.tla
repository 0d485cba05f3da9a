---------------------------- MODULE MCCallLifetime ----------------------------
(***************************************************************************)
(* CallLifetime for TLC.  Five nodes and objects together, two of them     *)
(* objects and two values in a node: an outer call, the scope of the       *)
(* function it runs, and a call in it that returns a reference into its    *)
(* argument, which the scope then hands out; or an operator and a call     *)
(* that is its operand, with an argument and its conversion.               *)
(***************************************************************************)
EXTENDS CallLifetime
===============================================================================
