--------------------------- MODULE OptimizedPrograms ---------------------------
(* Each program is run twice: as the parser builds it, then, in an engine of  *)
(* its own, as Optimizer_Default rewrites it.                                 *)
EXTENDS Objects, Optimizer

VARIABLES
  source,   \* the program
  first     \* <<>> in the first run, then how that ended

allVars == <<vars, source, first>>

(* What the host sees of a run: the effects, and the result. *)
Outcome == [log |-> log, ended |-> IF ctl.kind = "throw" THEN "throw" ELSE "value", result |-> Val(ctl.d)]

Start ==
  /\ Init
  /\ source = frames[1].node /\ first = <<>>

Evaluate == ObjectsNext /\ UNCHANGED <<source, first>>

RunOptimized ==
  /\ Done /\ first = <<>>
  /\ first' = <<Outcome>> /\ UNCHANGED source
  /\ frames' = <<Frame(Optimize(source), Bare)>> /\ stacks' = Bare
  /\ data' = <<data[1]>> /\ objs' = <<objs[1]>>
  /\ consts' = <<>> /\ funs' = {} /\ lambdas' = <<>> /\ ctl' = Run /\ log' = <<>>

(* Both runs are over; that anything else stops is a deadlock. *)
Stop == Done /\ first # <<>> /\ UNCHANGED allVars

EitherStep == Evaluate \/ RunOptimized \/ Stop
BothRuns == Start /\ [][EitherStep]_allVars

(* The optimizer does not change what a program does. *)
OptimizedSame == Done /\ first # <<>> => Outcome = first[1]
===============================================================================
