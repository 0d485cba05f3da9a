------------------------------ MODULE MCUseFiles ------------------------------
(***************************************************************************)
(* Two host threads and one that async() may start; file a is on the       *)
(* second use path, the empty one, b on the first, m nowhere.  Every       *)
(* combination of the scripts below is run.  No file uses itself and no    *)
(* file waits for a thread.                                                *)
(***************************************************************************)
EXTENDS UseFiles

CONSTANTS t1, t2, t3

MCNames == {"a", "b", "m", "pa", "pb", "pm"}
MCPaths == <<"p", "">>
MCFull == [x \in {"p", ""} \X MCNames |->
  CASE x = <<"p", "a">> -> "pa" [] x = <<"p", "b">> -> "pb"
    [] x[1] = "p"       -> "pm" [] OTHER            -> x[2]]
MCOnDisk == {"a", "pb"}

Try(o, a) == [op |-> o, arg |-> a, caught |-> TRUE]
Do(o, a) == [op |-> o, arg |-> a, caught |-> FALSE]

Host1 == { << Try("use", "a"), Do("use", "b") >>,
           << Try("use", "b"), Do("use", "b") >>,
           << Do("async", t3), Try("use", "a"), Try("wait", t3) >>,
           << Do("get_state", "a"), Try("use", "b"), Do("set_state", "a"), Do("use", "b") >> }
Host2 == { << Try("use", "a"), Do("use", "a") >>,
           << Do("use", "b"), Do("get_state", "b"), Do("set_state", "b") >> }
FileA == { << Do("use", "b") >>, << Try("use", "m"), Do("throw", "a") >>,
           << Do("use", "m") >>, << Try("eval_file", "b"), Try("eval_file", "m") >> }
FileB == { <<>>, << Do("throw", "b") >>, << Do("use", "m") >> }

MCPrograms ==
  { [x \in {t1, t2, t3} \cup MCOnDisk |->
       CASE x = t1 -> h1 [] x = t2 -> h2 [] x = t3 -> << Do("use", "b") >>
         [] x = "a" -> a [] OTHER -> b] :
    h1 \in Host1, h2 \in Host2, a \in FileA, b \in FileB }

ASSUME ScriptsKeepNamesApart == NamesApart
===============================================================================
