---------------------------- MODULE MCEngineTables ----------------------------
(***************************************************************************)
(* Two host threads; module M brings a type, a function and globals,       *)
(* module C a conversion and a global.  M is loaded by both threads and    *)
(* after set_state; C is not loaded again after set_state, and no other    *)
(* thread uses the modules' names: README.md says what happens then.       *)
(***************************************************************************)
EXTENDS EngineTables

CONSTANTS t1, t2

It(k, n) == [kind |-> k, name |-> n]
MCItems == [mod \in Modules |->
  IF mod = "M" THEN << It("type", "T"), It("fun", "f"), It("global", "g"), It("global", "k") >>
               ELSE << It("conv", "c"), It("global", "h") >>]

Call(o, a) == [op |-> o, arg |-> a]
S(o) == [op |-> o, arg |-> Absent]

Calls1 == { << S("get_state"), Call("load_module", "M"), S("set_state"), Call("load_module", "M") >>,
            << Call("load_module", "C"), Call("add_global", "n"), Call("add_global", "g") >>,
            << Call("register_namespace", "n"), Call("import", "n"), Call("import", "n") >>,
            << Call("add_module", "M"), Call("add_module", "C"), Call("add_module", "C") >>,
            << Call("load_module", "M"), Call("add_module", "M") >>,
            << Call("add_module", "C"), Call("add_module", "C"), Call("load_module", "M") >>,
            << Call("add_global", "h"), Call("load_module", "C") >>,
            << Call("namespace", "n"), Call("set_global", "n") >> }
Calls2 == { << Call("load_module", "M"), Call("import", "n") >>,
            << Call("namespace", "n"), Call("load_module", "M") >>,
            << S("get_state"), Call("add_global", "n"), S("set_state") >>,
            << Call("add_global", "n"), Call("set_global", "n") >> }
(* A name of M bound from elsewhere makes load_module fail half way.       *)
Excluded(p) ==
  /\ \E i \in 1..Len(p[t1]) : p[t1][i] \in {Call("add_global", "g"), Call("add_module", "M")}
  /\ \E i \in 1..Len(p[t2]) : p[t2][i].op = "load_module"

MCPrograms == { p \in { [t \in {t1, t2} |-> IF t = t1 THEN a ELSE b] : a \in Calls1, b \in Calls2 } :
                ~Excluded(p) }

(* Programs of every kind keep the modules apart, as LoadedIsComplete asks. *)
ASSUME CallsKeepModulesApart ==
  \A o \in { c.op : c \in Op } : \E p \in MCPrograms :
    ModulesApart(p) /\ LoadedIn(p) # {} /\ \E c \in MadeIn(p) : c.op = o
===============================================================================
