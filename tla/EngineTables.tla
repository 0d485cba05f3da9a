----------------------------- MODULE EngineTables -----------------------------
(***************************************************************************)
(* The engine's tables and who fills them (chaiscript_engine.hpp and       *)
(* Module in dispatchkit.hpp): binary modules, namespaces, globals, and    *)
(* the State the host saves and restores.  Host threads call the public    *)
(* functions; m_use_mutex is held through load_module, import and          *)
(* register_namespace, while every single insertion takes only the lock    *)
(* of its table, so that each is a step of its own.  Scripts a module      *)
(* evaluates (Module::eval) and the check of names are left out.           *)
(***************************************************************************)
EXTENDS Integers, SequencesExt

CONSTANTS
  Threads,
  Names,       (* names of globals and namespaces                           *)
  Modules,     (* loadable modules                                          *)
  Items,       (* [Modules -> Seq(Item)], in the order of Module::apply     *)
  Programs,    (* a set of [Threads -> Seq(Op)]                             *)
  Absent, Nobody

(* What a module adds: a type (with its global "<name>_type"), a function, *)
(* a conversion, a const global.  "type_name" is the second half of adding *)
(* a type.                                                                 *)
Item == [kind : {"type", "type_name", "fun", "conv", "global"}, name : STRING]
Order == <<"type", "fun", "conv", "global">>

Op == [op : {"load_module", "add_module"}, arg : Modules]
      \cup [op : {"add_global", "set_global", "register_namespace", "import", "namespace"}, arg : Names]
      \cup [op : {"get_state", "set_state"}, arg : {Absent}]

ASSUME TablesAssumption ==
  /\ Nobody \notin Threads
  /\ Items \in [Modules -> Seq(Item)]
  /\ \A mod \in Modules : \A i, j \in 1..Len(Items[mod]) :
       \E a, b \in 1..4 :
         /\ Items[mod][i].kind = Order[a] /\ Items[mod][j].kind = Order[b]
         /\ i < j => a <= b
  /\ Programs \subseteq [Threads -> Seq(Op)]
  /\ Absent \notin Threads \cup {"module", "namespace"}

VARIABLES
  todo,        (* the calls each thread has still to make                   *)
  step,        (* "idle", or where the thread is in its call                *)
  rest,        (* the items Module::apply has still to add                  *)
  failed,      (* whether the thread's last call threw                      *)
  useOwner,    (* owner of m_use_mutex                                      *)
  loaded,      (* the keys of m_loaded_modules                              *)
  active,      (* m_active_loaded_modules                                   *)
  generators,  (* the keys of m_namespace_generators                        *)
  globals,     (* m_global_objects: [names -> who bound it, or Absent]      *)
  funs,        (* m_functions, as the set of the functions added            *)
  types,       (* the keys of m_types                                       *)
  convs,       (* Type_Conversions::m_conversions                           *)
  saved        (* the State the host saved                                  *)

control == <<todo, step, rest, failed>>
tables == <<globals, funs, types, convs>>
tableVars == <<todo, step, rest, failed, useOwner, loaded, active, generators,
          globals, funs, types, convs, saved>>

TypeGlobal(n) == n \o "_type"
GlobalNames ==
  Names \cup { TypeGlobal(it.name) : it \in UNION { Range(Items[mod]) : mod \in Modules } }
        \cup { it.name : it \in UNION { Range(Items[mod]) : mod \in Modules } }
Bound(n) == globals[n] # Absent

StateNow == [active |-> active, globals |-> globals, funs |-> funs, types |-> types]

TablesInit ==
  /\ todo \in Programs
  /\ step = [t \in Threads |-> "idle"]
  /\ rest = [t \in Threads |-> <<>>]
  /\ failed = [t \in Threads |-> FALSE]
  /\ useOwner = Nobody
  /\ loaded = {} /\ active = {} /\ generators = {}
  /\ globals = [n \in GlobalNames |-> Absent]
  /\ funs = {} /\ types = {} /\ convs = {}
  /\ saved = StateNow
-----------------------------------------------------------------------------
At(t, o) == step[t] = "idle" /\ todo[t] # <<>> /\ Head(todo[t]).op = o
In(t, s) == step[t] = s
Arg(t) == Head(todo[t]).arg

Goto(t, s) == step' = [step EXCEPT ![t] = s] /\ UNCHANGED <<todo, rest, failed>>
EndCall(t, threw) ==
  /\ todo' = [todo EXCEPT ![t] = Tail(@)]
  /\ step' = [step EXCEPT ![t] = "idle"]
  /\ rest' = [rest EXCEPT ![t] = <<>>]
  /\ failed' = [failed EXCEPT ![t] = threw]
Lock(t) == useOwner = Nobody /\ useOwner' = t
Unlock(t) == useOwner' = IF useOwner = t THEN Nobody ELSE useOwner

Apply(t, mod) ==
  /\ step' = [step EXCEPT ![t] = "apply"]
  /\ rest' = [rest EXCEPT ![t] = Items[mod]]
  /\ UNCHANGED <<todo, failed>>

(* load_module(name, file).                                                *)
LoadModule(t) ==
  LET mod == Arg(t) IN
  /\ At(t, "load_module")
  /\ \/ /\ mod \notin loaded \/ mod \notin active
        /\ Lock(t)
        /\ loaded' = loaded \cup {mod}
        /\ active' = active \cup {mod}
        /\ Apply(t, mod)
     \/ /\ mod \in loaded /\ mod \in active
        /\ useOwner = Nobody
        /\ EndCall(t, FALSE)
        /\ UNCHANGED <<useOwner, loaded, active>>
  /\ UNCHANGED <<generators, tables, saved>>

(* add(ModulePtr), without m_use_mutex.                                    *)
AddModule(t) ==
  /\ At(t, "add_module")
  /\ Apply(t, Arg(t))
  /\ UNCHANGED <<useOwner, loaded, active, generators, tables, saved>>

(* Module::apply, one item: a name conflict of a type or a function is     *)
(* passed over, one of a conversion or a global ends the call.             *)
Item1(t) == Head(rest[t])
Next1(t) == rest' = [rest EXCEPT ![t] = Tail(@)] /\ UNCHANGED <<todo, step, failed>>

ApplyType(t) ==
  LET n == TypeGlobal(Item1(t).name) IN
  /\ In(t, "apply") /\ rest[t] # <<>> /\ Item1(t).kind = "type"
  /\ \/ Bound(n) /\ Next1(t) /\ UNCHANGED globals
     \/ /\ ~Bound(n)
        /\ globals' = [globals EXCEPT ![n] = "module"]
        /\ rest' = [rest EXCEPT ![t] = << [Item1(t) EXCEPT !.kind = "type_name"] >> \o Tail(@)]
        /\ UNCHANGED <<todo, step, failed>>
  /\ UNCHANGED <<useOwner, loaded, active, generators, funs, types, convs, saved>>

ApplyTypeName(t) ==
  /\ In(t, "apply") /\ rest[t] # <<>> /\ Item1(t).kind = "type_name"
  /\ types' = types \cup {Item1(t).name}
  /\ Next1(t)
  /\ UNCHANGED <<useOwner, loaded, active, generators, globals, funs, convs, saved>>

ApplyFun(t) ==
  /\ In(t, "apply") /\ rest[t] # <<>> /\ Item1(t).kind = "fun"
  /\ funs' = funs \cup {Item1(t).name}
  /\ Next1(t)
  /\ UNCHANGED <<useOwner, loaded, active, generators, globals, types, convs, saved>>

ApplyConv(t) ==
  LET c == Item1(t).name IN
  /\ In(t, "apply") /\ rest[t] # <<>> /\ Item1(t).kind = "conv"
  /\ \/ /\ c \in convs
        /\ EndCall(t, TRUE) /\ Unlock(t)
        /\ UNCHANGED convs
     \/ /\ c \notin convs
        /\ convs' = convs \cup {c}
        /\ Next1(t)
        /\ UNCHANGED useOwner
  /\ UNCHANGED <<loaded, active, generators, globals, funs, types, saved>>

(* Mutant of ApplyGlobal: the error leaves m_use_mutex locked.             *)
ApplyGlobalKeepsLock(t) ==
  LET n == Item1(t).name IN
  /\ In(t, "apply") /\ rest[t] # <<>> /\ Item1(t).kind = "global"
  /\ \/ /\ Bound(n)
        /\ EndCall(t, TRUE)
        /\ UNCHANGED globals
     \/ /\ ~Bound(n)
        /\ globals' = [globals EXCEPT ![n] = "module"]
        /\ Next1(t)
  /\ UNCHANGED <<useOwner, loaded, active, generators, funs, types, convs, saved>>

ApplyGlobal(t) ==
  LET n == Item1(t).name IN
  /\ In(t, "apply") /\ rest[t] # <<>> /\ Item1(t).kind = "global"
  /\ \/ /\ Bound(n)
        /\ EndCall(t, TRUE) /\ Unlock(t)
        /\ UNCHANGED globals
     \/ /\ ~Bound(n)
        /\ globals' = [globals EXCEPT ![n] = "module"]
        /\ Next1(t)
        /\ UNCHANGED useOwner
  /\ UNCHANGED <<loaded, active, generators, funs, types, convs, saved>>

ApplyEnd(t) ==
  /\ In(t, "apply") /\ rest[t] = <<>>
  /\ EndCall(t, FALSE) /\ Unlock(t)
  /\ UNCHANGED <<loaded, active, generators, tables, saved>>
-----------------------------------------------------------------------------
AddGlobal(t) ==
  LET n == Arg(t) IN
  /\ At(t, "add_global")
  /\ EndCall(t, Bound(n))
  /\ globals' = IF Bound(n) THEN globals ELSE [globals EXCEPT ![n] = t]
  /\ UNCHANGED <<useOwner, loaded, active, generators, funs, types, convs, saved>>

SetGlobal(t) ==
  /\ At(t, "set_global")
  /\ EndCall(t, FALSE)
  /\ globals' = [globals EXCEPT ![Arg(t)] = t]
  /\ UNCHANGED <<useOwner, loaded, active, generators, funs, types, convs, saved>>

(* register_namespace; namespace(name) of a script goes on with import.    *)
RegisterNamespace(t) ==
  /\ At(t, "register_namespace") \/ At(t, "namespace")
  /\ useOwner = Nobody
  /\ IF Arg(t) \in generators THEN EndCall(t, TRUE)
     ELSE IF Head(todo[t]).op = "namespace" THEN Goto(t, "import") ELSE EndCall(t, FALSE)
  /\ generators' = generators \cup {Arg(t)}
  /\ UNCHANGED <<useOwner, loaded, active, tables, saved>>

(* import: the test of get_scripting_objects, then add_global.  The test    *)
(* finds the calling thread's locals too: one of them may have any name, so *)
(* that import may throw whatever the globals are.                         *)
Import(t) ==
  LET n == Arg(t) IN
  /\ At(t, "import") \/ In(t, "import")
  /\ \/ /\ useOwner = Nobody
        /\ EndCall(t, TRUE)
        /\ UNCHANGED useOwner
     \/ /\ ~Bound(n) /\ n \in generators
        /\ Lock(t)
        /\ Goto(t, "bind")
  /\ UNCHANGED <<loaded, active, generators, tables, saved>>

(* Mutant of ImportBind: the name is bound with set_global.                *)
ImportBindOverwrites(t) ==
  /\ In(t, "bind")
  /\ EndCall(t, FALSE) /\ Unlock(t)
  /\ globals' = [globals EXCEPT ![Arg(t)] = "namespace"]
  /\ UNCHANGED <<loaded, active, generators, funs, types, convs, saved>>

ImportBind(t) ==
  LET n == Arg(t) IN
  /\ In(t, "bind")
  /\ EndCall(t, Bound(n)) /\ Unlock(t)
  /\ globals' = IF Bound(n) THEN globals ELSE [globals EXCEPT ![n] = "namespace"]
  /\ UNCHANGED <<loaded, active, generators, funs, types, convs, saved>>

GetState(t) ==
  /\ At(t, "get_state")
  /\ useOwner = Nobody
  /\ saved' = StateNow
  /\ EndCall(t, FALSE)
  /\ UNCHANGED <<useOwner, loaded, active, generators, tables>>

(* Mutant of SetState: the active modules are not put back.                *)
SetStateKeepsActive(t) ==
  /\ At(t, "set_state")
  /\ useOwner = Nobody
  /\ globals' = saved.globals
  /\ funs' = saved.funs
  /\ types' = saved.types
  /\ EndCall(t, FALSE)
  /\ UNCHANGED <<useOwner, loaded, active, generators, convs, saved>>

SetState(t) ==
  /\ At(t, "set_state")
  /\ useOwner = Nobody
  /\ active' = saved.active
  /\ globals' = saved.globals
  /\ funs' = saved.funs
  /\ types' = saved.types
  /\ EndCall(t, FALSE)
  /\ UNCHANGED <<useOwner, loaded, generators, convs, saved>>

Step(t) ==
  \/ LoadModule(t) \/ AddModule(t)
  \/ ApplyType(t) \/ ApplyTypeName(t) \/ ApplyFun(t) \/ ApplyConv(t) \/ ApplyGlobal(t) \/ ApplyEnd(t)
  \/ AddGlobal(t) \/ SetGlobal(t)
  \/ RegisterNamespace(t) \/ Import(t) \/ ImportBind(t)
  \/ GetState(t) \/ SetState(t)

TablesNext == \E t \in Threads : Step(t)

TablesSpec == TablesInit /\ [][TablesNext]_tableVars
FairSpec == TablesSpec /\ \A t \in Threads : WF_tableVars(Step(t))
-----------------------------------------------------------------------------
Provided(it) ==
  CASE it.kind = "type"   -> Bound(TypeGlobal(it.name)) /\ it.name \in types
    [] it.kind = "fun"    -> it.name \in funs
    [] it.kind = "conv"   -> it.name \in convs
    [] it.kind = "global" -> Bound(it.name)
Loading(mod) == \E t \in Threads : useOwner = t /\ In(t, "apply") /\ Arg(t) = mod

(* Whoever finds a module loaded finds all of it: "Adds all elements of a  *)
(* module to ChaiScript runtime" (chaiscript_engine.hpp:519).  The module  *)
(* is marked before its elements are added, so this takes the mutex for    *)
(* racing threads and set_state to restore both together.                  *)
ActiveIsComplete ==
  \A mod \in active : ~Loading(mod) => \A i \in 1..Len(Items[mod]) : Provided(Items[mod][i])

(* What that asks of the calls: no name or conversion of a module that is  *)
(* loaded comes from elsewhere, so that no load fails half way; and no     *)
(* state is restored, or the module has no conversions, which stay.        *)
MadeIn(p) == UNION { Range(p[t]) : t \in Threads }
LoadedIn(p) == { mod \in Modules : \E c \in MadeIn(p) : c.op = "load_module" /\ c.arg = mod }
AddedIn(p) == { mod \in Modules : \E c \in MadeIn(p) : c.op = "add_module" /\ c.arg = mod }
GlobalOf(it) == IF it.kind = "type" THEN TypeGlobal(it.name) ELSE it.name
Conflict(a, b) ==
  \/ a.kind \in {"type", "global"} /\ b.kind \in {"type", "global"} /\ GlobalOf(a) = GlobalOf(b)
  \/ a.kind = "conv" /\ b.kind = "conv" /\ a.name = b.name
ModulesApart(p) ==
  \A mod \in LoadedIn(p) :
    /\ mod \notin AddedIn(p)
    /\ \A i, j \in 1..Len(Items[mod]) : i # j => ~Conflict(Items[mod][i], Items[mod][j])
    /\ \A other \in (LoadedIn(p) \cup AddedIn(p)) \ {mod} :
         \A it \in Range(Items[mod]), new \in Range(Items[other]) : ~Conflict(it, new)
    /\ \A c \in MadeIn(p) : \A it \in Range(Items[mod]) :
         /\ c.op \in {"add_global", "set_global", "import", "namespace"} =>
              ~(it.kind \in {"type", "global"} /\ GlobalOf(it) = c.arg)
         /\ c.op = "set_state" => it.kind # "conv"

(* A global is replaced only by set_global and set_state.  import tests    *)
(* for the name first and binds it later, and add_global does not wait for *)
(* it.                                                                     *)
GlobalsKept ==
  [][\A n \in GlobalNames : Bound(n) /\ globals'[n] # globals[n] =>
       \E t \in Threads : SetGlobal(t) \/ SetState(t)]_tableVars

(* Every call returns.                                                     *)
CallsReturn == <>[](\A t \in Threads : todo[t] = <<>>)
===============================================================================
