------------------------------ MODULE Conversions ------------------------------
(***************************************************************************)
(* Type_Conversions (type_conversions.hpp): the table of conversions under *)
(* its shared mutex, the set of convertible types that each thread caches  *)
(* and refreshes when its size is not the atomic count, and the users of   *)
(* the table: dispatch's test, Param_Types::convert and boxed_cast.  The   *)
(* saved temporaries are in CallLifetime; the conversions themselves are   *)
(* external, but for whether they may fail.                                *)
(***************************************************************************)
EXTENDS Integers, FiniteSets

CONSTANTS
  Threads,
  Types,
  Addable,    (* the conversions the host may add                           *)
  Asked,      (* the questions it and the interpreter may ask               *)
  Nobody

(* A Type_Conversion_Base: base_class of polymorphic or of other classes,  *)
(* or type_conversion with a function.                                     *)
Conversion == [to : Types, from : Types, kind : {"dynamic", "static", "function"}]

(* converts of dispatch, Param_Types::convert, which asks it of types that *)
(* differ, and boxed_cast.                                                 *)
Asks == [name : {"converts", "convert", "boxed_cast"}, to : Types, from : Types]

ASSUME ConversionsAssumption ==
  /\ Nobody \notin Threads
  /\ IsFiniteSet(Types)
  /\ Addable \subseteq { c \in Conversion : c.to # c.from }
  /\ Asked \subseteq { a \in Asks : a.name # "boxed_cast" => a.to # a.from }

VARIABLES
  conversions,   (* m_conversions                                           *)
  convertable,   (* m_convertableTypes                                      *)
  num,           (* m_num_types, read without the mutex                     *)
  writer,        (* owner of m_mutex in add_conversion                      *)
  cache,         (* m_thread_cache                                          *)
  pc,            (* where the thread is in its call                         *)
  call,          (* what it is calling, with which conversion or types      *)
  result,        (* how its last call ended                                 *)
  known          (* whether the types of the thread's last question had a   *)
                 (* conversion when it asked                                *)

table == <<conversions, convertable, num, writer>>
vars == <<conversions, convertable, num, writer, cache, pc, call, result, known>>

Adds == [name : {"add_conversion"}, conversion : Addable]
NoCall == [name |-> "none"]
Results == {"none", "added", "refused", "yes", "no", "unchanged", "value",
            "converted", "failed", "missing", "misreported", "bad_cast"}
-----------------------------------------------------------------------------
(* find_bidir and find, each under a lock of its own.                      *)
Serves(c, to, from) ==
  \/ c.to = to /\ c.from = from
  \/ c.kind = "dynamic" /\ c.from = to /\ c.to = from

HasConversion(cs, to, from) == \E c \in cs : Serves(c, to, from)
GetConversion(to, from) == { c \in conversions : c.to = to /\ c.from = from }

TypesOf(cs) == UNION { {c.to, c.from} : c \in cs }

(* The conversions whose add_conversion has returned.                      *)
Settled == IF writer = Nobody THEN conversions ELSE conversions \ {call[writer].conversion}

(* What convert and convert_down may do: a function may throw, a down cast *)
(* succeeds only between polymorphic classes, if the object is a Derived.  *)
ConvertOutcomes(c) == IF c.kind = "function" THEN {TRUE, FALSE} ELSE {TRUE}
ConvertDownOutcomes(c) == IF c.kind = "dynamic" THEN {TRUE, FALSE} ELSE {FALSE}

Init ==
  /\ conversions = {} /\ convertable = {} /\ num = 0 /\ writer = Nobody
  /\ cache = [t \in Threads |-> {}]
  /\ pc = [t \in Threads |-> "idle"]
  /\ call = [t \in Threads |-> NoCall]
  /\ result = [t \in Threads |-> "none"]
  /\ known = [t \in Threads |-> FALSE]
-----------------------------------------------------------------------------
In(t, p) == pc[t] = p
Go(t, p) == pc' = [pc EXCEPT ![t] = p] /\ UNCHANGED <<call, result>>
Return(t, r) ==
  /\ pc' = [pc EXCEPT ![t] = "idle"]
  /\ call' = [call EXCEPT ![t] = NoCall]
  /\ result' = [result EXCEPT ![t] = r]
Call(t, c, p) ==
  /\ call' = [call EXCEPT ![t] = c]
  /\ result' = [result EXCEPT ![t] = "none"]
  /\ pc' = [pc EXCEPT ![t] = p]

(* A thread calls into the table.                                          *)
BeginAdd(t) ==
  /\ In(t, "idle")
  /\ \E c \in Addable : Call(t, [name |-> "add_conversion", conversion |-> c], "add")
  /\ known' = [known EXCEPT ![t] = FALSE]
  /\ UNCHANGED <<table, cache>>

(* boxed_cast asks the cache first unless the value has the type already.  *)
BeginAsk(t) ==
  /\ In(t, "idle")
  /\ \E a \in Asked :
       /\ Call(t, a, IF a.name # "boxed_cast" THEN "load"
                     ELSE IF a.to = a.from THEN "helper" ELSE "load_first")
       /\ known' = [known EXCEPT ![t] = HasConversion(Settled, a.to, a.from)]
  /\ UNCHANGED <<table, cache>>

(* add_conversion under the unique lock: a conversion that exists is       *)
(* refused, else the table and the set of types grow;                      *)
AddConversion(t) ==
  /\ In(t, "add") /\ writer = Nobody
  /\ LET c == call[t].conversion
     IN IF HasConversion(conversions, c.to, c.from)
        THEN Return(t, "refused") /\ UNCHANGED table
        ELSE /\ conversions' = conversions \cup {c}
             /\ convertable' = convertable \cup {c.to, c.from}
             /\ writer' = t
             /\ Go(t, "count")
             /\ UNCHANGED num
  /\ UNCHANGED <<cache, known>>

(* Mutant of AddCount: the count is forgotten.                             *)
AddUncounted(t) ==
  /\ In(t, "count")
  /\ Go(t, "unlock")
  /\ UNCHANGED <<table, cache, known>>

(* the count is stored, which other threads see at once;                   *)
AddCount(t) ==
  /\ In(t, "count")
  /\ num' = Cardinality(convertable)
  /\ Go(t, "unlock")
  /\ UNCHANGED <<conversions, convertable, writer, cache, known>>

AddUnlock(t) ==
  /\ In(t, "unlock")
  /\ writer' = Nobody
  /\ Return(t, "added")
  /\ UNCHANGED <<conversions, convertable, num, cache, known>>
-----------------------------------------------------------------------------
(* thread_cache: compare the size, and copy the set under a shared lock if *)
(* it differs.  A call reads the cache up to twice: "load_first" is        *)
(* boxed_cast's condition, "load" the test that decides.                   *)
Loads == {"load_first", "load"}
After(p) == CASE p = "load_first" -> "test_first" [] p = "load" -> "test"
                [] p = "copy_first" -> "test_first" [] p = "copy" -> "test"

Load(t) ==
  /\ pc[t] \in Loads
  /\ Go(t, IF Cardinality(cache[t]) = num THEN After(pc[t])
           ELSE IF pc[t] = "load_first" THEN "copy_first" ELSE "copy")
  /\ UNCHANGED <<table, cache, known>>

Refresh(t) ==
  /\ pc[t] \in {"copy_first", "copy"} /\ writer = Nobody
  /\ cache' = [cache EXCEPT ![t] = convertable]
  /\ Go(t, After(pc[t]))
  /\ UNCHANGED <<table, known>>

(* boxed_cast, first condition: a type that takes part in conversions is   *)
(* left to them, of any other the value itself is tried.                   *)
TestFirst(t) ==
  /\ In(t, "test_first")
  /\ Go(t, IF call[t].to \in cache[t] THEN "load" ELSE "helper")
  /\ UNCHANGED <<table, cache, known>>

(* Cast_Helper of the value itself: it may be const, or another type.      *)
Helper(t) ==
  /\ In(t, "helper")
  /\ \/ call[t].to = call[t].from /\ Return(t, "value")
     \/ Go(t, "load")
  /\ UNCHANGED <<table, cache, known>>

(* boxed_cast, second condition: if the type takes part in no conversion,  *)
(* the cast fails.  converts: both types must.                             *)
Test(t) ==
  /\ In(t, "test")
  /\ IF call[t].name = "boxed_cast"
     THEN IF call[t].to \in cache[t] THEN Go(t, "up")
                                     ELSE Return(t, "bad_cast")
     ELSE IF {call[t].to, call[t].from} \subseteq cache[t]
          THEN Go(t, "has")
          ELSE Return(t, IF call[t].name = "converts" THEN "no" ELSE "unchanged")
  /\ UNCHANGED <<table, cache, known>>

(* has_conversion, and what its callers do with the answer.                *)
Has(t) ==
  /\ In(t, "has") /\ writer = Nobody
  /\ IF HasConversion(conversions, call[t].to, call[t].from)
     THEN IF call[t].name = "converts" THEN Return(t, "yes")
                                       ELSE Go(t, "up")
     ELSE Return(t, IF call[t].name = "converts" THEN "no" ELSE "unchanged")
  /\ UNCHANGED <<table, cache, known>>

(* boxed_type_conversion; whatever it throws, be it that the conversion    *)
(* failed or that there is none, the other way is tried.                   *)
ConvertUp(t) ==
  /\ In(t, "up") /\ writer = Nobody
  /\ \/ \E c \in GetConversion(call[t].to, call[t].from) :
          \E ok \in ConvertOutcomes(c) :
            IF ok THEN Return(t, "converted") ELSE Go(t, "down_failed")
     \/ /\ GetConversion(call[t].to, call[t].from) = {}
        /\ Go(t, "down")
  /\ UNCHANGED <<table, cache, known>>

(* boxed_type_down_conversion; its error is the user's, who reads that no  *)
(* conversion is known in both cases ("misreported").                      *)
ConvertDown(t) ==
  /\ pc[t] \in {"down", "down_failed"} /\ writer = Nobody
  /\ \/ \E c \in GetConversion(call[t].from, call[t].to) :
          \E ok \in ConvertDownOutcomes(c) : Return(t, IF ok THEN "converted" ELSE "failed")
     \/ /\ GetConversion(call[t].from, call[t].to) = {}
        /\ Return(t, IF In(t, "down") THEN "missing" ELSE "misreported")
  /\ UNCHANGED <<table, cache, known>>

(* The engine ends and another is built at its address.  ~Thread_Storage   *)
(* erases the entry of the thread that runs it and no other, so the host   *)
(* may do this only if no other thread has one.                            *)
Rebuild(t) ==
  /\ \A u \in Threads : In(u, "idle") /\ (u # t => cache[u] = {})
  /\ conversions' = {} /\ convertable' = {} /\ num' = 0
  /\ cache' = [cache EXCEPT ![t] = {}]
  /\ call' = [u \in Threads |-> NoCall]
  /\ result' = [u \in Threads |-> "none"]
  /\ known' = [u \in Threads |-> FALSE]
  /\ UNCHANGED <<writer, pc>>

Step(t) ==
  \/ BeginAdd(t) \/ AddConversion(t) \/ AddCount(t) \/ AddUnlock(t)
  \/ BeginAsk(t) \/ Load(t) \/ Refresh(t) \/ TestFirst(t) \/ Helper(t)
  \/ Test(t) \/ Has(t) \/ ConvertUp(t) \/ ConvertDown(t) \/ Rebuild(t)

Next == \E t \in Threads : Step(t)
Spec == Init /\ [][Next]_vars
-----------------------------------------------------------------------------
Points == {"idle", "add", "count", "unlock", "helper", "load_first", "copy_first",
           "test_first", "load", "copy", "test", "has", "up", "down", "down_failed"}

TypeOK ==
  /\ conversions \subseteq Addable
  /\ convertable \subseteq Types
  /\ num \in Nat
  /\ writer \in Threads \cup {Nobody}
  /\ \A t \in Threads : writer = t <=> pc[t] \in {"count", "unlock"}
  /\ cache \in [Threads -> SUBSET Types]
  /\ pc \in [Threads -> Points]
  /\ call \in [Threads -> Adds \cup Asked \cup {NoCall}]
  /\ result \in [Threads -> Results]
  /\ known \in [Threads -> BOOLEAN]

(* A call does not miss a conversion that was added before it began:       *)
(* comparing sizes, without the lock, is enough to keep the thread's set   *)
(* of types fresh for it (type_conversions.hpp:280).                       *)
KnownIsFound ==
  \A t \in Threads :
    In(t, "idle") /\ known[t] => result[t] \notin {"no", "unchanged", "bad_cast", "missing"}

(* What was added stays: no step of a thread takes a conversion away, and  *)
(* a cached set is only ever replaced by a larger one, but when the engine *)
(* is replaced.                                                            *)
CacheGrows ==
  [][ \/ \E t \in Threads : Rebuild(t)
      \/ \A t \in Threads : cache[t] \subseteq cache'[t] ]_vars
===============================================================================
