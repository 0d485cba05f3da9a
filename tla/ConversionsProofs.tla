-------------------------- MODULE ConversionsProofs --------------------------
(***************************************************************************)
(* Proofs about Conversions, for any threads, types and conversions.  The  *)
(* argument: the types of the conversions that are counted only grow, every*)
(* cache is a subset of them and num is their number; so a cache of that   *)
(* size is all of them, and it holds the types of every conversion that    *)
(* was added before the thread compared the sizes.                         *)
(***************************************************************************)
EXTENDS Conversions, FiniteSetTheorems, TLAPS

(* The conversions whose types are in num: all, but the one being added.   *)
Counted == IF writer # Nobody /\ pc[writer] = "count"
           THEN conversions \ {call[writer].conversion} ELSE conversions

Adding == {"add", "count", "unlock"}

Calls ==
  \A t \in Threads :
    /\ pc[t] \in Adding => call[t] \in Adds /\ ~known[t]
    /\ pc[t] \in Points \ (Adding \cup {"idle"}) => call[t] \in Asked
    /\ writer = t => call[t].conversion \in conversions

Table ==
  /\ convertable = TypesOf(conversions)
  /\ num = Cardinality(TypesOf(Counted))
  /\ \A t \in Threads : cache[t] \subseteq TypesOf(Counted)

KnownAt(t) ==
  LET to == call[t].to
      from == call[t].from
  IN /\ ~In(t, "idle") => HasConversion(Settled, to, from)
     /\ pc[t] \in {"test_first", "test"} => {to, from} \subseteq cache[t]
     /\ In(t, "down") => \E c \in conversions : c.to = from /\ c.from = to
     /\ In(t, "idle") => result[t] \notin {"no", "unchanged", "bad_cast", "missing"}

Knows == \A t \in Threads : known[t] => KnownAt(t)

IInv == TypeOK /\ Calls /\ Table /\ Knows
-----------------------------------------------------------------------------
LEMMA TypesFacts ==
  ASSUME NEW S, S \subseteq Addable
  PROVE  TypesOf(S) \subseteq Types /\ IsFiniteSet(TypesOf(S)) /\ Cardinality(TypesOf(S)) \in Nat
<1>1. \A c \in S : c.to \in Types /\ c.from \in Types
  BY ConversionsAssumption DEF Conversion
<1>2. TypesOf(S) \subseteq Types
  BY <1>1 DEF TypesOf
<1>3. QED
  BY <1>2, ConversionsAssumption, FS_Subset, FS_CardinalityType

LEMMA TypesGrow ==
  ASSUME NEW S, NEW T, S \subseteq T
  PROVE  TypesOf(S) \subseteq TypesOf(T)
BY DEF TypesOf

LEMMA TypesAdd ==
  ASSUME NEW S, NEW c
  PROVE  TypesOf(S \cup {c}) = TypesOf(S) \cup {c.to, c.from}
BY DEF TypesOf

(* What the table has cannot be lost by adding to it.                      *)
LEMMA HasGrows ==
  ASSUME NEW S, NEW T, S \subseteq T, NEW to, NEW from, HasConversion(S, to, from)
  PROVE  HasConversion(T, to, from) /\ {to, from} \subseteq TypesOf(S)
<1>1. HasConversion(T, to, from)
  BY DEF HasConversion
<1>2. PICK c \in S : Serves(c, to, from)
  BY DEF HasConversion
<1>3. {to, from} = {c.to, c.from}
  BY <1>2 DEF Serves
<1>4. QED
  BY <1>1, <1>3 DEF TypesOf

(* A cache of the right size is complete.                                  *)
LEMMA SizeDecides ==
  ASSUME IInv, NEW t \in Threads, Cardinality(cache[t]) = num
  PROVE  cache[t] = TypesOf(Counted)
<1>1. Counted \subseteq Addable
  BY DEF IInv, TypeOK, Counted
<1>2. QED
  BY <1>1, TypesFacts, FS_Subset DEF IInv, Table

LEMMA SettledCounted == TypeOK => Settled \subseteq Counted /\ Counted \subseteq conversions
BY DEF Settled, Counted, TypeOK
-----------------------------------------------------------------------------
LEMMA InitInv == Init => IInv
<1> SUFFICES ASSUME Init PROVE IInv
  OBVIOUS
<1>1. TypeOK /\ Calls /\ Knows
  BY ConversionsAssumption DEF Init, TypeOK, Points, Results, Calls, Adding, Knows
<1>2. Counted = {}
  BY DEF Init, Counted
<1>3. TypesOf({}) = {}
  BY DEF TypesOf
<1>4. Table
  BY <1>2, <1>3, FS_EmptySet DEF Init, Table
<1>5. QED
  BY <1>1, <1>4 DEF IInv

(* What the calls of a thread change, for the thread alone.                *)
LEMMA TypeStep == IInv /\ [Next]_vars => TypeOK'
<1> SUFFICES ASSUME TypeOK, Calls, [Next]_vars PROVE TypeOK'
  BY DEF IInv
<1> USE ConversionsAssumption DEF TypeOK, Points, Results, In
<1>1. ASSUME NEW t \in Threads, BeginAdd(t) PROVE TypeOK'
  BY <1>1 DEF BeginAdd, Call, Adds, table
<1>2. ASSUME NEW t \in Threads, BeginAsk(t) PROVE TypeOK'
  <2>1. PICK a \in Asked : Call(t, a, IF a.name # "boxed_cast" THEN "load"
                     ELSE IF a.to = a.from THEN "helper" ELSE "load_first")
    BY <1>2 DEF BeginAsk
  <2>2. HasConversion(Settled, a.to, a.from) \in BOOLEAN /\ known' \in [Threads -> BOOLEAN]
    BY <1>2 DEF BeginAsk, HasConversion
  <2>3. QED
    BY <1>2, <2>1, <2>2 DEF BeginAsk, Call, table
<1>3. ASSUME NEW t \in Threads, AddConversion(t), call[t] \in Adds PROVE TypeOK'
  <2>1. call[t].conversion \in Addable
    BY <1>3 DEF Adds
  <2>2. call[t].conversion.to \in Types /\ call[t].conversion.from \in Types
    BY <2>1 DEF Conversion
  <2>3. QED
    BY <1>3, <2>1, <2>2 DEF AddConversion, Return, Go, table
<1>4. ASSUME NEW t \in Threads, AddCount(t) PROVE TypeOK'
  <2>1. Cardinality(convertable) \in Nat
    BY FS_Subset, FS_CardinalityType
  <2>2. QED
    BY <1>4, <2>1 DEF AddCount, Go
<1>5. ASSUME NEW t \in Threads, AddUnlock(t) PROVE TypeOK'
  BY <1>5 DEF AddUnlock, Return
<1>6. ASSUME NEW t \in Threads, Load(t) PROVE TypeOK'
  BY <1>6 DEF Load, Go, After, Loads, table
<1>7. ASSUME NEW t \in Threads, Refresh(t) PROVE TypeOK'
  BY <1>7 DEF Refresh, Go, After, table
<1>8. ASSUME NEW t \in Threads, TestFirst(t) \/ Helper(t) \/ Test(t) PROVE TypeOK'
  BY <1>8 DEF TestFirst, Helper, Test, Go, Return, table
<1>9. ASSUME NEW t \in Threads, Has(t) \/ ConvertUp(t) \/ ConvertDown(t) PROVE TypeOK'
  BY <1>9 DEF Has, ConvertUp, ConvertDown, Go, Return, table
<1>10. ASSUME NEW t \in Threads, Rebuild(t) PROVE TypeOK'
  BY <1>10 DEF Rebuild
<1>11. CASE UNCHANGED vars
  BY <1>11 DEF vars, table
<1>12. ASSUME NEW t \in Threads, AddConversion(t) PROVE call[t] \in Adds
  BY <1>12 DEF AddConversion, Calls, Adding
<1>13. QED
  BY <1>1, <1>2, <1>3, <1>4, <1>5, <1>6, <1>7, <1>8, <1>9, <1>10, <1>11, <1>12 DEF Next, Step

(* Only Rebuild takes anything away, and a step of a thread leaves the     *)
(* others' calls alone.                                                    *)
Others(t) ==
  \A u \in Threads \ {t} : /\ pc'[u] = pc[u] /\ call'[u] = call[u] /\ result'[u] = result[u]
                           /\ known'[u] = known[u] /\ cache'[u] = cache[u]

LEMMA StepFacts ==
  ASSUME IInv, NEW t \in Threads, Step(t), ~Rebuild(t)
  PROVE  /\ Others(t)
         /\ conversions \subseteq conversions' /\ Settled \subseteq Settled' /\ Counted \subseteq Counted'
<1> USE DEF IInv, TypeOK, In, Others, Settled, Counted
<1>1. CASE BeginAdd(t)
  BY <1>1 DEF BeginAdd, Call, table
<1>2. CASE BeginAsk(t)
  BY <1>2 DEF BeginAsk, Call, table
<1>3. CASE AddConversion(t)
  <2>1. /\ Others(t) /\ conversions \subseteq conversions'
    BY <1>3 DEF AddConversion, Go, Return, table
  <2>2. CASE UNCHANGED table
    BY <1>3, <2>2, ConversionsAssumption DEF AddConversion, Go, Return, table
  <2>3. CASE writer' = t
    <3>1. /\ ~HasConversion(conversions, call[t].conversion.to, call[t].conversion.from)
          /\ conversions' = conversions \cup {call[t].conversion} /\ call' = call
      BY <1>3, <2>3, ConversionsAssumption DEF AddConversion, Go, Return, table
    <3>2. call[t].conversion \notin conversions
      BY <3>1 DEF HasConversion, Serves
    <3>3. writer = Nobody
      BY <1>3 DEF AddConversion
    <3>4. QED
      BY <2>1, <2>3, <3>1, <3>2, <3>3
  <2>4. QED
    BY <1>3, <2>2, <2>3 DEF AddConversion, table
<1>4. CASE AddCount(t)
  BY <1>4 DEF AddCount, Go
<1>5. CASE AddUnlock(t)
  BY <1>5, ConversionsAssumption DEF AddUnlock, Return
<1>6. CASE Load(t) \/ Refresh(t)
  BY <1>6 DEF Load, Refresh, Go, table, Loads, After
<1>7. CASE TestFirst(t) \/ Helper(t) \/ Test(t)
  BY <1>7 DEF TestFirst, Helper, Test, Go, Return, table
<1>8. CASE Has(t) \/ ConvertUp(t) \/ ConvertDown(t)
  BY <1>8 DEF Has, ConvertUp, ConvertDown, Go, Return, table
<1>9. QED
  BY <1>1, <1>2, <1>3, <1>4, <1>5, <1>6, <1>7, <1>8 DEF Step

LEMMA CallsStep == IInv /\ [Next]_vars => Calls'
<1> SUFFICES ASSUME IInv, [Next]_vars PROVE Calls'
  OBVIOUS
<1> USE DEF Calls, Adding
<1>1. ASSUME NEW t \in Threads, Step(t), ~Rebuild(t) PROVE Calls'
  <2>1. ASSUME NEW u \in Threads \ {t}
        PROVE  /\ pc'[u] \in Adding => call'[u] \in Adds /\ ~known'[u]
               /\ pc'[u] \in Points \ (Adding \cup {"idle"}) => call'[u] \in Asked
               /\ writer' = u => call'[u].conversion \in conversions'
    <3>1. Others(t) /\ conversions \subseteq conversions'
      BY <1>1, StepFacts
    <3>2. writer' \in {writer, t, Nobody}
      BY <1>1 DEF Step, BeginAdd, BeginAsk, AddConversion, AddCount, AddUnlock, Load, Refresh, TestFirst,
                  Helper, Test, Has, ConvertUp, ConvertDown, table
    <3>3. QED
      BY <3>1, <3>2, ConversionsAssumption DEF Others, IInv
  <2>2. /\ pc'[t] \in Adding => call'[t] \in Adds /\ ~known'[t]
        /\ pc'[t] \in Points \ (Adding \cup {"idle"}) => call'[t] \in Asked
        /\ writer' = t => call'[t].conversion \in conversions'
    <3> USE DEF IInv, TypeOK, In, Points
    <3>1. CASE BeginAdd(t)
      BY <3>1 DEF BeginAdd, Call, Adds, table
    <3>2. CASE BeginAsk(t)
      BY <3>2 DEF BeginAsk, Call, table
    <3>3. CASE AddConversion(t)
      BY <3>3, ConversionsAssumption DEF AddConversion, Go, Return, table
    <3>4. CASE AddCount(t) \/ AddUnlock(t)
      BY <3>4, ConversionsAssumption DEF AddCount, AddUnlock, Go, Return
    <3>5. CASE Load(t) \/ Refresh(t)
      BY <3>5 DEF Load, Refresh, Go, table, Loads, After
    <3>6. CASE TestFirst(t) \/ Helper(t) \/ Test(t)
      BY <3>6 DEF TestFirst, Helper, Test, Go, Return, table
    <3>7. CASE Has(t) \/ ConvertUp(t) \/ ConvertDown(t)
      BY <3>7 DEF Has, ConvertUp, ConvertDown, Go, Return, table
    <3>8. QED
      BY <1>1, <3>1, <3>2, <3>3, <3>4, <3>5, <3>6, <3>7 DEF Step
  <2>3. QED
    BY <2>1, <2>2
<1>2. ASSUME NEW t \in Threads, Rebuild(t) PROVE Calls'
  BY <1>2, ConversionsAssumption DEF Rebuild, IInv, TypeOK, In
<1>3. CASE UNCHANGED vars
  BY <1>3 DEF vars, table, IInv
<1>4. QED
  BY <1>1, <1>2, <1>3 DEF Next, Step

LEMMA TableStep == IInv /\ [Next]_vars => Table'
<1> SUFFICES ASSUME IInv, [Next]_vars PROVE Table'
  OBVIOUS
<1>1. ASSUME NEW t \in Threads, Step(t), ~Rebuild(t) PROVE Table'
  <2>1. Counted \subseteq Counted'
    BY <1>1, StepFacts
  <2>2. TypesOf(Counted) \subseteq TypesOf(Counted')
    BY <2>1, TypesGrow
  <2> USE DEF IInv, TypeOK, Table
  <2>3. CASE AddConversion(t) /\ writer' # writer
    <3> DEFINE c == call[t].conversion
    <3>1. /\ ~HasConversion(conversions, c.to, c.from) /\ call' = call /\ cache' = cache
          /\ conversions' = conversions \cup {c} /\ convertable' = convertable \cup {c.to, c.from}
          /\ num' = num /\ writer' = t /\ writer = Nobody
      BY <2>3, ConversionsAssumption DEF AddConversion, Go, Return, table
    <3>2. Counted' = conversions /\ Counted = conversions
      <4>1. c \notin conversions /\ pc'[t] = "count"
        BY <2>3, <3>1 DEF AddConversion, Go, HasConversion, Serves
      <4>2. QED
        BY <3>1, <4>1, ConversionsAssumption DEF Counted
    <3>3. convertable' = TypesOf(conversions')
      BY <3>1, TypesAdd
    <3>4. QED
      BY <3>1, <3>2, <3>3
  <2>4. CASE AddCount(t)
    <3>1. writer = t /\ call[t].conversion \in conversions
      BY <2>4 DEF AddCount, In, Calls
    <3>2. Counted' = conversions
      BY <2>4, <3>1 DEF AddCount, Go, In, Counted
    <3>3. QED
      BY <2>2, <2>4, <3>2 DEF AddCount, Go
  <2>5. CASE Refresh(t)
    <3>1. Counted = conversions /\ Counted' = conversions
      BY <2>5 DEF Refresh, Counted, table
    <3>2. QED
      BY <2>5, <3>1 DEF Refresh, table
  <2>6. CASE ~Refresh(t) /\ ~AddCount(t) /\ ~(AddConversion(t) /\ writer' # writer)
    <3>1. cache' = cache /\ num' = num /\ conversions' = conversions /\ convertable' = convertable
      BY <1>1, <2>6, ConversionsAssumption
         DEF Step, BeginAdd, BeginAsk, AddConversion, AddUnlock, Load, TestFirst, Helper, Test, Has,
             ConvertUp, ConvertDown, table, Go, Return
    <3>2. Counted' = Counted
      <4>1. CASE AddUnlock(t)
        BY <4>1, ConversionsAssumption DEF AddUnlock, In, Counted
      <4>2. CASE ~AddUnlock(t)
        <5>1. writer' = writer
          BY <1>1, <2>6, <4>2, ConversionsAssumption
             DEF Step, BeginAdd, BeginAsk, AddConversion, Load, TestFirst, Helper, Test, Has,
                 ConvertUp, ConvertDown, table, Go, Return
        <5>2. pc[t] \notin {"count", "unlock"}
          BY <1>1, <2>6, <4>2
             DEF Step, BeginAdd, BeginAsk, AddConversion, Load, TestFirst, Helper, Test, Has,
                 ConvertUp, ConvertDown, In, Loads
        <5>3. writer # t /\ (writer # Nobody => pc'[writer] = pc[writer] /\ call'[writer] = call[writer])
          BY <1>1, <5>2, StepFacts DEF Others
        <5>4. QED
          BY <3>1, <5>1, <5>3 DEF Counted
      <4>3. QED
        BY <4>1, <4>2
    <3>3. QED
      BY <3>1, <3>2
  <2>7. QED
    BY <2>3, <2>4, <2>5, <2>6
<1>2. ASSUME NEW t \in Threads, Rebuild(t) PROVE Table'
  <2>1. Counted' = {} /\ TypesOf({}) = {}
    BY <1>2 DEF Rebuild, Counted, TypesOf
  <2>2. QED
    BY <1>2, <2>1, FS_EmptySet DEF Rebuild, IInv, TypeOK, Table
<1>3. CASE UNCHANGED vars
  BY <1>3 DEF vars, table, IInv, Table, Counted
<1>4. QED
  BY <1>1, <1>2, <1>3 DEF Next, Step

(* What a thread's question may rely on survives the others' steps.        *)
LEMMA KnownFrame ==
  ASSUME IInv, NEW t \in Threads, Step(t), ~Rebuild(t), NEW u \in Threads \ {t}, known'[u]
  PROVE  KnownAt(u)'
<1>1. /\ Others(t) /\ conversions \subseteq conversions' /\ Settled \subseteq Settled'
  BY StepFacts
<1>2. KnownAt(u)
  BY <1>1 DEF IInv, Knows, Others
<1>3. HasConversion(Settled, call[u].to, call[u].from)
      => HasConversion(Settled', call[u].to, call[u].from)
  BY <1>1, HasGrows
<1>4. QED
  BY <1>1, <1>2, <1>3 DEF KnownAt, Others, In

LEMMA KnownOwn ==
  ASSUME IInv, NEW t \in Threads, Step(t), ~Rebuild(t), known'[t]
  PROVE  KnownAt(t)'
<1> DEFINE to == call[t].to
           from == call[t].from
<1>1. /\ conversions \subseteq conversions' /\ Settled \subseteq Settled'
  BY StepFacts
<1> USE DEF IInv, TypeOK, In
<1>2. CASE BeginAdd(t)
  BY <1>2 DEF BeginAdd
<1>3. CASE BeginAsk(t)
  <2>1. PICK a \in Asked :
          /\ Call(t, a, IF a.name # "boxed_cast" THEN "load"
                         ELSE IF a.to = a.from THEN "helper" ELSE "load_first")
          /\ HasConversion(Settled, a.to, a.from)
    BY <1>3 DEF BeginAsk
  <2>2. HasConversion(Settled', a.to, a.from)
    BY <1>1, <2>1, HasGrows
  <2>3. QED
    BY <2>1, <2>2 DEF Call, KnownAt
<1>4. CASE AddConversion(t) \/ AddCount(t) \/ AddUnlock(t)
  BY <1>4 DEF AddConversion, AddCount, AddUnlock, Calls, Adding
<1>5. ASSUME Load(t) \/ Refresh(t) \/ TestFirst(t) \/ Helper(t) \/ Test(t)
             \/ Has(t) \/ ConvertUp(t) \/ ConvertDown(t)
      PROVE  KnownAt(t)'
  <2>1. known[t] /\ ~In(t, "idle") /\ UNCHANGED table
    BY <1>5 DEF Load, Refresh, TestFirst, Helper, Test, Has, ConvertUp, ConvertDown, Loads
  <2>2. HasConversion(Settled, to, from) /\ HasConversion(conversions, to, from)
        /\ {to, from} \subseteq TypesOf(Counted) /\ {to, from} \subseteq TypesOf(conversions)
    <3>1. HasConversion(Settled, to, from)
      BY <2>1 DEF Knows, KnownAt
    <3>2. HasConversion(Counted, to, from)
      BY <3>1, HasGrows, SettledCounted
    <3>3. HasConversion(conversions, to, from)
      BY <3>2, HasGrows, SettledCounted
    <3>4. QED
      BY <3>1, <3>2, <3>3, HasGrows
  <2>3. call'[t] = call[t] => HasConversion(Settled', call'[t].to, call'[t].from)
    BY <1>1, <2>2, HasGrows
  <2>4. CASE Load(t)
    <3>1. CASE Cardinality(cache[t]) = num
      <4>1. cache[t] = TypesOf(Counted)
        BY <3>1, SizeDecides
      <4>2. QED
        BY <2>2, <2>3, <2>4, <4>1 DEF Load, Loads, After, Go, KnownAt
    <3>2. QED
      BY <2>3, <2>4, <3>1 DEF Load, Loads, After, Go, KnownAt
  <2>5. CASE Refresh(t)
    BY <2>2, <2>3, <2>5 DEF Refresh, Go, KnownAt, Table, After
  <2>6. CASE TestFirst(t) \/ Helper(t)
    BY <2>1, <2>3, <2>6 DEF TestFirst, Helper, Go, Return, KnownAt
  <2>7. CASE Test(t)
    <3>1. {to, from} \subseteq cache[t]
      BY <2>1, <2>7 DEF Test, Knows, KnownAt
    <3>2. QED
      BY <2>3, <2>7, <3>1 DEF Test, Go, Return, KnownAt
  <2>8. CASE Has(t)
    BY <2>2, <2>3, <2>8 DEF Has, Go, Return, KnownAt
  <2>9. CASE ConvertUp(t)
    <3>1. GetConversion(to, from) = {} => \E c \in conversions : c.to = from /\ c.from = to
      BY <2>2 DEF GetConversion, HasConversion, Serves
    <3>2. QED
      BY <2>1, <2>3, <2>9, <3>1 DEF ConvertUp, Go, Return, KnownAt, table
  <2>10. CASE ConvertDown(t)
    <3>1. In(t, "down") => GetConversion(from, to) # {}
      BY <2>1 DEF Knows, KnownAt, GetConversion
    <3>2. result'[t] \in {"converted", "failed", "misreported"} /\ pc'[t] = "idle"
      BY <2>10, <3>1 DEF ConvertDown, Return
    <3>3. QED
      BY <3>2 DEF KnownAt
  <2>11. QED
    BY <1>5, <2>4, <2>5, <2>6, <2>7, <2>8, <2>9, <2>10
<1>6. QED
  BY <1>2, <1>3, <1>4, <1>5 DEF Step

LEMMA KnowsStep == IInv /\ [Next]_vars => Knows'
<1> SUFFICES ASSUME IInv, [Next]_vars PROVE Knows'
  OBVIOUS
<1>1. ASSUME NEW t \in Threads, Step(t), ~Rebuild(t) PROVE Knows'
  BY <1>1, KnownFrame, KnownOwn DEF Knows
<1>2. ASSUME NEW t \in Threads, Rebuild(t) PROVE Knows'
  BY <1>2 DEF Rebuild, Knows
<1>3. CASE UNCHANGED vars
  BY <1>3 DEF vars, table, IInv, Knows, KnownAt, Settled, In
<1>4. QED
  BY <1>1, <1>2, <1>3 DEF Next, Step

LEMMA StepInv == IInv /\ [Next]_vars => IInv'
BY TypeStep, CallsStep, TableStep, KnowsStep DEF IInv

LEMMA Inductive == Spec => []IInv
BY InitInv, StepInv, PTL DEF Spec
-----------------------------------------------------------------------------
(* Every reachable state is well typed, and the writer holds the lock.     *)
THEOREM TypeCorrect == Spec => []TypeOK
<1>1. IInv => TypeOK
  BY DEF IInv
<1>2. QED
  BY <1>1, Inductive, PTL

(* For any number of threads and types, a question asked after a conversion*)
(* was added finds it, though the thread compared two sizes without a lock *)
(* (type_conversions.hpp:280).                                             *)
THEOREM KnownConversionIsFound == Spec => []KnownIsFound
<1>1. IInv => KnownIsFound
  BY DEF IInv, Knows, KnownAt, KnownIsFound
<1>2. QED
  BY <1>1, Inductive, PTL

(* A thread's cached set of types only grows while the engine lives.       *)
THEOREM CachesGrow == Spec => CacheGrows
<1>1. IInv /\ [Next]_vars => [ \/ \E t \in Threads : Rebuild(t)
                              \/ \A t \in Threads : cache[t] \subseteq cache'[t] ]_vars
  <2> SUFFICES ASSUME IInv, NEW t \in Threads, Step(t), ~Rebuild(t), NEW u \in Threads
               PROVE  cache[u] \subseteq cache'[u]
    BY DEF Next, Step
  <2>1. CASE u # t
    BY <2>1, StepFacts DEF Others
  <2>2. CASE Refresh(t)
    <3>1. TypesOf(Counted) \subseteq TypesOf(conversions)
      BY SettledCounted, TypesGrow DEF IInv
    <3>2. QED
      BY <2>1, <2>2, <3>1 DEF Refresh, IInv, TypeOK, Table
  <2>3. CASE ~Refresh(t)
    BY <2>3 DEF Step, BeginAdd, BeginAsk, AddConversion, AddCount, AddUnlock, Load, TestFirst, Helper,
                Test, Has, ConvertUp, ConvertDown
  <2>4. QED
    BY <2>1, <2>2, <2>3
<1>2. QED
  BY <1>1, Inductive, PTL DEF Spec, CacheGrows
=============================================================================
