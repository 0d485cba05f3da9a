---------------------------- MODULE UseFilesProofs ----------------------------
(***************************************************************************)
(* Proofs about UseFiles, for any threads, files, paths and programs: the  *)
(* mutexes are balanced, a file is evaluated once, and use implements      *)
(* OnceLoader.  The argument: on a thread's stack scripts and calls        *)
(* alternate, all calls but the innermost have loaded their file, and the  *)
(* ranks of the files fall from call to call; so no two levels load one    *)
(* file, and the mutex keeps the other threads away.                       *)
(***************************************************************************)
EXTENDS UseFiles, SequenceFacts, FiniteSetTheorems, TLAPS

Frames == [kind : {"script", "use", "eval_file"}, arg : Threads \cup Names,
           i : Nat \ {0}, step : Steps]

Rank == CHOOSE rank \in [OnDisk -> 0..Cardinality(OnDisk)] : Ranks(rank)

(* Whichever path a file is found on, it ranks lower than another.         *)
Beneath(arg, file) ==
  \A d \in 1..Len(UsePaths) :
    FullName[<<UsePaths[d], arg>>] \in OnDisk => Rank[FullName[<<UsePaths[d], arg>>]] < Rank[file]

(* A frame on top of a stack: the thread's own script, the script of the   *)
(* file the call below has loaded, or a call that the script below made.   *)
TopOK(below, fr, t) ==
  /\ below = <<>> => fr.kind = "script" /\ fr.arg = t
  /\ below # <<>> /\ fr.kind = "script" =>
       /\ Last(below).kind # "script" /\ Last(below).step = "loaded"
       /\ fr.arg = Full(Last(below)) /\ fr.arg \in OnDisk
  /\ fr.kind # "script" =>
       /\ below # <<>> /\ Last(below).kind = "script"
       /\ fr.arg \in Names /\ fr.i <= Len(UsePaths)
       /\ \A j \in 1..Len(below) : below[j].kind # "script" => Beneath(fr.arg, Full(below[j]))

LevelOK(s, k, t) ==
  /\ k = 1 => s[k].kind = "script" /\ s[k].arg = t
  /\ k # 1 /\ s[k].kind = "script" =>
       /\ s[k - 1].kind # "script" /\ s[k - 1].step = "loaded"
       /\ s[k].arg = Full(s[k - 1]) /\ s[k].arg \in OnDisk
  /\ s[k].kind # "script" =>
       /\ k # 1 /\ s[k - 1].kind = "script"
       /\ s[k].arg \in Names /\ s[k].i <= Len(UsePaths)
       /\ \A j \in 1..(k - 1) : s[j].kind # "script" => Beneath(s[k].arg, Full(s[j]))
StackOK(s, t) == s \in Seq(Frames) /\ \A k \in 1..Len(s) : LevelOK(s, k, t)

(* The files that the calls on a stack load, and those they are about to.  *)
LoadingFrame(fr) == fr.kind = "use" /\ fr.step \in {"loaded", "record"}
PendingFrame(fr) == fr.kind = "use" /\ fr.step \in {"load", "loaded", "record"}
HeldIn(s) == { k \in 1..Len(s) : Holding(s[k]) }
LoadingIn(s) == { Full(s[k]) : k \in { k \in 1..Len(s) : LoadingFrame(s[k]) } }
PendingIn(s) == { Full(s[k]) : k \in { k \in 1..Len(s) : PendingFrame(s[k]) } }

Stacks ==
  /\ script \in Programs
  /\ stack \in [Threads -> Seq(Frames)]
  /\ \A t \in Threads : StackOK(stack[t], t)
  /\ status \in [Threads -> {"new", "running", "finished"}]
  /\ \A t \in Threads : status[t] # "running" => stack[t] = <<>>

Owners ==
  /\ useDepth \in Nat
  /\ useOwner \in Threads \cup {Nobody}
  /\ mutexOwner \in Threads \cup {Nobody}

Recorded ==
  /\ completed \in [Names -> 0..1]
  /\ usedFiles = { f \in Names : completed[f] = 1 }
  /\ savedFiles \subseteq Names

(* What is being loaded has not been recorded.                             *)
Fresh == \A t \in Threads : PendingIn(stack[t]) \cap usedFiles = {}

IInv == Stacks /\ Owners /\ LocksBalanced /\ Recorded /\ Fresh
-----------------------------------------------------------------------------
LEMMA RankFacts == Rank \in [OnDisk -> Int] /\ Ranks(Rank)
<1>1. Rank \in [OnDisk -> 0..Cardinality(OnDisk)] /\ Ranks(Rank)
  BY FilesAssumption DEF Rank
<1>2. QED
  BY <1>1

LEMMA PathFacts ==
  ASSUME NEW a \in Names
  PROVE  /\ Len(UsePaths) \in Nat \ {0}
         /\ \A d \in 1..Len(UsePaths) : FullName[<<UsePaths[d], a>>] \in Names
<1>1. UsePaths \in Seq(Range(UsePaths)) /\ UsePaths # <<>>
  BY EngineAssumption
<1>2. Len(UsePaths) \in Nat \ {0} /\ \A d \in 1..Len(UsePaths) : UsePaths[d] \in Range(UsePaths)
  BY <1>1
<1>3. \A p \in Range(UsePaths) : FullName[<<p, a>>] \in Names
  BY EngineAssumption
<1>4. QED
  BY <1>2, <1>3

(* A stack is its top on what is below.                                    *)
LEMMA FrontAndTop ==
  ASSUME NEW s \in Seq(Frames), s # <<>>
  PROVE  /\ s = Append(Front(s), Last(s))
         /\ Front(s) \in Seq(Frames) /\ Last(s) \in Frames
         /\ Len(s) = Len(Front(s)) + 1 /\ Len(Front(s)) \in Nat
<1>1. Last(s) \in Frames /\ Len(s) \in Nat /\ Len(s) > 0
  BY LastFacts
<1>2. Front(s) \in Seq(Frames) /\ Len(Front(s)) = Len(s) - 1 /\ \A i \in 1..(Len(s) - 1) : Front(s)[i] = s[i]
  BY FrontFacts
<1> DEFINE r == Append(Front(s), Last(s))
<1>3. /\ r \in Seq(Frames) /\ Len(r) = Len(Front(s)) + 1 /\ r[Len(Front(s)) + 1] = Last(s)
      /\ \A i \in 1..Len(Front(s)) : r[i] = Front(s)[i]
  BY <1>1, <1>2, PushFacts
<1>4. Len(r) = Len(s) /\ \A i \in 1..Len(s) : r[i] = s[i]
  BY <1>1, <1>2, <1>3 DEF Last
<1>5. r = s
  BY <1>3, <1>4, SeqEqual
<1>6. QED
  BY <1>1, <1>2, <1>3, <1>5

LEMMA PushOK ==
  ASSUME NEW t, NEW f \in Seq(Frames), NEW e \in Frames
  PROVE  StackOK(Append(f, e), t) <=> StackOK(f, t) /\ TopOK(f, e, t)
<1> DEFINE r == Append(f, e)
          n == Len(f)
<1>1. /\ r \in Seq(Frames) /\ Len(r) = n + 1 /\ r[n + 1] = e /\ n \in Nat
      /\ \A i \in 1..n : r[i] = f[i]
  BY PushFacts
<1> HIDE DEF r
<1>2. ASSUME NEW k \in 1..n PROVE LevelOK(r, k, t) <=> LevelOK(f, k, t)
  <2>1. r[k] = f[k] /\ (k # 1 => r[k - 1] = f[k - 1]) /\ \A j \in 1..(k - 1) : r[j] = f[j]
    BY <1>1
  <2>2. QED
    BY <2>1 DEF LevelOK
<1>3. LevelOK(r, n + 1, t) <=> TopOK(f, e, t)
  <2>1. CASE f = <<>>
    <3>1. n = 0
      BY <2>1
    <3>2. QED
      BY <1>1, <2>1, <3>1 DEF LevelOK, TopOK
  <2>2. CASE f # <<>>
    <3>1. n # 0 /\ r[n] = Last(f) /\ n + 1 - 1 = n /\ n + 1 # 1
      BY <1>1, <2>2 DEF Last
    <3>2. QED
      BY <1>1, <2>2, <3>1 DEF LevelOK, TopOK
  <2>3. QED
    BY <2>1, <2>2
<1>4. 1..(n + 1) = (1..n) \cup {n + 1}
  BY <1>1
<1>5. QED
  BY <1>1, <1>2, <1>3, <1>4 DEF StackOK, r

LEMMA PushSets ==
  ASSUME NEW f \in Seq(Frames), NEW e \in Frames
  PROVE  /\ HeldIn(Append(f, e)) = HeldIn(f) \cup (IF Holding(e) THEN {Len(f) + 1} ELSE {})
         /\ LoadingIn(Append(f, e)) = LoadingIn(f) \cup (IF LoadingFrame(e) THEN {Full(e)} ELSE {})
         /\ PendingIn(Append(f, e)) = PendingIn(f) \cup (IF PendingFrame(e) THEN {Full(e)} ELSE {})
         /\ Len(f) + 1 \notin HeldIn(f)
         /\ IsFiniteSet(HeldIn(f))
<1> DEFINE r == Append(f, e)
          n == Len(f)
<1>1. /\ r \in Seq(Frames) /\ Len(r) = n + 1 /\ r[n + 1] = e /\ n \in Nat
      /\ \A i \in 1..n : r[i] = f[i]
  BY PushFacts
<1> HIDE DEF r
<1>2. 1..Len(r) = (1..n) \cup {n + 1} /\ n + 1 \notin 1..n
  BY <1>1
<1>3. HeldIn(r) = HeldIn(f) \cup (IF Holding(e) THEN {n + 1} ELSE {})
  BY <1>1, <1>2 DEF HeldIn
<1>4. LoadingIn(r) = LoadingIn(f) \cup (IF LoadingFrame(e) THEN {Full(e)} ELSE {})
  BY <1>1, <1>2 DEF LoadingIn
<1>5. PendingIn(r) = PendingIn(f) \cup (IF PendingFrame(e) THEN {Full(e)} ELSE {})
  BY <1>1, <1>2 DEF PendingIn
<1>6. n + 1 \notin HeldIn(f) /\ IsFiniteSet(HeldIn(f))
  <2>1. HeldIn(f) \subseteq 1..n
    BY DEF HeldIn
  <2>2. IsFiniteSet(1..n)
    BY <1>1, FS_Interval
  <2>3. QED
    BY <1>2, <2>1, <2>2, FS_Subset
<1>7. QED
  BY <1>3, <1>4, <1>5, <1>6 DEF r
-----------------------------------------------------------------------------
(* A call below the top has loaded its file.                               *)
LEMMA CallsBelow ==
  ASSUME NEW t, NEW s, StackOK(s, t), NEW k \in 1..(Len(s) - 1), s[k].kind # "script"
  PROVE  s[k].step = "loaded" /\ Full(s[k]) \in OnDisk
<1>1. s \in Seq(Frames) /\ Len(s) \in Nat
  BY DEF StackOK
<1>2. k + 1 \in 1..Len(s) /\ k + 1 # 1 /\ k + 1 - 1 = k
  BY <1>1
<1>3. LevelOK(s, k + 1, t)
  BY <1>2 DEF StackOK
<1>4. QED
  BY <1>2, <1>3 DEF LevelOK

(* The innermost frame of a thread.                                        *)
LEMMA TopFacts ==
  ASSUME Stacks, NEW t \in Threads, stack[t] # <<>>
  PROVE  LET f == Front(stack[t])  e == Top(t) IN
         /\ f \in Seq(Frames) /\ e \in Frames /\ stack[t] = Append(f, e)
         /\ StackOK(f, t) /\ TopOK(f, e, t)
         /\ Len(stack[t]) = Len(f) + 1 /\ Len(f) \in Nat
         /\ status[t] = "running"
<1>1. stack[t] \in Seq(Frames) /\ StackOK(stack[t], t) /\ status[t] = "running"
  BY DEF Stacks
<1> DEFINE f == Front(stack[t])
           e == Last(stack[t])
<1>2. /\ f \in Seq(Frames) /\ e \in Frames /\ stack[t] = Append(f, e)
      /\ Len(stack[t]) = Len(f) + 1 /\ Len(f) \in Nat
  BY <1>1, FrontAndTop
<1> HIDE DEF f, e
<1>3. StackOK(f, t) /\ TopOK(f, e, t)
  BY <1>1, <1>2, PushOK
<1>4. QED
  BY <1>1, <1>2, <1>3 DEF Top, f, e

(* Two levels of a stack load two files.                                   *)
LEMMA OwnFiles ==
  ASSUME Stacks, NEW t \in Threads, stack[t] # <<>>, Top(t).kind # "script"
  PROVE  Full(Top(t)) \in Names /\ Full(Top(t)) \notin PendingIn(Front(stack[t]))
<1> DEFINE f == Front(stack[t])
           e == Top(t)
<1>1. /\ f \in Seq(Frames) /\ e \in Frames /\ stack[t] = Append(f, e)
      /\ TopOK(f, e, t) /\ Len(stack[t]) = Len(f) + 1 /\ Len(f) \in Nat
      /\ StackOK(stack[t], t)
  BY TopFacts DEF Stacks
<1>2. e.arg \in Names /\ e.i \in 1..Len(UsePaths)
  <2>1. e.i \in Nat \ {0} /\ e.arg \in Names /\ e.i <= Len(UsePaths)
    BY <1>1 DEF TopOK, Frames
  <2>2. Len(UsePaths) \in Nat
    BY <2>1, PathFacts
  <2>3. QED
    BY <2>1, <2>2
<1>3. Full(e) \in Names
  BY <1>2, PathFacts DEF Full
<1>4. ASSUME NEW j \in 1..Len(f), PendingFrame(f[j]) PROVE Full(e) # Full(f[j])
  <2>1. f[j] = stack[t][j] /\ j \in 1..(Len(stack[t]) - 1)
    BY <1>1
  <2>2. f[j].kind # "script" /\ Full(f[j]) \in OnDisk
    BY <1>1, <1>4, <2>1, CallsBelow DEF PendingFrame
  <2>3. Beneath(e.arg, Full(f[j]))
    BY <1>1, <2>2 DEF TopOK
  <2>4. Full(e) \in OnDisk => Rank[Full(e)] < Rank[Full(f[j])]
    BY <1>2, <2>3 DEF Beneath, Full
  <2>5. Rank[Full(f[j])] \in Int
    BY <2>2, RankFacts
  <2>6. QED
    BY <2>2, <2>4, <2>5
<1>5. QED
  BY <1>3, <1>4 DEF PendingIn

(* A thread that loads a file holds the mutex.                             *)
LEMMA LoadersHold ==
  ASSUME NEW s
  PROVE  LoadingIn(s) \subseteq PendingIn(s) /\ (PendingIn(s) # {} => HeldIn(s) # {})
BY DEF LoadingIn, PendingIn, HeldIn, LoadingFrame, PendingFrame, Holding

(* The operation a script is at, and the call it makes.                    *)
LEMMA ScriptFacts ==
  ASSUME Stacks, NEW t \in Threads, stack[t] # <<>>, Top(t).kind = "script"
  PROVE  /\ Top(t).arg \in Threads \cup OnDisk
         /\ script[Top(t).arg] \in Seq(Op)
         /\ Front(stack[t]) # <<>> => Top(t).arg \in OnDisk
<1>1. TopOK(Front(stack[t]), Top(t), t)
  BY TopFacts
<1>2. Top(t).arg \in Threads \cup OnDisk /\ (Front(stack[t]) # <<>> => Top(t).arg \in OnDisk)
  BY <1>1 DEF TopOK
<1>3. script \in [Threads \cup OnDisk -> Seq(Op)]
  BY EngineAssumption DEF Stacks
<1>4. QED
  BY <1>2, <1>3

LEMMA CallOK ==
  ASSUME Stacks, NEW t \in Threads, stack[t] # <<>>, Top(t).kind = "script",
         Top(t).i \in 1..Len(script[Top(t).arg]),
         script[Top(t).arg][Top(t).i].op \in {"use", "eval_file"},
         NEW e \in Frames, e.kind = "script", e.arg = Top(t).arg,
         NEW g \in Frames, g.kind # "script", g.arg = Arg(t), g.i = 1
  PROVE  g.arg \in Names /\ TopOK(Append(Front(stack[t]), e), g, t)
<1> DEFINE f == Front(stack[t])
           x == Top(t).arg
           n == Top(t).i
           o == script[x][n]
           s == Append(f, e)
<1>1. /\ f \in Seq(Frames) /\ stack[t] = Append(f, Top(t))
      /\ TopOK(f, Top(t), t) /\ Len(f) \in Nat /\ StackOK(f, t)
  BY TopFacts
<1>2. script \in Programs /\ script[x] \in Seq(Op) /\ (f # <<>> => x \in OnDisk)
  BY ScriptFacts DEF Stacks
<1>3. o \in Op /\ o.op \in {"use", "eval_file"} /\ g.arg = o.arg
  BY <1>2 DEF Arg
<1>4. g.arg \in Names
  <2> HIDE DEF o
  <2>1. QED
    BY <1>3 DEF Op
<1>5. s # <<>> /\ Last(s) = e /\ Len(s) = Len(f) + 1 /\ \A j \in 1..Len(f) : s[j] = f[j]
  BY <1>1, PushFacts
<1>6. s[Len(f) + 1] = e
  BY <1>1
<1> HIDE DEF s
<1>7. 1 <= Len(UsePaths)
  BY <1>4, PathFacts
<1>8. ASSUME NEW j \in 1..Len(s), s[j].kind # "script" PROVE Beneath(g.arg, Full(s[j]))
  <2>1. j \in 1..Len(f) /\ s[j] = f[j] /\ f # <<>>
    BY <1>1, <1>5, <1>6, <1>8
  <2>2. /\ Last(f).kind # "script" /\ x = Full(Last(f)) /\ x \in OnDisk
        /\ Last(f) = f[Len(f)]
    BY <1>1, <2>1 DEF TopOK, Last
  <2>3. Beneath(g.arg, x)
    <3>1. ASSUME NEW d \in 1..Len(UsePaths), FullName[<<UsePaths[d], g.arg>>] \in OnDisk
          PROVE  Rank[FullName[<<UsePaths[d], g.arg>>]] < Rank[x]
      BY <1>2, <1>3, <2>1, <3>1, RankFacts DEF Ranks
    <3>2. QED
      BY <3>1 DEF Beneath
  <2>4. CASE j = Len(f)
    BY <2>1, <2>2, <2>3, <2>4
  <2>5. CASE j # Len(f)
    <3>1. LevelOK(f, Len(f), t) /\ Len(f) \in 1..Len(f) /\ j \in 1..(Len(f) - 1)
      BY <1>1, <2>1, <2>5 DEF StackOK
    <3>2. Beneath(f[Len(f)].arg, Full(f[j])) /\ f[Len(f)].arg \in Names /\ f[Len(f)].i <= Len(UsePaths)
      BY <1>8, <2>1, <2>2, <3>1 DEF LevelOK
    <3>3. f[Len(f)].i \in 1..Len(UsePaths)
      <4>1. f[Len(f)] \in Frames
        BY <1>1, <3>1
      <4>2. f[Len(f)].i \in Nat \ {0}
        BY <4>1 DEF Frames
      <4>3. Len(UsePaths) \in Nat
        BY <3>2, PathFacts
      <4>4. QED
        BY <3>2, <4>2, <4>3
    <3>4. Rank[x] < Rank[Full(f[j])]
      BY <2>2, <3>2, <3>3 DEF Beneath, Full
    <3>5. Rank[x] \in Int
      BY <2>2, RankFacts
    <3>6. Full(f[j]) \in OnDisk
      BY <1>1, <1>8, <2>1, <3>1, CallsBelow
    <3>7. Rank[Full(f[j])] \in Int
      BY <3>6, RankFacts
    <3>8. ASSUME NEW d \in 1..Len(UsePaths), FullName[<<UsePaths[d], g.arg>>] \in OnDisk
          PROVE  Rank[FullName[<<UsePaths[d], g.arg>>]] < Rank[Full(s[j])]
      <4>1. Rank[FullName[<<UsePaths[d], g.arg>>]] < Rank[x]
        BY <2>3, <3>8 DEF Beneath
      <4>2. Rank[FullName[<<UsePaths[d], g.arg>>]] \in Int
        BY <3>8, RankFacts
      <4>3. QED
        BY <2>1, <3>4, <3>5, <3>7, <4>1, <4>2
    <3>9. QED
      BY <3>8 DEF Beneath
  <2>6. QED
    BY <2>4, <2>5
<1>9. TopOK(s, g, t)
  BY <1>4, <1>5, <1>7, <1>8 DEF TopOK
<1>10. QED
  BY <1>4, <1>9 DEF s
-----------------------------------------------------------------------------
(* What a step of one thread leaves alone.                                 *)
Others(t) == \A u \in Threads \ {t} : stack'[u] = stack[u] /\ status'[u] = status[u]

LEMMA NewStack ==
  ASSUME Stacks, NEW t \in Threads, NEW r, StackOK(r, t), script' = script,
         stack' = [stack EXCEPT ![t] = r],
         status' \in [Threads -> {"new", "running", "finished"}],
         \A u \in Threads \ {t} : status'[u] = status[u],
         status'[t] = "running" \/ r = <<>>
  PROVE  Stacks' /\ Others(t) /\ stack'[t] = r
<1>1. stack \in [Threads -> Seq(Frames)] /\ r \in Seq(Frames)
  BY DEF Stacks, StackOK
<1>2. stack' \in [Threads -> Seq(Frames)] /\ stack'[t] = r /\ \A u \in Threads \ {t} : stack'[u] = stack[u]
  BY <1>1
<1>3. ASSUME NEW u \in Threads PROVE StackOK(stack'[u], u) /\ (status'[u] # "running" => stack'[u] = <<>>)
  <2>1. CASE u = t
    BY <1>2, <2>1
  <2>2. CASE u # t
    BY <1>2, <2>2 DEF Stacks
  <2>3. QED
    BY <2>1, <2>2
<1>4. script' \in Programs
  BY DEF Stacks
<1>5. ASSUME NEW u \in Threads PROVE StackOK(stack[u], u)'
  <2>1. StackOK(stack'[u], u)
    BY <1>3
  <2> QED BY <2>1 DEF StackOK, LevelOK, Full, Beneath
<1>6. QED
  BY <1>2, <1>3, <1>4, <1>5 DEF Stacks, Others

(* The top is replaced.                                                    *)
LEMMA TopReplaced ==
  ASSUME Stacks, NEW t \in Threads, stack[t] # <<>>,
         NEW e \in Frames, TopOK(Front(stack[t]), e, t),
         Become(t, e), script' = script, status' = status
  PROVE  /\ Stacks' /\ Others(t)
         /\ stack'[t] = Append(Front(stack[t]), e) /\ stack'[t] # <<>> /\ Top(t)' = e
<1> DEFINE f == Front(stack[t])
<1>1. f \in Seq(Frames) /\ StackOK(f, t) /\ status[t] = "running"
  BY TopFacts
<1>2. StackOK(Append(f, e), t)
  BY <1>1, PushOK
<1>3. status' \in [Threads -> {"new", "running", "finished"}]
  BY DEF Stacks
<1>4. Stacks' /\ Others(t) /\ stack'[t] = Append(f, e)
  BY <1>1, <1>2, <1>3, NewStack DEF Become
<1>5. Append(f, e) # <<>> /\ Last(Append(f, e)) = e
  BY <1>1, PushFacts
<1>6. QED
  BY <1>4, <1>5 DEF Top

(* The top is replaced, and a frame pushed on it.                          *)
LEMMA TopPushed ==
  ASSUME Stacks, NEW t \in Threads, stack[t] # <<>>,
         NEW e \in Frames, TopOK(Front(stack[t]), e, t),
         NEW g \in Frames, TopOK(Append(Front(stack[t]), e), g, t),
         stack' = [stack EXCEPT ![t] = Append(Append(Front(@), e), g)],
         script' = script, status' = status
  PROVE  /\ Stacks' /\ Others(t)
         /\ stack'[t] = Append(Append(Front(stack[t]), e), g) /\ stack'[t] # <<>> /\ Top(t)' = g
<1> DEFINE f == Append(Front(stack[t]), e)
<1>1. Front(stack[t]) \in Seq(Frames) /\ StackOK(Front(stack[t]), t) /\ status[t] = "running"
  BY TopFacts
<1>2. StackOK(f, t) /\ f \in Seq(Frames)
  BY <1>1, PushOK, PushFacts
<1>6. Append(f, g) # <<>> /\ Last(Append(f, g)) = g
  <2> HIDE DEF f
  <2>1. QED
    BY <1>2, PushFacts
<1>3. StackOK(Append(f, g), t)
  BY <1>2, PushOK
<1>4. status' \in [Threads -> {"new", "running", "finished"}]
  BY DEF Stacks
<1>5. Stacks' /\ Others(t) /\ stack'[t] = Append(f, g)
  BY <1>1, <1>3, <1>4, NewStack
<1>7. QED
  BY <1>5, <1>6 DEF Top

(* The top is popped.  What is uncovered is a script, or a call that has   *)
(* loaded its file.                                                        *)
LEMMA TopPopped ==
  ASSUME Stacks, NEW t \in Threads, stack[t] # <<>>, Pop(t), script' = script,
         \/ status' = status /\ Top(t).kind # "script"
         \/ status' = IF Len(stack[t]) = 1 THEN [status EXCEPT ![t] = "finished"] ELSE status
  PROVE  /\ Stacks' /\ Others(t)
         /\ stack'[t] = Front(stack[t])
         /\ stack'[t] # <<>> => Top(t)'.kind = "script" \/ Top(t)'.step = "loaded"
         /\ Top(t).kind # "script" => stack'[t] # <<>>
<1> DEFINE f == Front(stack[t])
<1>1. /\ f \in Seq(Frames) /\ StackOK(f, t) /\ status[t] = "running" /\ TopOK(f, Top(t), t)
      /\ Len(stack[t]) = Len(f) + 1 /\ Len(f) \in Nat
  BY TopFacts
<1>2. status \in [Threads -> {"new", "running", "finished"}]
  BY DEF Stacks
<1>3. Len(f) = 0 => f = <<>>
  BY <1>1
<1>4. Top(t).kind # "script" => f # <<>>
  BY <1>1 DEF TopOK
<1>5. /\ status' \in [Threads -> {"new", "running", "finished"}]
      /\ \A u \in Threads \ {t} : status'[u] = status[u]
      /\ status'[t] = "running" \/ f = <<>>
  <2>1. CASE status' = status
    BY <1>1, <1>2, <2>1
  <2>2. CASE status' # status
    <3>1. Len(stack[t]) = 1 /\ status' = [status EXCEPT ![t] = "finished"]
      BY <2>2
    <3>2. QED
      BY <1>1, <1>2, <1>3, <3>1
  <2>3. QED
    BY <2>1, <2>2
<1>6. Stacks' /\ Others(t) /\ stack'[t] = f
  BY <1>1, <1>5, NewStack DEF Pop
<1>7. f # <<>> => Last(f).kind = "script" \/ Last(f).step = "loaded"
  BY <1>1 DEF TopOK
<1>8. QED
  BY <1>4, <1>6, <1>7 DEF Top
-----------------------------------------------------------------------------
(* The parts of LocksBalanced, one for each mutex.                         *)
UseBalanced ==
  /\ \A t \in Threads : HeldLevels(t) # {} => useOwner = t
  /\ useDepth = IF useOwner = Nobody THEN 0 ELSE Cardinality(HeldLevels(useOwner))
AtMutex(t) == Running(t, "use") /\ Top(t).step \in {"test", "record"}
MutexBalanced == \A t \in Threads : mutexOwner = t <=> AtMutex(t)

LEMMA BothBalanced == LocksBalanced <=> UseBalanced /\ MutexBalanced
BY DEF LocksBalanced, UseBalanced, MutexBalanced, AtMutex

LEMMA HeldFacts ==
  ASSUME Stacks, NEW t \in Threads
  PROVE  /\ HeldLevels(t) = HeldIn(stack[t])
         /\ IsFiniteSet(HeldIn(stack[t])) /\ Cardinality(HeldIn(stack[t])) \in Nat
<1>1. HeldLevels(t) = HeldIn(stack[t])
  BY DEF HeldLevels, HeldIn
<1>2. HeldIn(stack[t]) \subseteq 1..Len(stack[t]) /\ Len(stack[t]) \in Nat
  BY DEF HeldIn, Stacks
<1>3. IsFiniteSet(1..Len(stack[t]))
  BY <1>2, FS_Interval
<1>4. IsFiniteSet(HeldIn(stack[t]))
  BY <1>2, <1>3, FS_Subset
<1>5. QED
  BY <1>1, <1>4, FS_CardinalityType

(* m_use_mutex is left alone, locked or unlocked.                          *)
LEMMA UseKept ==
  ASSUME Owners, UseBalanced, NEW t \in Threads, Others(t),
         HeldLevels(t)' = HeldLevels(t), UNCHANGED <<useOwner, useDepth>>
  PROVE  UseBalanced'
<1>1. \A u \in Threads : HeldLevels(u)' = HeldLevels(u)
  BY DEF Others, HeldLevels
<1>2. QED
  BY <1>1 DEF UseBalanced, Owners

LEMMA UseLocked ==
  ASSUME Stacks, Owners, UseBalanced, NEW t \in Threads, Others(t), NEW n,
         n \notin HeldLevels(t), HeldLevels(t)' = HeldLevels(t) \cup {n}, LockUse(t)
  PROVE  UseBalanced' /\ useDepth' \in Nat /\ useOwner' = t
<1>1. IsFiniteSet(HeldLevels(t)) /\ Cardinality(HeldLevels(t)) \in Nat
  BY HeldFacts
<1>2. Cardinality(HeldLevels(t)') = Cardinality(HeldLevels(t)) + 1
  BY <1>1, FS_AddElement
<1>3. useDepth = Cardinality(HeldLevels(t))
  <2>1. CASE useOwner = t
    BY <2>1, EngineAssumption DEF UseBalanced
  <2>2. CASE useOwner = Nobody
    <3>1. HeldLevels(t) = {} /\ useDepth = 0
      BY <2>2, EngineAssumption DEF UseBalanced
    <3>2. QED
      BY <3>1, FS_EmptySet
  <2>3. QED
    BY <2>1, <2>2 DEF LockUse, CanLockUse
<1>4. \A u \in Threads \ {t} : HeldLevels(u)' = {}
  <2>1. \A u \in Threads \ {t} : HeldLevels(u)' = HeldLevels(u)
    BY DEF Others, HeldLevels
  <2>2. \A u \in Threads \ {t} : HeldLevels(u) = {}
    BY EngineAssumption DEF UseBalanced, LockUse, CanLockUse
  <2>3. QED
    BY <2>1, <2>2
<1>5. useOwner' = t /\ useDepth' = useDepth + 1 /\ t # Nobody
  BY EngineAssumption DEF LockUse
<1>6. useDepth' = Cardinality(HeldLevels(useOwner)')
  BY <1>1, <1>2, <1>3, <1>5
<1>7. QED
  BY <1>1, <1>3, <1>4, <1>5, <1>6 DEF UseBalanced

LEMMA UseUnlocked ==
  ASSUME Stacks, Owners, UseBalanced, NEW t \in Threads, Others(t), NEW n,
         n \in HeldLevels(t), HeldLevels(t)' = HeldLevels(t) \ {n}, UnlockUse(t)
  PROVE  UseBalanced' /\ useDepth' \in Nat /\ useOwner' \in Threads \cup {Nobody}
<1>1. useOwner = t /\ t # Nobody /\ useDepth = Cardinality(HeldLevels(t))
  BY EngineAssumption DEF UseBalanced
<1>2. IsFiniteSet(HeldLevels(t)) /\ Cardinality(HeldLevels(t)) \in Nat
  BY HeldFacts
<1>3. /\ IsFiniteSet(HeldLevels(t)') /\ Cardinality(HeldLevels(t)') = Cardinality(HeldLevels(t)) - 1
      /\ Cardinality(HeldLevels(t)') \in Nat
  BY <1>2, FS_RemoveElement, FS_CardinalityType
<1>4. \A u \in Threads \ {t} : HeldLevels(u)' = {}
  <2>1. \A u \in Threads \ {t} : HeldLevels(u)' = HeldLevels(u)
    BY DEF Others, HeldLevels
  <2>2. QED
    BY <1>1, <2>1 DEF UseBalanced
<1>5. useDepth' = Cardinality(HeldLevels(t)') /\ useDepth' \in Nat
  BY <1>1, <1>2, <1>3 DEF UnlockUse
<1>6. CASE useDepth = 1
  <2>1. useOwner' = Nobody /\ useDepth' = 0
    BY <1>6 DEF UnlockUse
  <2>2. HeldLevels(t)' = {}
    BY <1>3, <1>5, <2>1, FS_EmptySet
  <2>3. QED
    BY <1>4, <2>1, <2>2 DEF UseBalanced
<1>7. CASE useDepth # 1
  <2>1. useOwner' = t
    BY <1>1, <1>7 DEF UnlockUse
  <2>2. useDepth' = Cardinality(HeldLevels(useOwner)')
    BY <1>5, <2>1
  <2>3. QED
    BY <1>1, <1>4, <1>5, <2>1, <2>2 DEF UseBalanced
<1>8. QED
  BY <1>6, <1>7

(* m_mutex is left alone, locked or unlocked.                              *)
LEMMA OtherMutexes ==
  ASSUME NEW t \in Threads, Others(t)
  PROVE  \A u \in Threads \ {t} : AtMutex(u)' <=> AtMutex(u)
BY DEF Others, AtMutex, Running, Top

LEMMA MutexKept ==
  ASSUME MutexBalanced, NEW t \in Threads, Others(t), ~AtMutex(t), ~AtMutex(t)',
         mutexOwner' = mutexOwner
  PROVE  MutexBalanced'
BY OtherMutexes DEF MutexBalanced

LEMMA MutexLocked ==
  ASSUME MutexBalanced, NEW t \in Threads, Others(t), mutexOwner = Nobody, mutexOwner' = t, AtMutex(t)'
  PROVE  MutexBalanced'
<1>1. \A u \in Threads : ~AtMutex(u)
  BY EngineAssumption DEF MutexBalanced
<1>2. QED
  BY <1>1, OtherMutexes DEF MutexBalanced

LEMMA MutexUnlocked ==
  ASSUME MutexBalanced, NEW t \in Threads, Others(t), AtMutex(t), mutexOwner' = Nobody, ~AtMutex(t)'
  PROVE  MutexBalanced'
<1>1. \A u \in Threads \ {t} : ~AtMutex(u)
  BY DEF MutexBalanced
<1>2. QED
  BY <1>1, OtherMutexes, EngineAssumption DEF MutexBalanced

(* No file is recorded, and what is newly pending was not.                 *)
LEMMA FilesKept ==
  ASSUME Recorded, Fresh, NEW t \in Threads, Others(t),
         \A f \in PendingIn(stack'[t]) : f \in PendingIn(stack[t]) \/ f \notin usedFiles,
         UNCHANGED <<usedFiles, savedFiles, completed>>
  PROVE  Recorded' /\ Fresh'
<1>1. Recorded'
  BY DEF Recorded
<1>2. \A u \in Threads : PendingIn(stack'[u]) \cap usedFiles = {}
  BY DEF Fresh, Others
<1>3. Fresh'
  BY <1>2 DEF Fresh, PendingIn, Full
<1>4. QED
  BY <1>1, <1>3

(* A step that only goes on in a script, or in a call, without the locks.  *)
Quiet(t) ==
  /\ HeldIn(stack'[t]) = HeldIn(stack[t])
  /\ LoadingIn(stack'[t]) = LoadingIn(stack[t])
  /\ PendingIn(stack'[t]) = PendingIn(stack[t])

LEMMA QuietLocks ==
  ASSUME IInv, \A v \in Threads : Quiet(v), \A v \in Threads : AtMutex(v)' <=> AtMutex(v),
         UNCHANGED locks
  PROVE  LocksBalanced' /\ Owners'
<1>1. UseBalanced /\ MutexBalanced /\ Owners
  BY BothBalanced DEF IInv
<1>2. \A v \in Threads : HeldLevels(v)' = HeldLevels(v)
  BY DEF Quiet, HeldLevels, HeldIn
<1>3. UseBalanced'
  BY <1>1, <1>2 DEF UseBalanced, Owners, locks
<1>4. MutexBalanced'
  BY <1>1 DEF MutexBalanced, locks
<1>5. QED
  BY <1>1, <1>3, <1>4 DEF LocksBalanced, UseBalanced, MutexBalanced, AtMutex, Owners, locks

LEMMA QuietStep ==
  ASSUME IInv, Stacks', \A v \in Threads : Quiet(v), \A v \in Threads : AtMutex(v)' <=> AtMutex(v),
         UNCHANGED engine
  PROVE  IInv'
<1>1. LocksBalanced' /\ Owners'
  BY QuietLocks DEF locks, engine
<1>2. Recorded'
  BY DEF IInv, Recorded, engine
<1>3. \A v \in Threads : PendingIn(stack'[v]) \cap usedFiles' = {}
  BY DEF IInv, Fresh, Quiet, engine
<1>4. Fresh'
  BY <1>3 DEF Fresh, PendingIn, Full
<1>5. QED
  BY <1>1, <1>2, <1>4 DEF IInv

LEMMA QuietOthers ==
  ASSUME NEW t \in Threads, Others(t), Quiet(t), ~AtMutex(t), ~AtMutex(t)'
  PROVE  (\A v \in Threads : Quiet(v)) /\ (\A v \in Threads : AtMutex(v)' <=> AtMutex(v))
BY OtherMutexes DEF Quiet, Others
-----------------------------------------------------------------------------
(* The steps of a script.                                                  *)
LEMMA AdvancedOK ==
  ASSUME Stacks, NEW t \in Threads, Running(t, "script")
  PROVE  /\ Advanced(t) \in Frames /\ Advanced(t).kind = "script" /\ Advanced(t).arg = Top(t).arg
         /\ TopOK(Front(stack[t]), Advanced(t), t)
<1>1. Top(t) \in Frames /\ Top(t).kind = "script" /\ TopOK(Front(stack[t]), Top(t), t)
  BY TopFacts DEF Running
<1>2. Advanced(t) \in Frames /\ Advanced(t).kind = "script" /\ Advanced(t).arg = Top(t).arg
  BY <1>1 DEF Advanced, Frames
<1>3. QED
  BY <1>1, <1>2 DEF TopOK

LEMMA ScriptSets ==
  ASSUME NEW f \in Seq(Frames), NEW e \in Frames, e.kind = "script"
  PROVE  /\ HeldIn(Append(f, e)) = HeldIn(f) /\ LoadingIn(Append(f, e)) = LoadingIn(f)
         /\ PendingIn(Append(f, e)) = PendingIn(f)
BY PushSets DEF Holding, LoadingFrame, PendingFrame

LEMMA AdvanceQuiet ==
  ASSUME Stacks, NEW t \in Threads, Running(t, "script"), Advance(t), script' = script, status' = status
  PROVE  Stacks' /\ Others(t) /\ Quiet(t) /\ ~AtMutex(t) /\ ~AtMutex(t)'
<1> DEFINE f == Front(stack[t])
           e == Advanced(t)
<1>1. /\ stack[t] # <<>> /\ f \in Seq(Frames) /\ Top(t) \in Frames /\ stack[t] = Append(f, Top(t))
      /\ Top(t).kind = "script"
  BY TopFacts DEF Running
<1>2. e \in Frames /\ e.kind = "script" /\ TopOK(f, e, t)
  BY AdvancedOK
<1> HIDE DEF e
<1>3. Become(t, e)
  BY DEF Advance, e
<1>4. Stacks' /\ Others(t) /\ stack'[t] = Append(f, e) /\ Top(t)' = e
  BY <1>1, <1>2, <1>3, TopReplaced
<1> HIDE DEF f
<1>5. Quiet(t)
  BY <1>1, <1>2, <1>4, ScriptSets DEF Quiet
<1>6. QED
  BY <1>1, <1>2, <1>4, <1>5 DEF AtMutex, Running

LEMMA CallQuiet ==
  ASSUME IInv, NEW t \in Threads, Use(t) \/ EvalFile(t)
  PROVE  IInv' /\ \A v \in Threads : Quiet(v)
<1> DEFINE f == Front(stack[t])
           e == Advanced(t)
<1>1. PICK o \in {"use", "eval_file"}, st \in {"lock", "load"} :
        CallEngine(t, o, st) /\ ((o = "use") <=> (st = "lock"))
  BY DEF Use, EvalFile
<1> DEFINE g == Frame(o, Arg(t), 1, st)
<1>2. /\ Stacks /\ Running(t, "script") /\ stack[t] # <<>>
      /\ f \in Seq(Frames) /\ Top(t) \in Frames /\ stack[t] = Append(f, Top(t))
      /\ Top(t).kind = "script"
  BY <1>1, TopFacts DEF IInv, CallEngine, AtOp, Running
<1>3. e \in Frames /\ e.kind = "script" /\ e.arg = Top(t).arg /\ TopOK(f, e, t)
  BY <1>2, AdvancedOK
<1>4. /\ Top(t).i \in 1..Len(script[Top(t).arg])
      /\ script[Top(t).arg][Top(t).i].op \in {"use", "eval_file"}
  <2>1. Top(t).i \in Nat \ {0} /\ script[Top(t).arg] \in Seq(Op)
    BY <1>2, ScriptFacts DEF Frames
  <2>2. Top(t).i <= Len(script[Top(t).arg]) /\ Len(script[Top(t).arg]) \in Nat
    BY <1>1, <2>1 DEF CallEngine, AtOp
  <2>3. QED
    BY <1>1, <2>1, <2>2 DEF CallEngine, AtOp
<1>5. Arg(t) \in Names
  <2>1. script[Top(t).arg] \in Seq(Op)
    BY <1>2, ScriptFacts
  <2>2. script[Top(t).arg][Top(t).i] \in Op
    BY <1>4, <2>1
  <2>3. QED
    BY <1>4, <2>2 DEF Op, Arg
<1>6. g \in Frames /\ g.kind = o /\ g.arg = Arg(t) /\ g.i = 1 /\ g.step = st
  BY <1>5 DEF Frames, Frame, Steps
<1> HIDE DEF e, g
<1>7. TopOK(Append(f, e), g, t)
  BY <1>2, <1>3, <1>4, <1>6, CallOK
<1>8. stack' = [stack EXCEPT ![t] = Append(Append(Front(@), e), g)] /\ script' = script /\ status' = status
  BY <1>1 DEF CallEngine, e, g
<1>9. Stacks' /\ Others(t) /\ stack'[t] = Append(Append(f, e), g) /\ Top(t)' = g
  BY <1>2, <1>3, <1>6, <1>7, <1>8, TopPushed
<1> HIDE DEF f
<1>10. Quiet(t)
  <2>1. ~Holding(g) /\ ~LoadingFrame(g) /\ ~PendingFrame(g)
    BY <1>1, <1>6 DEF Holding, LoadingFrame, PendingFrame
  <2>2. Append(f, e) \in Seq(Frames)
    BY <1>2, <1>3, PushFacts
  <2>3. /\ HeldIn(stack'[t]) = HeldIn(Append(f, e)) /\ LoadingIn(stack'[t]) = LoadingIn(Append(f, e))
        /\ PendingIn(stack'[t]) = PendingIn(Append(f, e))
    <3> DEFINE h == Append(f, e)
    <3> HIDE DEF h
    <3>1. stack'[t] = Append(h, g) /\ h \in Seq(Frames)
      BY <1>9, <2>2 DEF h
    <3>2. QED
      BY <1>6, <2>1, <3>1, PushSets DEF h
  <2>4. QED
    BY <1>2, <1>3, <2>3, ScriptSets DEF Quiet
<1>11. ~AtMutex(t) /\ ~AtMutex(t)'
  BY <1>1, <1>2, <1>6, <1>9 DEF AtMutex, Running
<1>12. QED
  BY <1>1, <1>9, <1>10, <1>11, QuietOthers, QuietStep DEF CallEngine

LEMMA ThrowWaitQuiet ==
  ASSUME IInv, NEW t \in Threads, Throw(t) \/ Wait(t)
  PROVE  IInv' /\ \A v \in Threads : Quiet(v)
<1>1. /\ Stacks /\ Running(t, "script") /\ Advance(t) /\ script' = script /\ status' = status
      /\ UNCHANGED engine
  BY DEF IInv, Throw, Wait, AtOp
<1>2. Stacks' /\ Others(t) /\ Quiet(t) /\ ~AtMutex(t) /\ ~AtMutex(t)'
  BY <1>1, AdvanceQuiet
<1>3. QED
  BY <1>1, <1>2, QuietOthers, QuietStep

LEMMA CatchQuiet ==
  ASSUME IInv, NEW t \in Threads, Catch(t)
  PROVE  IInv' /\ \A v \in Threads : Quiet(v)
<1>1. UNCHANGED <<script, stack, status, engine>>
  BY DEF Catch
<1>2. Stacks' /\ (\A v \in Threads : Quiet(v)) /\ \A v \in Threads : AtMutex(v)' <=> AtMutex(v)
  BY <1>1 DEF IInv, Stacks, Quiet, AtMutex, Running, Top
<1>3. QED
  BY <1>1, <1>2, QuietStep

(* The end of a script uncovers a call that has loaded its file.           *)
LEMMA LeaveQuiet ==
  ASSUME IInv, NEW t \in Threads, EndScript(t) \/ Unwind(t)
  PROVE  IInv' /\ \A v \in Threads : Quiet(v)
<1>1. Stacks /\ Running(t, "script") /\ Leave(t) /\ script' = script /\ UNCHANGED engine
  BY DEF IInv, EndScript, Unwind
<1>2. /\ stack[t] # <<>> /\ Front(stack[t]) \in Seq(Frames) /\ Top(t) \in Frames
      /\ stack[t] = Append(Front(stack[t]), Top(t)) /\ Top(t).kind = "script"
  BY <1>1, TopFacts DEF Running
<1>3. /\ Stacks' /\ Others(t) /\ stack'[t] = Front(stack[t])
      /\ stack'[t] # <<>> => Top(t)'.kind = "script" \/ Top(t)'.step = "loaded"
  BY <1>1, <1>2, TopPopped DEF Leave
<1>4. Quiet(t)
  BY <1>2, <1>3, ScriptSets DEF Quiet
<1>5. ~AtMutex(t) /\ ~AtMutex(t)'
  BY <1>2, <1>3 DEF AtMutex, Running
<1>6. QED
  BY <1>1, <1>3, <1>4, <1>5, QuietOthers, QuietStep

(* A host that saves or restores a state is in no use(), and has the mutex *)
(* to itself: no file is being loaded.                                     *)
LEMMA NothingLoads ==
  ASSUME IInv, NEW t \in Threads, AtOp(t, "get_state") \/ AtOp(t, "set_state"), CanLockUse(t)
  PROVE  \A u \in Threads : PendingIn(stack[u]) = {} /\ LoadingIn(stack[u]) = {}
<1>1. Stacks /\ UseBalanced
  BY BothBalanced DEF IInv
<1>2. /\ stack[t] # <<>> /\ Top(t) \in Frames /\ Top(t).kind = "script"
      /\ stack[t] = Append(Front(stack[t]), Top(t)) /\ Front(stack[t]) \in Seq(Frames)
  BY <1>1, TopFacts DEF AtOp, Running
<1>3. Front(stack[t]) = <<>>
  <2>1. Top(t).arg \in Threads \cup OnDisk /\ script[Top(t).arg] \in Seq(Op)
        /\ (Front(stack[t]) # <<>> => Top(t).arg \in OnDisk)
    BY <1>1, <1>2, ScriptFacts
  <2>2. Top(t).i \in 1..Len(script[Top(t).arg])
    <3>1. Top(t).i \in Nat \ {0} /\ Len(script[Top(t).arg]) \in Nat
      BY <1>2, <2>1 DEF Frames
    <3>2. Top(t).i <= Len(script[Top(t).arg])
      BY DEF AtOp
    <3>3. QED
      BY <3>1, <3>2
  <2>3. script[Top(t).arg][Top(t).i].op \in {"get_state", "set_state"} /\ script \in Programs
    BY <1>1 DEF AtOp, Stacks
  <2>4. Top(t).arg \notin OnDisk
    BY <2>2, <2>3, FilesAssumption
  <2>5. QED
    BY <2>1, <2>4
<1>4. HeldIn(stack[t]) = {}
  <2>1. HeldIn(stack[t]) = HeldIn(Front(stack[t]))
    BY <1>2, ScriptSets
  <2>2. HeldIn(Front(stack[t])) = {}
    BY <1>3 DEF HeldIn
  <2>3. QED
    BY <2>1, <2>2
<1>5. ASSUME NEW u \in Threads PROVE HeldIn(stack[u]) = {}
  <2>1. HeldLevels(u) = HeldIn(stack[u])
    BY <1>1, HeldFacts
  <2>2. u # t => HeldLevels(u) = {}
    BY <1>1, EngineAssumption DEF CanLockUse, UseBalanced
  <2>3. QED
    BY <1>4, <2>1, <2>2
<1>6. QED
  BY <1>5, LoadersHold

LEMMA GetStateStep ==
  ASSUME IInv, NEW t \in Threads, GetState(t)
  PROVE  IInv' /\ \A v \in Threads : Quiet(v)
<1>1. /\ Stacks /\ Running(t, "script") /\ Advance(t) /\ script' = script /\ status' = status
      /\ UNCHANGED locks
  BY DEF IInv, GetState, AtOp
<1>2. Stacks' /\ Others(t) /\ Quiet(t) /\ ~AtMutex(t) /\ ~AtMutex(t)'
  BY <1>1, AdvanceQuiet
<1>3. (\A v \in Threads : Quiet(v)) /\ \A v \in Threads : AtMutex(v)' <=> AtMutex(v)
  BY <1>2, QuietOthers
<1>4. LocksBalanced' /\ Owners'
  BY <1>1, <1>3, QuietLocks
<1>5. Recorded'
  BY DEF IInv, Recorded, GetState
<1>6. \A v \in Threads : PendingIn(stack'[v]) \cap usedFiles' = {}
  BY <1>3 DEF IInv, Fresh, Quiet, GetState
<1>7. Fresh'
  BY <1>6 DEF Fresh, PendingIn, Full
<1>8. QED
  BY <1>2, <1>3, <1>4, <1>5, <1>7 DEF IInv

LEMMA SetStateStep ==
  ASSUME IInv, NEW t \in Threads, SetState(t)
  PROVE  IInv' /\ \A v \in Threads : Quiet(v)
<1>1. /\ Stacks /\ Running(t, "script") /\ Advance(t) /\ script' = script /\ status' = status
      /\ UNCHANGED locks
  BY DEF IInv, SetState, AtOp
<1>2. Stacks' /\ Others(t) /\ Quiet(t) /\ ~AtMutex(t) /\ ~AtMutex(t)'
  BY <1>1, AdvanceQuiet
<1>3. (\A v \in Threads : Quiet(v)) /\ \A v \in Threads : AtMutex(v)' <=> AtMutex(v)
  BY <1>2, QuietOthers
<1>4. LocksBalanced' /\ Owners'
  BY <1>1, <1>3, QuietLocks
<1>5. Recorded'
  BY DEF IInv, Recorded, SetState
<1>6. \A v \in Threads : PendingIn(stack'[v]) = {}
  BY <1>3, NothingLoads DEF Quiet, SetState
<1>7. Fresh'
  BY <1>6 DEF Fresh, PendingIn, Full
<1>8. QED
  BY <1>2, <1>3, <1>4, <1>5, <1>7 DEF IInv

LEMMA AsyncQuiet ==
  ASSUME IInv, NEW t \in Threads, Async(t)
  PROVE  IInv' /\ \A v \in Threads : Quiet(v)
<1> DEFINE f == Front(stack[t])
           e == Advanced(t)
<1>1. /\ Stacks /\ Running(t, "script") /\ stack[t] # <<>> /\ status[t] = "running"
      /\ f \in Seq(Frames) /\ Top(t) \in Frames /\ stack[t] = Append(f, Top(t))
      /\ Top(t).kind = "script" /\ StackOK(f, t)
  BY TopFacts DEF IInv, Async, AtOp, Running
<1>2. e \in Frames /\ e.kind = "script" /\ TopOK(f, e, t)
  BY <1>1, AdvancedOK
<1>3. PICK u \in Threads : u = Arg(t)
  <2>1. script[Top(t).arg] \in Seq(Op)
    BY <1>1, ScriptFacts
  <2>2. Top(t).i \in Nat \ {0} /\ Len(script[Top(t).arg]) \in Nat
    BY <1>1, <2>1 DEF Frames
  <2>3. Top(t).i \in 1..Len(script[Top(t).arg]) /\ script[Top(t).arg][Top(t).i].op = "async"
    BY <2>2 DEF Async, AtOp
  <2>4. script[Top(t).arg][Top(t).i] \in Op
    BY <2>1, <2>3
  <2>5. QED
    BY <2>3, <2>4 DEF Op, Arg
<1> DEFINE g == ScriptFrame(u)
<1>4. status[u] = "new" /\ u # t /\ stack[u] = <<>>
  BY <1>1, <1>3 DEF Async, Stacks
<1>5. g \in Frames /\ g.kind = "script" /\ g.arg = u
  BY <1>3 DEF ScriptFrame, Frame, Frames, Steps
<1>6. /\ status' = [status EXCEPT ![u] = "running"]
      /\ stack' = [stack EXCEPT ![t] = Append(Front(@), e), ![u] = << g >>]
      /\ script' = script /\ UNCHANGED engine
  BY <1>3 DEF Async
<1> HIDE DEF e, g
<1>7. /\ stack' \in [Threads -> Seq(Frames)] /\ stack'[t] = Append(f, e) /\ stack'[u] = << g >>
      /\ \A v \in Threads \ {t, u} : stack'[v] = stack[v]
  <2>1. stack \in [Threads -> Seq(Frames)] /\ Append(f, e) \in Seq(Frames) /\ << g >> \in Seq(Frames)
    BY <1>1, <1>2, <1>5, PushFacts DEF Stacks
  <2>2. QED
    BY <1>3, <1>4, <1>6, <2>1
<1>8. status' \in [Threads -> {"new", "running", "finished"}] /\ status'[t] = "running"
      /\ status'[u] = "running" /\ \A v \in Threads \ {t, u} : status'[v] = status[v]
  BY <1>1, <1>3, <1>4, <1>6 DEF Stacks
<1> HIDE DEF f
<1>9. StackOK(<< g >>, u)
  BY <1>5 DEF StackOK, LevelOK
<1>10. StackOK(Append(f, e), t)
  BY <1>1, <1>2, PushOK
<1>11. ASSUME NEW v \in Threads PROVE StackOK(stack'[v], v) /\ (status'[v] # "running" => stack'[v] = <<>>)
  <2>1. CASE v = t
    BY <1>7, <1>8, <1>10, <2>1
  <2>2. CASE v = u
    BY <1>7, <1>8, <1>9, <2>2
  <2>3. CASE v \notin {t, u}
    BY <1>1, <1>7, <1>8, <2>3 DEF Stacks
  <2>4. QED
    BY <2>1, <2>2, <2>3
<1>12. Stacks'
  <2>1. script' \in Programs
    BY <1>1, <1>6 DEF Stacks
  <2>2. \A v \in Threads : StackOK(stack'[v], v) /\ (status'[v] # "running" => stack'[v] = <<>>)
    BY <1>11
  <2>3. QED
    BY <1>7, <1>8, <2>1, <2>2 DEF Stacks, StackOK, LevelOK, Full, Beneath
<1>13. ASSUME NEW v \in Threads PROVE Quiet(v) /\ (AtMutex(v)' <=> AtMutex(v))
  <2>1. CASE v = t
    <3>1. Quiet(t)
      BY <1>1, <1>2, <1>7, ScriptSets DEF Quiet
    <3>2. Top(t)' = e
      BY <1>1, <1>2, <1>7, PushFacts DEF Top
    <3>3. QED
      BY <1>1, <1>2, <2>1, <3>1, <3>2 DEF AtMutex, Running
  <2>2. CASE v = u
    <3>1. stack'[u] = Append(<<>>, g)
      BY <1>7
    <3>2. <<>> \in Seq(Frames)
      OBVIOUS
    <3>3. Quiet(u)
      BY <1>4, <1>5, <3>1, <3>2, ScriptSets DEF Quiet
    <3>4. Top(u)' = g
      <4>1. Last(Append(<<>>, g)) = g
        BY <1>5, <3>2, PushFacts
      <4>2. QED
        BY <3>1, <4>1 DEF Top
    <3>5. ~AtMutex(u) /\ ~AtMutex(u)'
      BY <1>4, <1>5, <3>4 DEF AtMutex, Running
    <3>6. QED
      BY <2>2, <3>3, <3>5
  <2>3. CASE v \notin {t, u}
    BY <1>7, <1>8, <2>3 DEF Quiet, AtMutex, Running, Top
  <2>4. QED
    BY <2>1, <2>2, <2>3
<1>14. QED
  BY <1>6, <1>12, <1>13, QuietStep
-----------------------------------------------------------------------------
(* The steps of a call: the top is replaced by the same call further on.   *)
LEMMA CallFacts ==
  ASSUME Stacks, NEW t \in Threads, Running(t, "use") \/ Running(t, "eval_file")
  PROVE  /\ stack[t] # <<>> /\ Front(stack[t]) \in Seq(Frames) /\ Top(t) \in Frames
         /\ stack[t] = Append(Front(stack[t]), Top(t)) /\ TopOK(Front(stack[t]), Top(t), t)
         /\ Top(t).arg \in Names /\ Top(t).i \in 1..Len(UsePaths) /\ Len(UsePaths) \in Nat
         /\ Full(Top(t)) \in Names /\ Full(Top(t)) \notin PendingIn(Front(stack[t]))
<1>1. stack[t] # <<>> /\ Top(t).kind # "script"
  BY DEF Running
<1>2. /\ Front(stack[t]) \in Seq(Frames) /\ Top(t) \in Frames
      /\ stack[t] = Append(Front(stack[t]), Top(t)) /\ TopOK(Front(stack[t]), Top(t), t)
  BY <1>1, TopFacts
<1>3. Top(t).arg \in Names /\ Top(t).i <= Len(UsePaths)
  BY <1>1, <1>2 DEF TopOK
<1>4. Top(t).i \in Nat \ {0}
  BY <1>2 DEF Frames
<1>5. Len(UsePaths) \in Nat
  BY <1>3, PathFacts
<1>6. Top(t).i \in 1..Len(UsePaths)
  BY <1>3, <1>4, <1>5
<1>7. QED
  BY <1>1, <1>2, <1>3, <1>5, <1>6, OwnFiles

LEMMA CallReplaced ==
  ASSUME Stacks, NEW t \in Threads, Running(t, "use") \/ Running(t, "eval_file"),
         NEW e \in Frames, e.kind = Top(t).kind, e.arg = Top(t).arg, e.i <= Len(UsePaths),
         Become(t, e), script' = script, status' = status
  PROVE  Stacks' /\ Others(t) /\ stack'[t] = Append(Front(stack[t]), e) /\ stack'[t] # <<>> /\ Top(t)' = e
<1>1. stack[t] # <<>> /\ TopOK(Front(stack[t]), Top(t), t) /\ Top(t).kind # "script"
  BY CallFacts DEF Running
<1>2. TopOK(Front(stack[t]), e, t)
  BY <1>1 DEF TopOK
<1>3. QED
  BY <1>1, <1>2, TopReplaced

(* The next step of a call.                                                *)
LEMMA NextStep ==
  ASSUME NEW e \in Frames, NEW st \in Steps
  PROVE  LET r == [e EXCEPT !.step = st] IN
         r \in Frames /\ r.kind = e.kind /\ r.arg = e.arg /\ r.i = e.i /\ r.step = st /\ Full(r) = Full(e)
BY DEF Frames, Full

LEMMA SetsOf ==
  ASSUME NEW f \in Seq(Frames), NEW d \in Frames, NEW e \in Frames,
         LoadingFrame(e) <=> LoadingFrame(d), PendingFrame(e) <=> PendingFrame(d),
         LoadingFrame(e) \/ PendingFrame(e) => Full(e) = Full(d)
  PROVE  /\ LoadingIn(Append(f, e)) = LoadingIn(Append(f, d))
         /\ PendingIn(Append(f, e)) = PendingIn(Append(f, d))
         /\ (Holding(e) <=> Holding(d)) => HeldIn(Append(f, e)) = HeldIn(Append(f, d))
<1>1. /\ HeldIn(Append(f, e)) = HeldIn(f) \cup (IF Holding(e) THEN {Len(f) + 1} ELSE {})
      /\ LoadingIn(Append(f, e)) = LoadingIn(f) \cup (IF LoadingFrame(e) THEN {Full(e)} ELSE {})
      /\ PendingIn(Append(f, e)) = PendingIn(f) \cup (IF PendingFrame(e) THEN {Full(e)} ELSE {})
  BY PushSets
<1>2. /\ HeldIn(Append(f, d)) = HeldIn(f) \cup (IF Holding(d) THEN {Len(f) + 1} ELSE {})
      /\ LoadingIn(Append(f, d)) = LoadingIn(f) \cup (IF LoadingFrame(d) THEN {Full(d)} ELSE {})
      /\ PendingIn(Append(f, d)) = PendingIn(f) \cup (IF PendingFrame(d) THEN {Full(d)} ELSE {})
  BY PushSets
<1>3. QED
  BY <1>1, <1>2, Zenon

LEMMA UseLockStep ==
  ASSUME IInv, NEW t \in Threads, UseLock(t)
  PROVE  IInv' /\ \A v \in Threads : LoadingIn(stack'[v]) = LoadingIn(stack[v])
<1> DEFINE f == Front(stack[t])
           e == [Top(t) EXCEPT !.step = "lock2"]
<1>1. /\ Stacks /\ Owners /\ Recorded /\ Fresh /\ UseBalanced /\ MutexBalanced
      /\ Running(t, "use") /\ Top(t).step = "lock"
  BY BothBalanced DEF IInv, UseLock, AtUse
<1>2. /\ f \in Seq(Frames) /\ Top(t) \in Frames /\ stack[t] = Append(f, Top(t))
      /\ Top(t).i <= Len(UsePaths) /\ Top(t).kind = "use"
  BY <1>1, CallFacts DEF Running
<1>3. e \in Frames /\ e.kind = "use" /\ e.arg = Top(t).arg /\ e.i = Top(t).i /\ e.step = "lock2"
  BY <1>2, NextStep DEF Steps
<1>4. Become(t, e) /\ script' = script /\ status' = status
  BY DEF UseLock, GoTo
<1> HIDE DEF e
<1>5. Stacks' /\ Others(t) /\ stack'[t] = Append(f, e) /\ Top(t)' = e
  BY <1>1, <1>2, <1>3, <1>4, CallReplaced
<1> HIDE DEF f
<1>6. /\ HeldIn(stack'[t]) = HeldIn(stack[t]) \cup {Len(f) + 1} /\ Len(f) + 1 \notin HeldIn(stack[t])
      /\ LoadingIn(stack'[t]) = LoadingIn(stack[t]) /\ PendingIn(stack'[t]) = PendingIn(stack[t])
  <2>1. /\ Holding(e) /\ ~LoadingFrame(e) /\ ~PendingFrame(e)
        /\ ~Holding(Top(t)) /\ ~LoadingFrame(Top(t)) /\ ~PendingFrame(Top(t))
    BY <1>1, <1>2, <1>3 DEF Holding, LoadingFrame, PendingFrame
  <2>2. LoadingIn(stack'[t]) = LoadingIn(stack[t]) /\ PendingIn(stack'[t]) = PendingIn(stack[t])
    BY <1>2, <1>3, <1>5, <2>1, SetsOf
  <2>3. HeldIn(stack'[t]) = HeldIn(f) \cup {Len(f) + 1} /\ Len(f) + 1 \notin HeldIn(f)
    BY <1>2, <1>3, <1>5, <2>1, PushSets
  <2>4. HeldIn(stack[t]) = HeldIn(f)
    <3> DEFINE d == Top(t)
    <3> HIDE DEF d
    <3>1. d \in Frames /\ stack[t] = Append(f, d) /\ ~Holding(d)
      BY <1>2, <2>1 DEF d
    <3>2. QED
      BY <1>2, <3>1, PushSets
  <2>5. QED
    BY <2>2, <2>3, <2>4
<1>7. UseBalanced' /\ useDepth' \in Nat /\ useOwner' = t
  <2>1. HeldLevels(t) = HeldIn(stack[t]) /\ HeldLevels(t)' = HeldIn(stack'[t])
    BY DEF HeldLevels, HeldIn
  <2>2. Len(f) + 1 \notin HeldLevels(t) /\ HeldLevels(t)' = HeldLevels(t) \cup {Len(f) + 1} /\ LockUse(t)
    BY <1>6, <2>1 DEF UseLock
  <2>3. QED
    BY <1>1, <1>5, <2>2, UseLocked
<1>8. MutexBalanced'
  <2>1. ~AtMutex(t) /\ ~AtMutex(t)'
    BY <1>1, <1>3, <1>5 DEF AtMutex
  <2>2. QED
    BY <1>1, <1>5, <2>1, MutexKept DEF UseLock
<1>9. Recorded' /\ Fresh'
  BY <1>1, <1>5, <1>6, FilesKept DEF UseLock, files
<1>10. LocksBalanced' /\ Owners'
  BY <1>1, <1>7, <1>8 DEF LocksBalanced, UseBalanced, MutexBalanced, AtMutex, Owners, UseLock
<1>11. QED
  BY <1>5, <1>6, <1>9, <1>10 DEF IInv, Others

LEMMA UseLock2Step ==
  ASSUME IInv, NEW t \in Threads, UseLock2(t) \/ UseRelock(t)
  PROVE  IInv' /\ \A v \in Threads : LoadingIn(stack'[v]) = LoadingIn(stack[v])
<1> DEFINE f == Front(stack[t])
<1>1. PICK st \in {"test", "record"} :
        /\ GoTo(t, st) /\ Top(t).step = (IF st = "test" THEN "lock2" ELSE "loaded")
        /\ mutexOwner = Nobody /\ mutexOwner' = t
        /\ UNCHANGED <<script, exn, status, useOwner, useDepth, files>>
  BY DEF UseLock2, UseRelock, AtUse
<1> DEFINE e == [Top(t) EXCEPT !.step = st]
<1>2. /\ Stacks /\ Owners /\ Recorded /\ Fresh /\ UseBalanced /\ MutexBalanced
      /\ Running(t, "use")
  BY BothBalanced DEF IInv, UseLock2, UseRelock, AtUse
<1>3. /\ f \in Seq(Frames) /\ Top(t) \in Frames /\ stack[t] = Append(f, Top(t))
      /\ Top(t).i <= Len(UsePaths) /\ Top(t).kind = "use"
  BY <1>2, CallFacts DEF Running
<1>4. /\ e \in Frames /\ e.kind = "use" /\ e.arg = Top(t).arg /\ e.i = Top(t).i /\ e.step = st
      /\ Full(e) = Full(Top(t))
  <2>1. st \in Steps
    BY DEF Steps
  <2> DEFINE d == Top(t)
  <2> HIDE DEF d
  <2>2. d \in Frames /\ d.kind = "use"
    BY <1>3 DEF d
  <2>3. QED
    BY <2>1, <2>2, NextStep DEF d
<1>5. Become(t, e) /\ script' = script /\ status' = status
  BY <1>1 DEF GoTo
<1> HIDE DEF e
<1>6. Stacks' /\ Others(t) /\ stack'[t] = Append(f, e) /\ stack'[t] # <<>> /\ Top(t)' = e
  BY <1>2, <1>3, <1>4, <1>5, CallReplaced
<1> HIDE DEF f
<1>7. Quiet(t)
  <2>1. /\ Holding(e) /\ (LoadingFrame(e) <=> st = "record") /\ (PendingFrame(e) <=> st = "record")
        /\ Holding(Top(t)) /\ (LoadingFrame(Top(t)) <=> st = "record")
        /\ (PendingFrame(Top(t)) <=> st = "record")
    BY <1>1, <1>3, <1>4 DEF Holding, LoadingFrame, PendingFrame
  <2>2. QED
    BY <1>3, <1>4, <1>6, <2>1, SetsOf DEF Quiet
<1>8. UseBalanced'
  <2>1. HeldLevels(t)' = HeldLevels(t)
    BY <1>7 DEF Quiet, HeldLevels, HeldIn
  <2>2. QED
    BY <1>1, <1>2, <1>6, <2>1, UseKept
<1>9. MutexBalanced'
  <2>1. AtMutex(t)'
    BY <1>1, <1>2, <1>4, <1>6 DEF AtMutex, Running
  <2>2. QED
    BY <1>1, <1>2, <1>6, <2>1, MutexLocked
<1>10. Recorded' /\ Fresh'
  BY <1>1, <1>2, <1>6, <1>7, FilesKept DEF Quiet, files
<1>11. LocksBalanced' /\ Owners'
  BY <1>1, <1>2, <1>8, <1>9 DEF LocksBalanced, UseBalanced, MutexBalanced, AtMutex, Owners
<1>12. QED
  BY <1>6, <1>7, <1>10, <1>11 DEF IInv, Others, Quiet

(* A call ends: its level goes, and what it was loading.                   *)
LEMMA CallPopped ==
  ASSUME Stacks, NEW t \in Threads, Running(t, "use") \/ Running(t, "eval_file"),
         Pop(t), script' = script, status' = status
  PROVE  /\ Stacks' /\ Others(t) /\ stack'[t] = Front(stack[t]) /\ ~AtMutex(t)'
         /\ HeldIn(stack[t]) = HeldIn(stack'[t])
                \cup (IF Holding(Top(t)) THEN {Len(stack[t])} ELSE {})
         /\ LoadingIn(stack[t]) = LoadingIn(stack'[t])
                \cup (IF LoadingFrame(Top(t)) THEN {Full(Top(t))} ELSE {})
         /\ PendingIn(stack[t]) = PendingIn(stack'[t])
                \cup (IF PendingFrame(Top(t)) THEN {Full(Top(t))} ELSE {})
         /\ Len(stack[t]) \notin HeldIn(stack'[t])
         /\ Full(Top(t)) \notin PendingIn(stack'[t])
<1> DEFINE f == Front(stack[t])
           d == Top(t)
<1>1. /\ stack[t] # <<>> /\ d.kind # "script"
      /\ f \in Seq(Frames) /\ d \in Frames /\ stack[t] = Append(f, d) /\ Len(stack[t]) = Len(f) + 1
      /\ Full(d) \notin PendingIn(f)
  BY CallFacts, TopFacts DEF Running
<1>2. /\ Stacks' /\ Others(t) /\ stack'[t] = f
      /\ stack'[t] # <<>> => Top(t)'.kind = "script" \/ Top(t)'.step = "loaded"
  BY <1>1, TopPopped
<1>3. ~AtMutex(t)'
  BY <1>2 DEF AtMutex, Running
<1> HIDE DEF f
<1>4. Full(d) \notin PendingIn(stack'[t])
  BY <1>1, <1>2
<1> HIDE DEF d
<1>5. /\ HeldIn(stack[t]) = HeldIn(f) \cup (IF Holding(d) THEN {Len(f) + 1} ELSE {})
      /\ LoadingIn(stack[t]) = LoadingIn(f) \cup (IF LoadingFrame(d) THEN {Full(d)} ELSE {})
      /\ PendingIn(stack[t]) = PendingIn(f) \cup (IF PendingFrame(d) THEN {Full(d)} ELSE {})
      /\ Len(f) + 1 \notin HeldIn(f)
  BY <1>1, PushSets
<1>6. QED
  BY <1>1, <1>2, <1>3, <1>4, <1>5, Zenon DEF f, d

(* A call that holds m_use_mutex goes on to a next one, its level with it. *)
LEMMA CallMoved ==
  ASSUME Stacks, NEW t \in Threads, Running(t, "use") \/ Running(t, "eval_file"),
         NEW st \in Steps, GoTo(t, st), script' = script, status' = status
  PROVE  \E e \in Frames :
           /\ Stacks' /\ Others(t) /\ stack'[t] = Append(Front(stack[t]), e) /\ stack'[t] # <<>>
           /\ Top(t)' = e /\ e.kind = Top(t).kind /\ e.step = st /\ Full(e) = Full(Top(t))
<1> DEFINE d == Top(t)
<1>1. d \in Frames /\ d.i <= Len(UsePaths)
  BY CallFacts
<1> DEFINE e == [d EXCEPT !.step = st]
<1>2. Become(t, e)
  BY DEF GoTo
<1> HIDE DEF d
<1>3. /\ e \in Frames /\ e.kind = d.kind /\ e.arg = d.arg /\ e.i = d.i /\ e.step = st
      /\ Full(e) = Full(d)
  BY <1>1, NextStep
<1> HIDE DEF e
<1>4. Stacks' /\ Others(t) /\ stack'[t] = Append(Front(stack[t]), e) /\ stack'[t] # <<>> /\ Top(t)' = e
  BY <1>1, <1>2, <1>3, CallReplaced DEF d
<1>5. QED
  BY <1>3, <1>4 DEF d

LEMMA UseTestStep ==
  ASSUME IInv, NEW t \in Threads, UseTest(t)
  PROVE  IInv' /\ \A v \in Threads : LoadingIn(stack'[v]) = LoadingIn(stack[v])
<1>1. /\ Stacks /\ Owners /\ Recorded /\ Fresh /\ UseBalanced /\ MutexBalanced
      /\ Running(t, "use") /\ Top(t).kind = "use" /\ Top(t).step = "test"
      /\ AtMutex(t) /\ mutexOwner' = Nobody
      /\ script' = script /\ status' = status /\ UNCHANGED files
  BY BothBalanced DEF IInv, UseTest, AtUse, AtMutex, Running
<1>2. Holding(Top(t)) /\ ~LoadingFrame(Top(t)) /\ ~PendingFrame(Top(t))
  BY <1>1 DEF Holding, LoadingFrame, PendingFrame
<1>3. CASE Full(Top(t)) \in usedFiles
  <2>1. Pop(t) /\ UnlockUse(t)
    BY <1>3 DEF UseTest
  <2>2. /\ Stacks' /\ Others(t) /\ ~AtMutex(t)'
        /\ HeldIn(stack[t]) = HeldIn(stack'[t]) \cup {Len(stack[t])}
        /\ LoadingIn(stack'[t]) = LoadingIn(stack[t]) /\ PendingIn(stack'[t]) = PendingIn(stack[t])
        /\ Len(stack[t]) \notin HeldIn(stack'[t])
    BY <1>1, <1>2, <2>1, CallPopped
  <2>3. UseBalanced' /\ useDepth' \in Nat /\ useOwner' \in Threads \cup {Nobody}
    <3>1. HeldLevels(t) = HeldIn(stack[t]) /\ HeldLevels(t)' = HeldIn(stack'[t])
      BY DEF HeldLevels, HeldIn
    <3>2. Len(stack[t]) \in HeldLevels(t) /\ HeldLevels(t)' = HeldLevels(t) \ {Len(stack[t])}
      BY <2>2, <3>1
    <3>3. QED
      BY <1>1, <2>1, <2>2, <3>2, UseUnlocked
  <2>4. MutexBalanced'
    BY <1>1, <2>2, MutexUnlocked
  <2>5. Recorded' /\ Fresh'
    BY <1>1, <2>2, FilesKept DEF files
  <2>6. LocksBalanced' /\ Owners'
    BY <1>1, <2>3, <2>4 DEF LocksBalanced, UseBalanced, MutexBalanced, AtMutex, Owners
  <2>7. QED
    BY <2>2, <2>5, <2>6 DEF IInv, Others
<1>4. CASE Full(Top(t)) \notin usedFiles
  <2>1. GoTo(t, "load") /\ UNCHANGED <<useOwner, useDepth>> /\ "load" \in Steps
    BY <1>4 DEF UseTest, Steps
  <2>2. PICK e \in Frames :
          /\ Stacks' /\ Others(t) /\ stack'[t] = Append(Front(stack[t]), e)
          /\ Top(t)' = e /\ e.kind = "use" /\ e.step = "load" /\ Full(e) = Full(Top(t))
    BY <1>1, <2>1, CallMoved
  <2> DEFINE f == Front(stack[t])
             d == Top(t)
  <2>3. f \in Seq(Frames) /\ d \in Frames /\ stack[t] = Append(f, d)
    BY <1>1, CallFacts
  <2>4. Holding(e) /\ ~LoadingFrame(e) /\ PendingFrame(e) /\ Full(e) \notin usedFiles
    BY <1>4, <2>2 DEF Holding, LoadingFrame, PendingFrame
  <2> HIDE DEF f, d
  <2>5. /\ HeldIn(stack'[t]) = HeldIn(f) \cup {Len(f) + 1} /\ LoadingIn(stack'[t]) = LoadingIn(f)
        /\ PendingIn(stack'[t]) = PendingIn(f) \cup {Full(e)}
    BY <2>2, <2>3, <2>4, PushSets DEF f
  <2>6. /\ HeldIn(stack[t]) = HeldIn(f) \cup {Len(f) + 1} /\ LoadingIn(stack[t]) = LoadingIn(f)
        /\ PendingIn(stack[t]) = PendingIn(f)
    <3>1. Holding(d) /\ ~LoadingFrame(d) /\ ~PendingFrame(d)
      BY <1>2 DEF d
    <3>2. QED
      BY ZenonT(40), <2>3, <3>1, PushSets
  <2>7. UseBalanced'
    <3>1. HeldLevels(t)' = HeldLevels(t)
      BY <2>5, <2>6 DEF HeldLevels, HeldIn
    <3>2. QED
      BY <1>1, <2>1, <2>2, <3>1, UseKept
  <2>8. MutexBalanced'
    <3>1. ~AtMutex(t)'
      BY <2>2 DEF AtMutex
    <3>2. QED
      BY <1>1, <2>2, <3>1, MutexUnlocked
  <2>9. Recorded' /\ Fresh'
    <3>1. \A x \in PendingIn(stack'[t]) : x \in PendingIn(stack[t]) \/ x \notin usedFiles
      BY <2>4, <2>5, <2>6
    <3>2. QED
      BY <1>1, <2>2, <3>1, FilesKept DEF files
  <2>10. LocksBalanced' /\ Owners'
    BY <1>1, <2>1, <2>7, <2>8 DEF LocksBalanced, UseBalanced, MutexBalanced, AtMutex, Owners
  <2>11. QED
    BY <2>2, <2>5, <2>6, <2>9, <2>10 DEF IInv, Others
<1>5. QED
  BY <1>3, <1>4

(* A call ends, or starts again with the next path.                        *)
NextTry(t, e) ==
  /\ Become(t, e)
  /\ e.kind = Top(t).kind /\ e.arg = Top(t).arg /\ e.i <= Len(UsePaths)
  /\ ~Holding(e) /\ ~LoadingFrame(e) /\ ~PendingFrame(e)

LEMMA CallLeft ==
  ASSUME Stacks, NEW t \in Threads, Running(t, "use") \/ Running(t, "eval_file"),
         Pop(t) \/ \E e \in Frames : NextTry(t, e), script' = script, status' = status
  PROVE  /\ Stacks' /\ Others(t) /\ ~AtMutex(t)'
         /\ HeldIn(stack[t]) = HeldIn(stack'[t])
                \cup (IF Holding(Top(t)) THEN {Len(stack[t])} ELSE {})
         /\ LoadingIn(stack[t]) = LoadingIn(stack'[t])
                \cup (IF LoadingFrame(Top(t)) THEN {Full(Top(t))} ELSE {})
         /\ PendingIn(stack[t]) = PendingIn(stack'[t])
                \cup (IF PendingFrame(Top(t)) THEN {Full(Top(t))} ELSE {})
         /\ Len(stack[t]) \notin HeldIn(stack'[t])
         /\ Full(Top(t)) \notin PendingIn(stack'[t])
<1>1. CASE Pop(t)
  BY <1>1, CallPopped
<1>2. CASE \E e \in Frames : NextTry(t, e)
  <2>1. PICK e \in Frames : NextTry(t, e)
    BY <1>2
  <2> DEFINE f == Front(stack[t])
             d == Top(t)
  <2>2. /\ stack[t] # <<>> /\ f \in Seq(Frames) /\ d \in Frames /\ stack[t] = Append(f, d)
        /\ Len(stack[t]) = Len(f) + 1 /\ Full(d) \notin PendingIn(f)
    BY CallFacts, TopFacts DEF Running
  <2>3. Stacks' /\ Others(t) /\ stack'[t] = Append(f, e) /\ Top(t)' = e
    BY <2>1, CallReplaced DEF NextTry
  <2>4. ~Holding(e) /\ ~LoadingFrame(e) /\ ~PendingFrame(e)
    BY <2>1 DEF NextTry
  <2>5. ~AtMutex(t)'
    <3>1. e.kind # "use" \/ e.step = "lock"
      BY <2>4 DEF Holding
    <3>2. QED
      BY <2>3, <3>1 DEF AtMutex, Running
  <2> HIDE DEF f, d
  <2>6. /\ HeldIn(stack'[t]) = HeldIn(f) /\ LoadingIn(stack'[t]) = LoadingIn(f)
        /\ PendingIn(stack'[t]) = PendingIn(f) /\ Len(f) + 1 \notin HeldIn(f)
    BY <2>2, <2>3, <2>4, PushSets DEF f
  <2>7. /\ HeldIn(stack[t]) = HeldIn(f) \cup (IF Holding(d) THEN {Len(f) + 1} ELSE {})
        /\ LoadingIn(stack[t]) = LoadingIn(f) \cup (IF LoadingFrame(d) THEN {Full(d)} ELSE {})
        /\ PendingIn(stack[t]) = PendingIn(f) \cup (IF PendingFrame(d) THEN {Full(d)} ELSE {})
    BY <2>2, PushSets
  <2>8. QED
    BY <2>2, <2>3, <2>5, <2>6, <2>7, Zenon DEF f, d
<1>3. QED
  BY <1>1, <1>2

(* While a thread is in use() no other loads a file.                       *)
LEMMA Excluded ==
  ASSUME Stacks, UseBalanced, NEW t \in Threads, Others(t), HeldIn(stack[t]) # {}
  PROVE  \A u \in Threads \ {t} : PendingIn(stack[u]) = {} /\ PendingIn(stack'[u]) = {}
<1>1. \A u \in Threads : HeldLevels(u) = HeldIn(stack[u])
  BY DEF HeldLevels, HeldIn
<1>2. \A u \in Threads \ {t} : HeldIn(stack[u]) = {}
  BY <1>1 DEF UseBalanced
<1>3. QED
  BY <1>2, LoadersHold DEF Others

(* A file begins to be loaded, or its load ends.                           *)
NoneElse(t) == \A u \in Threads \ {t} : LoadingIn(stack[u]) = {} /\ LoadingIn(stack'[u]) = {}
Begun(t, f) ==
  /\ NoneElse(t) /\ f \in Names /\ f \notin LoadingIn(stack[t]) /\ f \notin usedFiles
  /\ LoadingIn(stack'[t]) = LoadingIn(stack[t]) \cup {f}
Ended(t, f) ==
  /\ NoneElse(t) /\ f \in Names /\ f \notin LoadingIn(stack'[t]) /\ f \notin usedFiles
  /\ LoadingIn(stack[t]) = LoadingIn(stack'[t]) \cup {f}

LEMMA UseEnds ==
  ASSUME IInv, NEW t \in Threads, Running(t, "use"), Top(t).step \in {"loaded", "record"},
         Pop(t) \/ \E e \in Frames : NextTry(t, e), script' = script, status' = status, UnlockUse(t)
  PROVE  /\ Stacks' /\ Others(t) /\ ~AtMutex(t)' /\ Ended(t, Full(Top(t)))
         /\ UseBalanced' /\ useDepth' \in Nat /\ useOwner' \in Threads \cup {Nobody}
         /\ Full(Top(t)) \notin PendingIn(stack'[t])
         /\ PendingIn(stack'[t]) \cap usedFiles = {}
         /\ \A u \in Threads \ {t} : PendingIn(stack'[u]) = {}
<1>1. /\ Stacks /\ Owners /\ Fresh /\ UseBalanced
      /\ Holding(Top(t)) /\ LoadingFrame(Top(t)) /\ PendingFrame(Top(t))
  BY BothBalanced DEF IInv, Running, Holding, LoadingFrame, PendingFrame
<1>2. /\ Stacks' /\ Others(t) /\ ~AtMutex(t)'
      /\ HeldIn(stack[t]) = HeldIn(stack'[t]) \cup {Len(stack[t])}
      /\ LoadingIn(stack[t]) = LoadingIn(stack'[t]) \cup {Full(Top(t))}
      /\ PendingIn(stack[t]) = PendingIn(stack'[t]) \cup {Full(Top(t))}
      /\ Len(stack[t]) \notin HeldIn(stack'[t])
      /\ Full(Top(t)) \notin PendingIn(stack'[t])
  BY <1>1, CallLeft
<1>3. UseBalanced' /\ useDepth' \in Nat /\ useOwner' \in Threads \cup {Nobody}
  <2>1. HeldLevels(t) = HeldIn(stack[t]) /\ HeldLevels(t)' = HeldIn(stack'[t])
    BY DEF HeldLevels, HeldIn
  <2>2. Len(stack[t]) \in HeldLevels(t) /\ HeldLevels(t)' = HeldLevels(t) \ {Len(stack[t])}
    BY <1>2, <2>1
  <2>3. QED
    BY <1>1, <1>2, <2>2, UseUnlocked
<1>4. PendingIn(stack[t]) \cap usedFiles = {}
  BY <1>1 DEF Fresh
<1>5. \A u \in Threads \ {t} : PendingIn(stack[u]) = {} /\ PendingIn(stack'[u]) = {}
  BY <1>1, <1>2, Excluded
<1>6. LoadingIn(stack'[t]) \subseteq PendingIn(stack'[t]) /\ NoneElse(t)
  BY <1>5, LoadersHold DEF NoneElse
<1>7. Full(Top(t)) \in Names
  BY <1>1, CallFacts
<1>8. Ended(t, Full(Top(t)))
  BY <1>2, <1>4, <1>6, <1>7 DEF Ended
<1>9. QED
  BY <1>2, <1>3, <1>4, <1>5, <1>8

LEMMA UseRecordStep ==
  ASSUME IInv, NEW t \in Threads, UseRecord(t)
  PROVE  IInv' /\ Ended(t, Full(Top(t)))
<1> DEFINE F == Full(Top(t))
<1>1. /\ MutexBalanced /\ Recorded /\ Running(t, "use") /\ Top(t).step = "record" /\ AtMutex(t)
      /\ Pop(t) /\ script' = script /\ status' = status /\ UnlockUse(t) /\ mutexOwner' = Nobody
  BY BothBalanced DEF IInv, UseRecord, AtUse, AtMutex
<1>2. /\ Stacks' /\ Others(t) /\ ~AtMutex(t)' /\ Ended(t, F)
      /\ UseBalanced' /\ useDepth' \in Nat /\ useOwner' \in Threads \cup {Nobody}
      /\ F \notin PendingIn(stack'[t])
      /\ PendingIn(stack'[t]) \cap usedFiles = {}
      /\ \A u \in Threads \ {t} : PendingIn(stack'[u]) = {}
  BY <1>1, UseEnds
<1>3. /\ usedFiles' = usedFiles \cup {F} /\ completed' = [completed EXCEPT ![F] = @ + 1]
      /\ savedFiles' = savedFiles
  BY DEF UseRecord
<1>4. F \in Names /\ F \notin usedFiles
  BY <1>2 DEF Ended
<1> HIDE DEF F
<1>5. MutexBalanced'
  BY <1>1, <1>2, MutexUnlocked
<1>6. LocksBalanced' /\ Owners'
  BY <1>1, <1>2, <1>5 DEF LocksBalanced, UseBalanced, MutexBalanced, AtMutex, Owners
<1>7. Recorded'
  <2>1. completed[F] = 0
    BY <1>1, <1>4 DEF Recorded
  <2>2. completed' \in [Names -> 0..1] /\ completed'[F] = 1
        /\ \A x \in Names \ {F} : completed'[x] = completed[x]
    BY <1>1, <1>3, <1>4, <2>1 DEF Recorded
  <2>3. QED
    BY <1>1, <1>3, <1>4, <2>2 DEF Recorded
<1>8. Fresh'
  <2>1. \A u \in Threads : PendingIn(stack'[u]) \cap usedFiles' = {}
    BY <1>2, <1>3
  <2>2. QED
    BY <2>1 DEF Fresh, PendingIn, Full
<1>9. QED
  BY <1>2, <1>6, <1>7, <1>8 DEF IInv, F

(* The next path of a call.                                                *)
LEMMA NextTryFacts ==
  ASSUME Stacks, NEW t \in Threads, NEW step \in {"lock", "load"},
         \/ Running(t, "use") /\ step = "lock"
         \/ Running(t, "eval_file") /\ step = "load",
         NextPath(t, step)
  PROVE  Pop(t) \/ \E e \in Frames : NextTry(t, e)
<1>1. CASE Top(t).i < Len(UsePaths)
  <2> DEFINE e == Frame(Top(t).kind, Top(t).arg, Top(t).i + 1, step)
  <2>1. /\ Top(t) \in Frames /\ Top(t).arg \in Names
        /\ Top(t).i \in 1..Len(UsePaths) /\ Len(UsePaths) \in Nat
    BY CallFacts
  <2>2. Top(t).kind \in {"script", "use", "eval_file"} /\ Top(t).i + 1 \in Nat \ {0}
        /\ Top(t).i + 1 <= Len(UsePaths) /\ step \in Steps
    BY <1>1, <2>1 DEF Frames, Steps
  <2>3. /\ e \in Frames /\ e.kind = Top(t).kind /\ e.arg = Top(t).arg /\ e.i <= Len(UsePaths)
        /\ e.step = step
    BY <2>1, <2>2 DEF Frame, Frames
  <2>4. Become(t, e)
    BY <1>1 DEF NextPath
  <2> HIDE DEF e
  <2>5. ~Holding(e) /\ ~LoadingFrame(e) /\ ~PendingFrame(e)
    BY <2>3 DEF Holding, LoadingFrame, PendingFrame, Running
  <2>6. QED
    BY <2>3, <2>4, <2>5 DEF NextTry
<1>2. CASE ~(Top(t).i < Len(UsePaths))
  BY <1>2 DEF NextPath
<1>3. QED
  BY <1>1, <1>2

LEMMA UseCatchStep ==
  ASSUME IInv, NEW t \in Threads, UseCatch(t)
  PROVE  IInv' /\ Ended(t, Full(Top(t)))
<1>1. /\ Stacks /\ Owners /\ MutexBalanced /\ Recorded
      /\ Running(t, "use") /\ Top(t).step = "loaded" /\ ~AtMutex(t)
      /\ script' = script /\ status' = status /\ UnlockUse(t)
      /\ UNCHANGED <<mutexOwner, files>>
  BY BothBalanced DEF IInv, UseCatch, AtMutex
<1>2. Pop(t) \/ \E e \in Frames : NextTry(t, e)
  <2>1. Pop(t) \/ NextPath(t, "lock")
    BY DEF UseCatch
  <2>2. Stacks /\ Running(t, "use")
    BY <1>1
  <2>3. NextPath(t, "lock") => Pop(t) \/ \E e \in Frames : NextTry(t, e)
    BY <2>2, NextTryFacts
  <2>4. QED
    BY <2>1, <2>3
<1>3. /\ Stacks' /\ Others(t) /\ ~AtMutex(t)' /\ Ended(t, Full(Top(t)))
      /\ UseBalanced' /\ useDepth' \in Nat /\ useOwner' \in Threads \cup {Nobody}
      /\ PendingIn(stack'[t]) \cap usedFiles = {}
      /\ \A u \in Threads \ {t} : PendingIn(stack'[u]) = {}
  BY <1>1, <1>2, UseEnds
<1>4. MutexBalanced'
  BY <1>1, <1>3, MutexKept
<1>5. LocksBalanced' /\ Owners'
  BY <1>1, <1>3, <1>4 DEF LocksBalanced, UseBalanced, MutexBalanced, AtMutex, Owners
<1>6. Recorded'
  BY <1>1 DEF Recorded, files
<1>7. \A u \in Threads : PendingIn(stack'[u]) \cap usedFiles' = {}
  BY <1>1, <1>3 DEF files
<1>8. Fresh'
  BY <1>7 DEF Fresh, PendingIn, Full
<1>9. QED
  BY <1>3, <1>5, <1>6, <1>8 DEF IInv

LEMMA EvalReturnQuiet ==
  ASSUME IInv, NEW t \in Threads, EvalReturn(t)
  PROVE  IInv' /\ \A v \in Threads : Quiet(v)
<1>1. /\ Stacks /\ Running(t, "eval_file") /\ ~AtMutex(t)
      /\ script' = script /\ status' = status /\ UNCHANGED engine
      /\ ~Holding(Top(t)) /\ ~LoadingFrame(Top(t)) /\ ~PendingFrame(Top(t))
  BY DEF IInv, EvalReturn, AtMutex, Running, Holding, LoadingFrame, PendingFrame
<1>2. Pop(t) \/ \E e \in Frames : NextTry(t, e)
  <2>1. Pop(t) \/ NextPath(t, "load")
    BY DEF EvalReturn
  <2>2. NextPath(t, "load") => Pop(t) \/ \E e \in Frames : NextTry(t, e)
    BY <1>1, NextTryFacts
  <2>3. QED
    BY <2>1, <2>2
<1>3. /\ Stacks' /\ Others(t) /\ ~AtMutex(t)'
      /\ HeldIn(stack[t]) = HeldIn(stack'[t]) /\ LoadingIn(stack[t]) = LoadingIn(stack'[t])
      /\ PendingIn(stack[t]) = PendingIn(stack'[t])
  BY <1>1, <1>2, CallLeft
<1>4. Quiet(t)
  BY <1>3 DEF Quiet
<1>5. QED
  BY <1>1, <1>3, <1>4, QuietOthers, QuietStep

(* The file starts, or is not there: the call is loading it either way.    *)
LEMMA LoadMoves ==
  ASSUME IInv, NEW t \in Threads, Load(t)
  PROVE  /\ Stacks' /\ Others(t) /\ ~AtMutex(t) /\ ~AtMutex(t)'
         /\ HeldIn(stack'[t]) = HeldIn(stack[t]) /\ PendingIn(stack'[t]) = PendingIn(stack[t])
         /\ LoadingIn(stack'[t]) = LoadingIn(stack[t])
                \cup (IF Top(t).kind = "use" THEN {Full(Top(t))} ELSE {})
         /\ Full(Top(t)) \in Names /\ Full(Top(t)) \notin LoadingIn(stack[t])
         /\ Top(t).kind = "use" => Full(Top(t)) \in PendingIn(stack[t])
<1> DEFINE f == Front(stack[t])
           d == Top(t)
<1>1. /\ Stacks /\ (Running(t, "use") \/ Running(t, "eval_file"))
      /\ d.step = "load" /\ script' = script /\ status' = status
  BY DEF IInv, Load
<1>2. /\ stack[t] # <<>> /\ f \in Seq(Frames) /\ d \in Frames /\ stack[t] = Append(f, d)
      /\ TopOK(f, d, t) /\ d.i <= Len(UsePaths)
      /\ Full(d) \in Names /\ Full(d) \notin PendingIn(f)
      /\ d.kind \in {"use", "eval_file"}
  BY <1>1, CallFacts DEF Running
<1>3. \E e \in Frames :
        /\ Stacks' /\ Others(t) /\ ~AtMutex(t)'
        /\ e.kind = d.kind /\ e.step = "loaded" /\ Full(e) = Full(d)
        /\ HeldIn(stack'[t]) = HeldIn(Append(f, e))
        /\ LoadingIn(stack'[t]) = LoadingIn(Append(f, e))
        /\ PendingIn(stack'[t]) = PendingIn(Append(f, e))
  <2>1. CASE Full(d) \in OnDisk
    <3> DEFINE e == [d EXCEPT !.step = "loaded"]
               g == ScriptFrame(Full(d))
    <3>1. stack' = [stack EXCEPT ![t] = Append(Append(Front(@), e), g)]
      BY <2>1 DEF Load
    <3>2. g \in Frames /\ g.kind = "script" /\ g.arg = Full(d)
      BY <1>2 DEF ScriptFrame, Frame, Frames, Steps
    <3> HIDE DEF d
    <3>3. /\ e \in Frames /\ e.kind = d.kind /\ e.arg = d.arg /\ e.i = d.i /\ e.step = "loaded"
          /\ Full(e) = Full(d)
      <4>1. "loaded" \in Steps
        BY DEF Steps
      <4>2. QED
        BY <1>2, <4>1, NextStep
    <3> HIDE DEF e, g
    <3>4. TopOK(f, e, t)
      BY <1>2, <3>3 DEF TopOK
    <3> DEFINE h == Append(f, e)
    <3>5. h \in Seq(Frames) /\ h # <<>> /\ Last(h) = e
      <4> HIDE DEF f
      <4>1. QED
        BY <1>2, <3>3, PushFacts
    <3> HIDE DEF h
    <3>6. TopOK(h, g, t)
      BY <1>2, <2>1, <3>2, <3>3, <3>5 DEF TopOK
    <3>7. Stacks' /\ Others(t) /\ stack'[t] = Append(h, g) /\ Top(t)' = g
      BY <1>1, <1>2, <3>1, <3>2, <3>3, <3>4, <3>6, TopPushed DEF h
    <3>8. ~AtMutex(t)'
      BY <3>2, <3>7 DEF AtMutex, Running
    <3>9. /\ HeldIn(stack'[t]) = HeldIn(h) /\ LoadingIn(stack'[t]) = LoadingIn(h)
          /\ PendingIn(stack'[t]) = PendingIn(h)
      BY <3>2, <3>5, <3>7, ScriptSets
    <3>10. QED
      BY <3>3, <3>7, <3>8, <3>9 DEF h
  <2>2. CASE Full(d) \notin OnDisk
    <3>1. GoTo(t, "loaded") /\ "loaded" \in Steps
      BY <2>2 DEF Load, Steps
    <3>2. PICK e \in Frames :
            /\ Stacks' /\ Others(t) /\ stack'[t] = Append(f, e)
            /\ Top(t)' = e /\ e.kind = d.kind /\ e.step = "loaded" /\ Full(e) = Full(d)
      BY <1>1, <3>1, CallMoved
    <3>3. ~AtMutex(t)'
      BY <3>2 DEF AtMutex
    <3>4. QED
      BY <3>2, <3>3
  <2>3. QED
    BY <2>1, <2>2
<1>4. ~AtMutex(t)
  BY <1>1 DEF AtMutex
<1>5. PICK e \in Frames :
        /\ Stacks' /\ Others(t) /\ ~AtMutex(t)'
        /\ e.kind = d.kind /\ e.step = "loaded" /\ Full(e) = Full(d)
        /\ HeldIn(stack'[t]) = HeldIn(Append(f, e))
        /\ LoadingIn(stack'[t]) = LoadingIn(Append(f, e))
        /\ PendingIn(stack'[t]) = PendingIn(Append(f, e))
  BY <1>3
<1>6. /\ Holding(e) <=> d.kind = "use"
      /\ LoadingFrame(e) <=> d.kind = "use"
      /\ PendingFrame(e) <=> d.kind = "use"
      /\ Holding(d) <=> d.kind = "use"
      /\ ~LoadingFrame(d)
      /\ PendingFrame(d) <=> d.kind = "use"
  BY <1>1, <1>5 DEF Holding, LoadingFrame, PendingFrame
<1> HIDE DEF d, f
<1>7. /\ HeldIn(stack'[t]) = HeldIn(f) \cup (IF Holding(e) THEN {Len(f) + 1} ELSE {})
      /\ LoadingIn(stack'[t]) = LoadingIn(f) \cup (IF LoadingFrame(e) THEN {Full(e)} ELSE {})
      /\ PendingIn(stack'[t]) = PendingIn(f) \cup (IF PendingFrame(e) THEN {Full(e)} ELSE {})
  BY <1>2, <1>5, PushSets
<1>8. /\ HeldIn(stack[t]) = HeldIn(f) \cup (IF Holding(d) THEN {Len(f) + 1} ELSE {})
      /\ LoadingIn(stack[t]) = LoadingIn(f) \cup (IF LoadingFrame(d) THEN {Full(d)} ELSE {})
      /\ PendingIn(stack[t]) = PendingIn(f) \cup (IF PendingFrame(d) THEN {Full(d)} ELSE {})
  BY <1>2, PushSets
<1>9. LoadingIn(f) \subseteq PendingIn(f)
  BY LoadersHold
<1>10. /\ HeldIn(stack'[t]) = HeldIn(stack[t]) /\ PendingIn(stack'[t]) = PendingIn(stack[t])
       /\ LoadingIn(stack'[t]) = LoadingIn(stack[t]) \cup (IF d.kind = "use" THEN {Full(d)} ELSE {})
       /\ Full(d) \notin LoadingIn(stack[t])
       /\ d.kind = "use" => Full(d) \in PendingIn(stack[t])
  <2>1. CASE d.kind = "use"
    BY <1>2, <1>5, <1>6, <1>7, <1>8, <1>9, <2>1, Zenon
  <2>2. CASE d.kind # "use"
    BY <1>2, <1>5, <1>6, <1>7, <1>8, <1>9, <2>2, Zenon
  <2>3. QED
    BY <2>1, <2>2
<1>11. QED
  BY <1>2, <1>4, <1>5, <1>10 DEF d

LEMMA LoadStep ==
  ASSUME IInv, NEW t \in Threads, Load(t)
  PROVE  /\ IInv'
         /\ (\A v \in Threads : LoadingIn(stack'[v]) = LoadingIn(stack[v])) \/ Begun(t, Full(Top(t)))
<1>1. Stacks /\ Owners /\ Recorded /\ Fresh /\ UseBalanced /\ MutexBalanced
  BY BothBalanced DEF IInv
<1>2. /\ Stacks' /\ Others(t) /\ ~AtMutex(t) /\ ~AtMutex(t)'
      /\ HeldIn(stack'[t]) = HeldIn(stack[t]) /\ PendingIn(stack'[t]) = PendingIn(stack[t])
      /\ LoadingIn(stack'[t]) = LoadingIn(stack[t])
             \cup (IF Top(t).kind = "use" THEN {Full(Top(t))} ELSE {})
      /\ Full(Top(t)) \in Names /\ Full(Top(t)) \notin LoadingIn(stack[t])
      /\ Top(t).kind = "use" => Full(Top(t)) \in PendingIn(stack[t])
  BY LoadMoves
<1>3. UNCHANGED engine
  BY DEF Load
<1>4. UseBalanced'
  <2>1. HeldLevels(t)' = HeldLevels(t)
    BY <1>2 DEF HeldLevels, HeldIn
  <2>2. QED
    BY <1>1, <1>2, <1>3, <2>1, UseKept DEF engine
<1>5. MutexBalanced'
  BY <1>1, <1>2, <1>3, MutexKept DEF engine
<1>6. Recorded' /\ Fresh'
  BY <1>1, <1>2, <1>3, FilesKept DEF engine
<1>7. LocksBalanced' /\ Owners'
  BY <1>1, <1>3, <1>4, <1>5 DEF LocksBalanced, UseBalanced, MutexBalanced, AtMutex, Owners, engine
<1>8. CASE Top(t).kind = "use"
  <2>1. PendingIn(stack[t]) \cap usedFiles = {} /\ HeldIn(stack[t]) # {}
    BY <1>1, <1>2, <1>8, LoadersHold DEF Fresh
  <2>2. \A u \in Threads \ {t} : PendingIn(stack[u]) = {} /\ PendingIn(stack'[u]) = {}
    BY <1>1, <1>2, <2>1, Excluded
  <2>3. NoneElse(t)
    BY <2>2, LoadersHold DEF NoneElse
  <2>4. Begun(t, Full(Top(t)))
    BY <1>2, <1>8, <2>1, <2>3 DEF Begun
  <2>5. QED
    BY <1>2, <1>6, <1>7, <2>4 DEF IInv
<1>9. CASE Top(t).kind # "use"
  BY <1>2, <1>6, <1>7, <1>9 DEF IInv, Others
<1>10. QED
  BY <1>8, <1>9
-----------------------------------------------------------------------------
LEMMA InitIInv == Init => IInv
<1> SUFFICES ASSUME Init PROVE IInv
  OBVIOUS
<1> USE DEF Init
<1>1. ASSUME NEW t \in Threads PROVE stack[t] \in Seq(Frames) /\ StackOK(stack[t], t)
  <2>1. CASE t \in Hosts
    <3>1. stack[t] = << ScriptFrame(t) >>
      BY <2>1
    <3>2. /\ ScriptFrame(t) \in Frames /\ ScriptFrame(t).kind = "script"
          /\ ScriptFrame(t).arg = t
      BY DEF ScriptFrame, Frame, Frames, Steps
    <3> DEFINE g == ScriptFrame(t)
    <3> HIDE DEF g
    <3>3. stack[t] = << g >> /\ g \in Frames /\ g.kind = "script" /\ g.arg = t
      BY <3>1, <3>2 DEF g
    <3>4. QED
      BY <3>3 DEF StackOK, LevelOK
  <2>2. CASE t \notin Hosts
    BY <2>2 DEF StackOK
  <2>3. QED
    BY <2>1, <2>2
<1>2. /\ stack \in [Threads -> Seq(Frames)]
      /\ status \in [Threads -> {"new", "running", "finished"}]
      /\ \A t \in Threads : status[t] # "running" => stack[t] = <<>>
  <2>1. \A t \in Threads : stack[t] \in Seq(Frames)
    BY <1>1
  <2>2. stack = [t \in Threads |-> stack[t]]
    OBVIOUS
  <2>3. stack \in [Threads -> Seq(Frames)]
    BY <2>1, <2>2
  <2>4. QED
    BY <2>3
<1>3. Stacks
  BY <1>1, <1>2 DEF Stacks
<1>4. Owners
  BY DEF Owners
<1>5. ASSUME NEW t \in Threads PROVE HeldIn(stack[t]) = {} /\ PendingIn(stack[t]) = {} /\ ~AtMutex(t)
  <2>1. \A k \in 1..Len(stack[t]) : stack[t][k].kind = "script"
    BY DEF ScriptFrame, Frame
  <2>2. HeldIn(stack[t]) = {} /\ PendingIn(stack[t]) = {}
    BY <2>1 DEF HeldIn, PendingIn, Holding, PendingFrame
  <2>3. stack[t] # <<>> => Top(t).kind = "script"
    <3>1. stack[t] # <<>> => Len(stack[t]) \in 1..Len(stack[t])
      BY <1>1
    <3>2. QED
      BY <2>1, <3>1 DEF Top, Last
  <2>4. QED
    BY <2>2, <2>3 DEF AtMutex, Running
<1>6. LocksBalanced
  <2>1. UseBalanced
    BY <1>5 DEF UseBalanced, HeldLevels, HeldIn
  <2>2. MutexBalanced
    BY <1>5, EngineAssumption DEF MutexBalanced
  <2>3. QED
    BY <2>1, <2>2, BothBalanced
<1>7. Recorded
  BY DEF Recorded
<1>8. Fresh
  BY <1>5 DEF Fresh
<1>9. QED
  BY <1>3, <1>4, <1>6, <1>7, <1>8 DEF IInv

(* What a step does to the files: nothing; a load begins, or ends with the *)
(* file recorded or not; the state is saved, or restored, between loads.   *)
SameLoads == \A v \in Threads : LoadingIn(stack'[v]) = LoadingIn(stack[v])
NoLoads == \A v \in Threads : LoadingIn(stack[v]) = {}
Effect ==
  \/ SameLoads /\ UNCHANGED <<usedFiles, savedFiles>>
  \/ \E t \in Threads, f \in Names : Begun(t, f) /\ UNCHANGED <<usedFiles, savedFiles>>
  \/ \E t \in Threads, f \in Names :
       Ended(t, f) /\ usedFiles' \in {usedFiles, usedFiles \cup {f}} /\ UNCHANGED savedFiles
  \/ SameLoads /\ NoLoads /\ savedFiles' = usedFiles /\ UNCHANGED usedFiles
  \/ SameLoads /\ NoLoads /\ usedFiles' = savedFiles /\ UNCHANGED savedFiles

LEMMA StepIInv ==
  ASSUME IInv, NEW t \in Threads, Step(t)
  PROVE  IInv' /\ Effect
<1>1. ASSUME IInv', \A v \in Threads : Quiet(v), UNCHANGED engine PROVE IInv' /\ Effect
  BY <1>1 DEF Effect, SameLoads, Quiet, engine
<1>2. CASE Use(t) \/ EvalFile(t)
  BY <1>1, <1>2, CallQuiet DEF Use, EvalFile, CallEngine
<1>3. CASE Throw(t) \/ Wait(t)
  BY <1>1, <1>3, ThrowWaitQuiet DEF Throw, Wait
<1>4. CASE GetState(t)
  <2>1. IInv' /\ SameLoads
    BY <1>4, GetStateStep DEF SameLoads, Quiet
  <2>2. NoLoads
    BY <1>4, NothingLoads DEF NoLoads, GetState
  <2>3. QED
    BY <1>4, <2>1, <2>2 DEF Effect, GetState
<1>5. CASE SetState(t)
  <2>1. IInv' /\ SameLoads
    BY <1>5, SetStateStep DEF SameLoads, Quiet
  <2>2. NoLoads
    BY <1>5, NothingLoads DEF NoLoads, SetState
  <2>3. QED
    BY <1>5, <2>1, <2>2 DEF Effect, SetState
<1>6. CASE Async(t)
  BY <1>1, <1>6, AsyncQuiet DEF Async
<1>7. CASE EndScript(t) \/ Unwind(t)
  BY <1>1, <1>7, LeaveQuiet DEF EndScript, Unwind
<1>8. CASE Catch(t)
  BY <1>1, <1>8, CatchQuiet DEF Catch
<1>9. CASE UseLock(t)
  BY <1>9, UseLockStep DEF Effect, SameLoads, UseLock, files
<1>10. CASE UseLock2(t) \/ UseRelock(t)
  BY <1>10, UseLock2Step DEF Effect, SameLoads, UseLock2, UseRelock, files
<1>11. CASE UseTest(t)
  BY <1>11, UseTestStep DEF Effect, SameLoads, UseTest, files
<1>12. CASE Load(t)
  <2>1. IInv' /\ (SameLoads \/ Begun(t, Full(Top(t))))
    BY <1>12, LoadStep DEF SameLoads
  <2>2. UNCHANGED <<usedFiles, savedFiles>>
    BY <1>12 DEF Load, engine
  <2>3. Begun(t, Full(Top(t))) => Full(Top(t)) \in Names
    BY DEF Begun
  <2>4. QED
    BY <2>1, <2>2, <2>3 DEF Effect
<1>13. CASE UseRecord(t)
  <2>1. IInv' /\ Ended(t, Full(Top(t)))
    BY <1>13, UseRecordStep
  <2>2. Full(Top(t)) \in Names
    BY <2>1 DEF Ended
  <2>3. usedFiles' = usedFiles \cup {Full(Top(t))} /\ UNCHANGED savedFiles
    BY <1>13 DEF UseRecord
  <2>4. QED
    BY <2>1, <2>2, <2>3 DEF Effect
<1>14. CASE UseCatch(t)
  <2>1. IInv' /\ Ended(t, Full(Top(t)))
    BY <1>14, UseCatchStep
  <2>2. Full(Top(t)) \in Names
    BY <2>1 DEF Ended
  <2>3. UNCHANGED <<usedFiles, savedFiles>>
    BY <1>14 DEF UseCatch, files
  <2>4. QED
    BY <2>1, <2>2, <2>3 DEF Effect
<1>15. CASE EvalReturn(t)
  BY <1>1, <1>15, EvalReturnQuiet DEF EvalReturn
<1>16. QED
  BY <1>2, <1>3, <1>4, <1>5, <1>6, <1>7, <1>8, <1>9, <1>10, <1>11, <1>12, <1>13, <1>14, <1>15 DEF Step

LEMMA NextIInv == IInv /\ [Next]_vars => IInv' /\ Effect
<1> SUFFICES ASSUME IInv, [Next]_vars PROVE IInv' /\ Effect
  OBVIOUS
<1>1. CASE Next
  BY <1>1, StepIInv DEF Next
<1>2. CASE UNCHANGED vars
  <2>1. Stacks' /\ Owners' /\ LocksBalanced' /\ Recorded' /\ Fresh'
    BY <1>2 DEF IInv, Stacks, Owners, LocksBalanced, Recorded, Fresh, vars, HeldLevels, Running, Top
  <2>2. Effect
    BY <1>2 DEF Effect, SameLoads, vars
  <2>3. QED
    BY <2>1, <2>2 DEF IInv
<1>3. QED
  BY <1>1, <1>2
-----------------------------------------------------------------------------
(* On every way through use() and eval_file(), by any number of threads,   *)
(* the two mutexes are held as often as there are calls that locked them.  *)
THEOREM LocksAreBalanced == Spec => []LocksBalanced
<1>1. IInv => LocksBalanced
  BY DEF IInv
<1>2. QED
  BY InitIInv, NextIInv, <1>1, PTL DEF Spec

(* use evaluates a file to its end once, and again only after set_state    *)
(* forgot it: m_used_files is the set of the files evaluated.              *)
THEOREM EvaluatedOnlyOnce == Spec => []EvaluatedOnce
<1>1. IInv => EvaluatedOnce
  <2> SUFFICES ASSUME IInv PROVE EvaluatedOnce
    OBVIOUS
  <2>1. completed \in [Names -> 0..1] /\ usedFiles = { f \in Names : completed[f] = 1 }
    BY DEF IInv, Recorded
  <2>2. \A f \in Names : completed[f] \in 0..1
    BY <2>1
  <2>3. QED
    BY <2>1, <2>2 DEF EvaluatedOnce
<1>2. QED
  BY InitIInv, NextIInv, <1>1, PTL DEF Spec
-----------------------------------------------------------------------------
(* The state of each file, by what the stacks load.                        *)
LEMMA LoadStateIs ==
  /\ LoadState = [f \in Names |->
       IF \E t \in Threads : f \in LoadingIn(stack[t]) THEN "loading"
       ELSE IF f \in usedFiles THEN "loaded" ELSE "absent"]
  /\ LoadState' = [f \in Names |->
       IF \E t \in Threads : f \in LoadingIn(stack'[t]) THEN "loading"
       ELSE IF f \in usedFiles' THEN "loaded" ELSE "absent"]
<1>1. \A s : \A f : f \in LoadingIn(s) <=> \E k \in 1..Len(s) : LoadingFrame(s[k]) /\ Full(s[k]) = f
  BY DEF LoadingIn
<1>2. /\ \A f \in Names : (\E t \in Threads : \E k \in 1..Len(stack[t]) :
           Loading(t, k) /\ Full(stack[t][k]) = f) <=> \E t \in Threads : f \in LoadingIn(stack[t])
      /\ \A f \in Names : (\E t \in Threads : \E k \in 1..Len(stack'[t]) :
           Loading(t, k)' /\ Full(stack'[t][k]) = f) <=> \E t \in Threads : f \in LoadingIn(stack'[t])
  BY <1>1 DEF Loading, LoadingFrame
<1>3. QED
  BY <1>2 DEF LoadState, Full

LEMMA EffectLoads ==
  ASSUME IInv, Effect
  PROVE  [Loader!Next]_<<LoadState, savedFiles>>
<1>1. usedFiles \subseteq Names /\ savedFiles \subseteq Names
  BY DEF IInv, Recorded
<1>2. \A t \in Threads : LoadingIn(stack[t]) \cap usedFiles = {}
  BY LoadersHold DEF IInv, Fresh
<1>3. CASE SameLoads /\ UNCHANGED <<usedFiles, savedFiles>>
  <2>1. LoadState' = LoadState
    BY <1>3, LoadStateIs DEF SameLoads
  <2>2. QED
    BY <1>3, <2>1
<1>4. ASSUME NEW t \in Threads, NEW f \in Names, Begun(t, f), UNCHANGED <<usedFiles, savedFiles>>
      PROVE  Loader!Begin(f)
  <2>1. LoadState[f] = "absent"
    BY <1>4, LoadStateIs DEF Begun, NoneElse
  <2>2. /\ f \in LoadingIn(stack'[t])
        /\ \A x \in Names \ {f} : \A u \in Threads :
             x \in LoadingIn(stack'[u]) <=> x \in LoadingIn(stack[u])
    BY <1>4 DEF Begun, NoneElse
  <2>3. LoadState' = [LoadState EXCEPT ![f] = "loading"]
    BY <1>4, <2>2, LoadStateIs
  <2>4. QED
    BY <1>4, <2>1, <2>3 DEF Loader!Begin
<1>5. ASSUME NEW t \in Threads, NEW f \in Names, Ended(t, f), UNCHANGED savedFiles,
             usedFiles' \in {usedFiles, usedFiles \cup {f}}
      PROVE  Loader!Finish(f) \/ Loader!Fail(f)
  <2>1. LoadState[f] = "loading"
    BY <1>5, LoadStateIs DEF Ended
  <2>2. CASE usedFiles' = usedFiles \cup {f}
    <3>1. /\ f \in usedFiles' /\ \A u \in Threads : f \notin LoadingIn(stack'[u])
          /\ \A x \in Names \ {f} : x \in usedFiles' <=> x \in usedFiles
          /\ \A x \in Names \ {f} : \A u \in Threads :
               x \in LoadingIn(stack'[u]) <=> x \in LoadingIn(stack[u])
      BY <1>5, <2>2 DEF Ended, NoneElse
    <3>2. LoadState' = [LoadState EXCEPT ![f] = "loaded"]
      BY <1>5, <3>1, LoadStateIs
    <3>3. QED
      BY <1>5, <2>1, <3>2 DEF Loader!Finish
  <2>3. CASE usedFiles' = usedFiles
    <3>1. /\ f \notin usedFiles /\ \A u \in Threads : f \notin LoadingIn(stack'[u])
          /\ \A x \in Names \ {f} : \A u \in Threads :
               x \in LoadingIn(stack'[u]) <=> x \in LoadingIn(stack[u])
      BY <1>5 DEF Ended, NoneElse
    <3>2. LoadState' = [LoadState EXCEPT ![f] = "absent"]
      BY <2>3, <3>1, LoadStateIs
    <3>3. QED
      BY <1>5, <2>1, <3>2 DEF Loader!Fail
  <2>4. QED
    BY <1>5, <2>2, <2>3
<1>6. NoLoads => Loader!Quiet /\ Loader!Loaded = usedFiles
  BY <1>1, LoadStateIs DEF NoLoads, Loader!Quiet, Loader!Loaded
<1>7. CASE SameLoads /\ NoLoads /\ savedFiles' = usedFiles /\ UNCHANGED usedFiles
  <2>1. LoadState' = LoadState
    BY <1>7, LoadStateIs DEF SameLoads
  <2>2. Loader!Save
    BY <1>6, <1>7, <2>1 DEF Loader!Save
  <2>3. QED
    BY <2>2 DEF Loader!Next
<1>8. CASE SameLoads /\ NoLoads /\ usedFiles' = savedFiles /\ UNCHANGED savedFiles
  <2>1. LoadState' = [f \in Names |-> IF f \in savedFiles THEN "loaded" ELSE "absent"]
    BY <1>8, LoadStateIs DEF SameLoads, NoLoads
  <2>2. Loader!Restore
    BY <1>6, <1>8, <2>1 DEF Loader!Restore
  <2>3. QED
    BY <2>2 DEF Loader!Next
<1>9. QED
  BY <1>3, <1>4, <1>5, <1>7, <1>8 DEF Effect, Loader!Next

(* use() and the host's saved states implement OnceLoader: a file is       *)
(* loaded by one call at a time, from absent to loaded or back, and states *)
(* are saved and restored between loads.                                   *)
THEOREM ImplementsOnceLoader == Spec => LoaderSpec
<1>1. Init => Loader!Init
  <2> SUFFICES ASSUME Init PROVE Loader!Init
    OBVIOUS
  <2>1. \A t \in Threads : LoadingIn(stack[t]) = {}
    BY DEF Init, LoadingIn, LoadingFrame, ScriptFrame, Frame
  <2>2. LoadState = [f \in Names |-> "absent"]
    BY <2>1, LoadStateIs DEF Init
  <2>3. QED
    BY <2>2 DEF Init, Loader!Init
<1>2. IInv /\ [Next]_vars => [Loader!Next]_<<LoadState, savedFiles>>
  BY NextIInv, EffectLoads
<1>3. QED
  BY InitIInv, NextIInv, <1>1, <1>2, PTL DEF Spec, LoaderSpec, Loader!Spec
-----------------------------------------------------------------------------
(* Exceptions in flight: what file_not_found_error names is on no disk.    *)
(* For use that takes what its call has tried: when it gives up, a name as *)
(* it is written has been looked for as it is written.                     *)
Exns == [kind : {"none", "file_not_found", "error"}, file : Names \cup {""}]
Apart(kind, arg) ==
  arg \in OnDisk => kind = "use" /\ \E d \in 1..Len(UsePaths) : FullName[<<UsePaths[d], arg>>] = arg
Tried(fr) ==
  fr.kind # "script" =>
    /\ Apart(fr.kind, fr.arg)
    /\ fr.kind = "use" => \A d \in 1..(fr.i - 1) : FullName[<<UsePaths[d], fr.arg>>] \notin OnDisk
AllTried(s) == \A k \in 1..Len(s) : Tried(s[k])

Missing(e) == e.kind = "file_not_found" => e.file \notin OnDisk
Failures ==
  /\ exn \in [Threads -> Exns]
  /\ \A t \in Threads : Missing(exn[t]) /\ AllTried(stack[t])

LEMMA TriedPushed ==
  ASSUME NEW s \in Seq(Frames), NEW e \in Frames, AllTried(s), Tried(e)
  PROVE  AllTried(Append(s, e))
<1>1. /\ Len(Append(s, e)) = Len(s) + 1 /\ Append(s, e)[Len(s) + 1] = e /\ Len(s) \in Nat
      /\ \A i \in 1..Len(s) : Append(s, e)[i] = s[i]
  BY PushFacts
<1>2. QED
  BY <1>1 DEF AllTried

LEMMA TriedBelow ==
  ASSUME NEW s \in Seq(Frames), s # <<>>, AllTried(s)
  PROVE  AllTried(Front(s)) /\ Tried(Last(s))
<1>1. /\ Len(Front(s)) = Len(s) - 1 /\ Len(s) \in Nat /\ Len(s) > 0
      /\ \A i \in 1..(Len(s) - 1) : Front(s)[i] = s[i]
  BY FrontFacts, LastFacts
<1>2. QED
  BY <1>1 DEF AllTried, Last

(* A step of one thread.                                                   *)
LEMMA OneFails ==
  ASSUME Stacks, Failures, NEW t \in Threads, NEW r, AllTried(r),
         stack' = [stack EXCEPT ![t] = r],
         NEW e \in Exns, Missing(e), exn' = [exn EXCEPT ![t] = e]
  PROVE  Failures'
<1>1. exn' \in [Threads -> Exns] /\ \A u \in Threads : exn'[u] = IF u = t THEN e ELSE exn[u]
  BY DEF Failures
<1>2. \A u \in Threads : stack'[u] = IF u = t THEN r ELSE stack[u]
  BY DEF Stacks
<1>3. \A u \in Threads : Missing(exn'[u]) /\ AllTried(stack'[u])
  BY <1>1, <1>2 DEF Failures
<1>4. QED
  BY <1>1, <1>3 DEF Failures, AllTried, Tried, Apart, Missing

LEMMA NoneFails ==
  ASSUME Stacks, Failures, NEW t \in Threads, NEW r, AllTried(r),
         stack' = [stack EXCEPT ![t] = r], UNCHANGED exn
  PROVE  Failures'
<1>1. exn[t] \in Exns /\ Missing(exn[t]) /\ exn' = [exn EXCEPT ![t] = exn[t]]
  BY DEF Failures
<1>2. QED
  BY <1>1, OneFails

LEMMA StackTried ==
  ASSUME Stacks, Failures, NEW t \in Threads, stack[t] # <<>>
  PROVE  /\ stack[t] \in Seq(Frames) /\ Front(stack[t]) \in Seq(Frames) /\ Top(t) \in Frames
         /\ AllTried(Front(stack[t])) /\ Tried(Top(t))
<1>1. stack[t] \in Seq(Frames) /\ AllTried(stack[t])
  BY DEF Stacks, Failures
<1>2. QED
  BY <1>1, TriedBelow, TopFacts DEF Top

LEMMA AdvancedTried ==
  ASSUME Stacks, Failures, NEW t \in Threads, stack[t] # <<>>, Top(t).kind = "script"
  PROVE  /\ Advanced(t) \in Frames /\ Append(Front(stack[t]), Advanced(t)) \in Seq(Frames)
         /\ AllTried(Append(Front(stack[t]), Advanced(t)))
<1>1. /\ Front(stack[t]) \in Seq(Frames) /\ Top(t) \in Frames
      /\ AllTried(Front(stack[t]))
  BY StackTried
<1>2. Advanced(t) \in Frames /\ Advanced(t).kind = "script"
  BY <1>1 DEF Advanced, Frames
<1>3. QED
  BY <1>1, <1>2, TriedPushed, PushFacts DEF Tried

LEMMA EngineCalled ==
  ASSUME Stacks, Failures, NamesApart, NEW t \in Threads, Use(t) \/ EvalFile(t)
  PROVE  Failures'
<1>1. PICK o \in {"use", "eval_file"}, st \in Steps : CallEngine(t, o, st)
  BY DEF Use, EvalFile, Steps
<1>2. /\ stack[t] # <<>> /\ Top(t).kind = "script" /\ exn' = exn
      /\ Top(t).i <= Len(script[Top(t).arg]) /\ script[Top(t).arg][Top(t).i].op = o
  BY <1>1 DEF CallEngine, AtOp, Running
<1>3. /\ Top(t) \in Frames /\ script[Top(t).arg] \in Seq(Op)
      /\ Top(t).arg \in Threads \cup OnDisk /\ script \in Programs
  BY <1>2, ScriptFacts, StackTried DEF Stacks
<1>4. Top(t).i \in 1..Len(script[Top(t).arg])
  BY <1>2, <1>3 DEF Frames
<1>5. Apart(o, Arg(t))
  BY <1>2, <1>3, <1>4 DEF NamesApart, Apart, Arg
<1>6. Arg(t) \in Names
  <2>1. script[Top(t).arg][Top(t).i] \in Op
    BY <1>3, <1>4
  <2>2. QED
    BY <1>1, <1>2, <2>1 DEF Op, Arg
<1> DEFINE g == Frame(o, Arg(t), 1, st)
<1>7. g \in Frames /\ Tried(g)
  BY <1>1, <1>5, <1>6 DEF Frame, Frames, Tried
<1> HIDE DEF g
<1>8. AllTried(Append(Append(Front(stack[t]), Advanced(t)), g))
  BY <1>2, <1>7, AdvancedTried, TriedPushed
<1>9. stack' = [stack EXCEPT ![t] = Append(Append(Front(stack[t]), Advanced(t)), g)]
  BY <1>1 DEF CallEngine, g
<1>10. QED
  BY <1>2, <1>8, <1>9, NoneFails

(* Steps of a script that call no file.                                    *)
LEMMA ScriptFails ==
  ASSUME Stacks, Failures, NEW t \in Threads,
         Throw(t) \/ Wait(t) \/ GetState(t) \/ SetState(t)
  PROVE  Failures'
<1>1. stack[t] # <<>> /\ Top(t).kind = "script" /\ Advance(t)
  BY DEF Throw, Wait, GetState, SetState, AtOp, Running
<1>2. AllTried(Append(Front(stack[t]), Advanced(t)))
  BY <1>1, AdvancedTried
<1>3. stack' = [stack EXCEPT ![t] = Append(Front(stack[t]), Advanced(t))]
  BY <1>1 DEF Advance, Become
<1>4. CASE Throw(t)
  <2>1. OtherError \in Exns /\ Missing(OtherError)
    BY DEF OtherError, Exns, Missing
  <2>2. QED
    BY <1>2, <1>3, <1>4, <2>1, OneFails DEF Throw, Raise
<1>5. CASE Wait(t)
  <2>1. /\ Top(t) \in Frames /\ script[Top(t).arg] \in Seq(Op)
        /\ Top(t).i <= Len(script[Top(t).arg]) /\ script[Top(t).arg][Top(t).i].op = "wait"
    BY <1>1, <1>5, ScriptFacts, StackTried DEF Wait, AtOp
  <2>2. script[Top(t).arg][Top(t).i] \in Op
    BY <2>1 DEF Frames
  <2>3. Arg(t) \in Threads
    BY <2>1, <2>2 DEF Op, Arg
  <2>4. exn[Arg(t)] \in Exns /\ Missing(exn[Arg(t)])
    BY <2>3 DEF Failures
  <2>5. QED
    BY <1>2, <1>3, <1>5, <2>4, OneFails DEF Wait, Raise
<1>6. CASE GetState(t) \/ SetState(t)
  BY <1>2, <1>3, <1>6, NoneFails DEF GetState, SetState
<1>7. QED
  BY <1>4, <1>5, <1>6

LEMMA AsyncFails ==
  ASSUME Stacks, Failures, NEW t \in Threads, Async(t)
  PROVE  Failures'
<1> DEFINE r == Append(Front(stack[t]), Advanced(t))
<1>1. stack[t] # <<>> /\ Top(t).kind = "script" /\ exn' = exn
  BY DEF Async, AtOp, Running
<1>2. AllTried(r)
  BY <1>1, AdvancedTried
<1>3. \A u \in Threads : stack'[u] \in {stack[u], r, << ScriptFrame(u) >>}
  BY DEF Async, Stacks
<1>4. \A u \in Threads : AllTried(<< ScriptFrame(u) >>)
  BY DEF AllTried, Tried, ScriptFrame, Frame
<1> HIDE DEF r
<1>5. \A u \in Threads : AllTried(stack'[u])
  BY <1>2, <1>3, <1>4 DEF Failures
<1>6. QED
  BY <1>1, <1>5 DEF Failures, AllTried, Tried, Apart, Missing

LEMMA PoppedFails ==
  ASSUME Stacks, Failures, NEW t \in Threads, stack[t] # <<>>, Pop(t),
         \/ UNCHANGED exn
         \/ \E e \in Exns : Missing(e) /\ Raise(t, e)
  PROVE  Failures'
<1>1. AllTried(Front(stack[t])) /\ stack' = [stack EXCEPT ![t] = Front(stack[t])]
  BY StackTried DEF Pop
<1>2. QED
  BY <1>1, OneFails, NoneFails DEF Raise

(* The call stays at its path.                                             *)
LEMMA MovedFails ==
  ASSUME Stacks, Failures, NEW t \in Threads, stack[t] # <<>>, NEW st \in Steps, GoTo(t, st),
         \/ UNCHANGED exn
         \/ \E e \in Exns : Missing(e) /\ Raise(t, e)
  PROVE  Failures'
<1> DEFINE e == [Top(t) EXCEPT !.step = st]
<1>1. Front(stack[t]) \in Seq(Frames) /\ Top(t) \in Frames /\ AllTried(Front(stack[t])) /\ Tried(Top(t))
  BY StackTried
<1>2. e \in Frames /\ Tried(e)
  BY <1>1, NextStep DEF Tried
<1>3. stack' = [stack EXCEPT ![t] = Append(Front(stack[t]), e)]
  BY DEF GoTo, Become
<1> HIDE DEF e
<1>4. AllTried(Append(Front(stack[t]), e))
  BY <1>1, <1>2, TriedPushed
<1>5. QED
  BY <1>3, <1>4, OneFails, NoneFails DEF Raise

LEMMA LoadFails ==
  ASSUME Stacks, Failures, NEW t \in Threads, Load(t)
  PROVE  Failures'
<1>1. /\ Front(stack[t]) \in Seq(Frames) /\ Top(t) \in Frames /\ stack[t] # <<>>
      /\ AllTried(Front(stack[t])) /\ Tried(Top(t)) /\ Full(Top(t)) \in Names
  BY CallFacts, StackTried DEF Load
<1>2. CASE Full(Top(t)) \in OnDisk
  <2> DEFINE e == [Top(t) EXCEPT !.step = "loaded"]
             g == ScriptFrame(Full(Top(t)))
  <2>1. e \in Frames /\ Tried(e)
    BY <1>1, NextStep DEF Tried, Steps
  <2>2. g \in Frames /\ Tried(g)
    BY <1>1 DEF ScriptFrame, Frame, Frames, Steps, Tried
  <2>3. stack' = [stack EXCEPT ![t] = Append(Append(Front(stack[t]), e), g)] /\ exn' = exn
    BY <1>2 DEF Load
  <2> HIDE DEF e, g
  <2>4. AllTried(Append(Append(Front(stack[t]), e), g))
    BY <1>1, <2>1, <2>2, TriedPushed, PushFacts
  <2>5. QED
    BY <2>3, <2>4, NoneFails
<1>3. CASE Full(Top(t)) \notin OnDisk
  <2>1. NotFound(Full(Top(t))) \in Exns /\ Missing(NotFound(Full(Top(t))))
    BY <1>1, <1>3 DEF NotFound, Exns, Missing
  <2>2. GoTo(t, "loaded") /\ Raise(t, NotFound(Full(Top(t)))) /\ "loaded" \in Steps
    BY <1>3 DEF Load, Steps
  <2>3. QED
    BY <1>1, <2>1, <2>2, MovedFails
<1>4. QED
  BY <1>2, <1>3

(* The next path.  After the last one, the name that the script wrote is   *)
(* on no disk: it was one of the paths tried.                              *)
LEMMA NextPathFails ==
  ASSUME Stacks, Failures, NEW t \in Threads, NEW step \in Steps,
         Running(t, "use") \/ Running(t, "eval_file"), NextPath(t, step),
         Top(t).kind = "use" => Full(Top(t)) \notin OnDisk
  PROVE  Failures'
<1> DEFINE d == Top(t)
<1>1. /\ stack[t] # <<>> /\ Front(stack[t]) \in Seq(Frames) /\ d \in Frames
      /\ d.arg \in Names /\ d.i \in 1..Len(UsePaths) /\ Len(UsePaths) \in Nat
      /\ d.kind \in {"use", "eval_file"}
  BY CallFacts DEF Running
<1>2. AllTried(Front(stack[t])) /\ Tried(d)
  BY <1>1, StackTried
<1>3. d.kind = "use" => \A k \in 1..d.i : FullName[<<UsePaths[k], d.arg>>] \notin OnDisk
  <2> SUFFICES ASSUME d.kind = "use", NEW k \in 1..d.i
               PROVE  FullName[<<UsePaths[k], d.arg>>] \notin OnDisk
    OBVIOUS
  <2>1. CASE k = d.i
    BY <2>1 DEF Full
  <2>2. CASE k # d.i
    <3>1. k \in 1..(d.i - 1)
      BY <1>1, <2>2
    <3>2. QED
      BY <1>2, <3>1 DEF Tried
  <2>3. QED
    BY <2>1, <2>2
<1>4. CASE d.i < Len(UsePaths)
  <2> DEFINE e == Frame(d.kind, d.arg, d.i + 1, step)
  <2>1. e \in Frames /\ e.kind = d.kind /\ e.arg = d.arg /\ e.i = d.i + 1
    BY <1>1 DEF Frame, Frames
  <2>2. stack' = [stack EXCEPT ![t] = Append(Front(stack[t]), e)] /\ exn' = [exn EXCEPT ![t] = NoExn]
    BY <1>4 DEF NextPath, Become, Raise
  <2> HIDE DEF e
  <2>3. Tried(e)
    BY <1>1, <1>2, <1>3, <2>1 DEF Tried
  <2>4. AllTried(Append(Front(stack[t]), e))
    BY <1>1, <1>2, <2>1, <2>3, TriedPushed
  <2>5. NoExn \in Exns /\ Missing(NoExn)
    BY DEF NoExn, Exns, Missing
  <2>6. QED
    BY <2>2, <2>4, <2>5, OneFails
<1>5. CASE ~(d.i < Len(UsePaths))
  <2>1. d.i = Len(UsePaths)
    BY <1>1, <1>5
  <2>2. d.arg \notin OnDisk
    BY <1>1, <1>2, <1>3, <2>1 DEF Tried, Apart
  <2>3. NotFound(d.arg) \in Exns /\ Missing(NotFound(d.arg))
    BY <1>1, <2>2 DEF NotFound, Exns, Missing
  <2>4. Pop(t) /\ Raise(t, NotFound(d.arg))
    BY <1>5 DEF NextPath
  <2>5. QED
    BY <1>1, <2>3, <2>4, PoppedFails
<1>6. QED
  BY <1>4, <1>5

LEMMA GivenUpMissing ==
  ASSUME Failures, NEW t \in Threads, exn[t] = NotFound(Full(Top(t)))
  PROVE  Full(Top(t)) \notin OnDisk
<1>1. Missing(exn[t]) /\ exn[t].kind = "file_not_found" /\ exn[t].file = Full(Top(t))
  BY DEF Failures, NotFound
<1>2. QED
  BY <1>1 DEF Missing

LEMMA StepFails ==
  ASSUME IInv, Failures, NamesApart, NEW t \in Threads, Step(t)
  PROVE  Failures'
<1>1. Stacks
  BY DEF IInv
<1>2. CASE Use(t) \/ EvalFile(t)
  BY <1>1, <1>2, EngineCalled
<1>3. CASE Throw(t) \/ Wait(t) \/ GetState(t) \/ SetState(t)
  BY <1>1, <1>3, ScriptFails
<1>4. CASE Async(t)
  BY <1>1, <1>4, AsyncFails
<1>5. CASE EndScript(t) \/ Unwind(t)
  BY <1>1, <1>5, PoppedFails DEF EndScript, Unwind, Leave, Running
<1>6. CASE Catch(t)
  <2>1. NoExn \in Exns /\ Missing(NoExn)
    BY DEF NoExn, Exns, Missing
  <2>2. stack' = stack /\ exn' = [exn EXCEPT ![t] = NoExn]
    BY <1>6 DEF Catch, Raise
  <2>3. stack' = [stack EXCEPT ![t] = stack[t]] /\ AllTried(stack[t])
    BY <1>1, <2>2 DEF Stacks, Failures
  <2>4. QED
    BY <1>1, <2>1, <2>2, <2>3, OneFails
<1>7. CASE UseLock(t) \/ UseLock2(t) \/ UseRelock(t)
  <2>1. stack[t] # <<>> /\ exn' = exn
    BY <1>7 DEF UseLock, UseLock2, UseRelock, AtUse, Running
  <2>2. \E st \in Steps : GoTo(t, st)
    BY <1>7 DEF UseLock, UseLock2, UseRelock, Steps
  <2>3. QED
    BY <1>1, <2>1, <2>2, MovedFails
<1>8. CASE UseTest(t)
  <2>1. stack[t] # <<>> /\ exn' = exn /\ (Pop(t) \/ GoTo(t, "load")) /\ "load" \in Steps
    BY <1>8 DEF UseTest, AtUse, Running, Steps
  <2>2. QED
    BY <1>1, <2>1, MovedFails, PoppedFails
<1>9. CASE Load(t)
  BY <1>1, <1>9, LoadFails
<1>10. CASE UseRecord(t)
  BY <1>1, <1>10, PoppedFails DEF UseRecord, AtUse, Running
<1>11. CASE UseCatch(t)
  <2>1. Running(t, "use") /\ stack[t] # <<>> /\ "lock" \in Steps
    BY <1>11 DEF UseCatch, Running, Steps
  <2>2. CASE Pop(t) /\ UNCHANGED exn
    BY <1>1, <2>1, <2>2, PoppedFails
  <2>3. CASE exn[t] = NotFound(Full(Top(t))) /\ NextPath(t, "lock")
    BY <1>1, <2>1, <2>3, GivenUpMissing, NextPathFails
  <2>4. QED
    BY <1>11, <2>2, <2>3 DEF UseCatch
<1>12. CASE EvalReturn(t)
  <2>1. Running(t, "eval_file") /\ stack[t] # <<>> /\ "load" \in Steps /\ Top(t).kind # "use"
    BY <1>12 DEF EvalReturn, Running, Steps
  <2>2. CASE Pop(t) /\ UNCHANGED exn
    BY <1>1, <2>1, <2>2, PoppedFails
  <2>3. CASE NextPath(t, "load")
    BY <1>1, <2>1, <2>3, NextPathFails
  <2>4. QED
    BY <1>12, <2>2, <2>3 DEF EvalReturn
<1>13. QED
  BY <1>2, <1>3, <1>4, <1>5, <1>6, <1>7, <1>8, <1>9, <1>10, <1>11, <1>12 DEF Step

LEMMA NextFails == NamesApart /\ IInv /\ Failures /\ [Next]_vars => Failures'
<1> SUFFICES ASSUME NamesApart, IInv, Failures, [Next]_vars PROVE Failures'
  OBVIOUS
<1>1. CASE Next
  BY <1>1, StepFails DEF Next
<1>2. CASE UNCHANGED vars
  BY <1>2 DEF vars, Failures, AllTried, Tried, Apart, Missing
<1>3. QED
  BY <1>1, <1>2

LEMMA InitFails == Init => Failures
<1> SUFFICES ASSUME Init PROVE Failures
  OBVIOUS
<1>1. NoExn \in Exns /\ Missing(NoExn)
  BY DEF NoExn, Exns, Missing
<1>2. exn = [t \in Threads |-> NoExn]
  BY DEF Init
<1>3. \A t \in Threads : stack[t] \in {<< ScriptFrame(t) >>, <<>>}
  BY DEF Init
<1>4. \A t \in Threads : AllTried(<< ScriptFrame(t) >>) /\ AllTried(<<>>)
  BY DEF AllTried, Tried, ScriptFrame, Frame
<1>5. \A t \in Threads : AllTried(stack[t])
  BY <1>3, <1>4
<1>6. QED
  BY <1>1, <1>2, <1>5 DEF Failures

(* Only UseCatch gives a path up.                                          *)
LEMMA GivesUpOnlyMissing ==
  ASSUME IInv, Failures, [Next]_vars, NEW u \in Threads, GivesUp(u)
  PROVE  Full(Top(u)) \notin OnDisk
<1>1. /\ Stacks /\ Failures /\ stack[u] # <<>> /\ Top(u).kind = "use"
      /\ Top(u).step = "loaded" /\ Raised(u) /\ status[u] = "running"
  BY TopFacts DEF IInv, GivesUp, Raised
<1>2. PICK t \in Threads : Step(t)
  BY DEF GivesUp, vars, Next
<1>3. CASE u # t
  <2>1. stack'[u] = stack[u] /\ exn'[u] = exn[u]
    <3>1. exn'[u] = exn[u]
      <4>1. CASE UseCatch(t) \/ EvalReturn(t)
        <5>1. exn' = exn \/ exn' = [exn EXCEPT ![t] = NoExn] \/ exn' = [exn EXCEPT ![t] = NotFound(Top(t).arg)]
          BY <4>1 DEF UseCatch, EvalReturn, NextPath, Raise
        <5>2. QED
          BY <1>1, <1>3, <5>1 DEF Failures
      <4>2. CASE Throw(t) \/ Wait(t) \/ Catch(t) \/ Load(t)
        BY <1>1, <1>3, <4>2 DEF Throw, Wait, Catch, Load, Raise, Failures
      <4>3. CASE ~(UseCatch(t) \/ EvalReturn(t) \/ Throw(t) \/ Wait(t) \/ Catch(t) \/ Load(t))
        <5>1. exn' = exn
          BY <1>2, <4>3 DEF Step, Use, EvalFile, CallEngine, GetState, SetState, Async, EndScript,
             Unwind, UseLock, UseLock2, UseTest, UseRelock, UseRecord
        <5>2. QED
          BY <5>1
      <4>4. QED
        BY <4>1, <4>2, <4>3
    <3>2. stack'[u] = stack[u]
      BY <1>1, <1>2, <1>3 DEF Step, Use, EvalFile, CallEngine, Throw, GetState, SetState, Async, Wait,
           EndScript, Catch, Unwind, UseLock, UseLock2, UseTest, Load, UseRelock, UseRecord,
           UseCatch, EvalReturn, NextPath, Leave, Advance, GoTo, Become, Pop, Stacks
    <3>3. QED
      BY <3>1, <3>2
  <2>2. QED
    BY <2>1 DEF GivesUp
<1>4. CASE u = t
  <2>1. UseCatch(t)
    BY <1>1, <1>2, <1>4 DEF Step, Use, EvalFile, CallEngine, AtOp, Throw, GetState, SetState, Async, Wait,
         EndScript, Catch, Unwind, UseLock, UseLock2, UseTest, Load, UseRelock, UseRecord,
         AtUse, EvalReturn, Running
  <2>2. ~(Pop(t) /\ UNCHANGED exn)
    <3> SUFFICES ASSUME Pop(t), UNCHANGED exn PROVE FALSE
      OBVIOUS
    <3>1. stack'[t] = Front(stack[t])
      BY <1>1 DEF Pop, Stacks
    <3>2. Len(stack[t]) = Len(Front(stack[t])) + 1 /\ Len(Front(stack[t])) \in Nat
      BY <1>1, <1>4, TopFacts
    <3>3. QED
      BY <1>4, <3>1, <3>2 DEF GivesUp
  <2>3. exn[t] = NotFound(Full(Top(t)))
    BY <2>1, <2>2 DEF UseCatch
  <2>4. QED
    BY <1>1, <1>4, <2>3, GivenUpMissing
<1>5. QED
  BY <1>3, <1>4

(* use gives a path up only because the file is not there, if names that   *)
(* scripts write are not taken for paths of other files: what fails inside *)
(* a file reaches the caller of use.                                       *)
THEOREM SkipsOnlyTheMissing == ASSUME NamesApart PROVE Spec => SkippedOnlyIfMissing
<1>1. IInv /\ Failures /\ [Next]_vars => [\A t \in Threads : GivesUp(t) => Full(Top(t)) \notin OnDisk]_vars
  BY GivesUpOnlyMissing
<1>2. IInv /\ Failures /\ [Next]_vars => Failures'
  BY NextFails
<1>3. QED
  BY InitIInv, NextIInv, InitFails, <1>1, <1>2, PTL DEF Spec, SkippedOnlyIfMissing
=============================================================================
