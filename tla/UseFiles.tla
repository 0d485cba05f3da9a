------------------------------- MODULE UseFiles -------------------------------
(***************************************************************************)
(* Files of scripts in the engine (chaiscript_engine.hpp): use() and       *)
(* eval_file() from a script, with the two mutexes, the search of the use  *)
(* paths and the exceptions, and the host's get_state() and set_state().   *)
(*                                                                         *)
(* m_use_mutex is recursive and is held while a used file runs; m_mutex    *)
(* guards m_used_files and is given back for that time.  Scripts are       *)
(* sequences of the operations that reach the engine; the rest of what     *)
(* they do is left out.  A thread is either the host's or the one an       *)
(* async() of a script starts.                                             *)
(***************************************************************************)
EXTENDS Integers, SequencesExt, FiniteSets

CONSTANTS
  Threads,    (* host threads and threads async() may start                 *)
  Hosts,      (* the threads that run from the start                        *)
  Names,      (* file names: as scripts write them, and with a use path     *)
  UsePaths,   (* m_use_paths, a sequence                                    *)
  FullName,   (* [Range(UsePaths) \X Names -> Names]: path + t_filename     *)
  OnDisk,     (* the names of files that exist                              *)
  Programs,   (* what the threads and the files may do                      *)
  Nobody

(* An operation of a script; caught says it stands in try { } catch { }.   *)
Op == [op : {"use", "eval_file", "throw", "get_state", "set_state"},
       arg : Names, caught : BOOLEAN]
      \cup [op : {"async", "wait"}, arg : Threads, caught : BOOLEAN]

ASSUME EngineAssumption ==
  /\ Hosts \subseteq Threads
  /\ Nobody \notin Threads
  /\ Threads \cap Names = {}
  /\ OnDisk \subseteq Names
  /\ UsePaths \in Seq(Range(UsePaths)) \ {<<>>}
  /\ FullName \in [Range(UsePaths) \X Names -> Names]
  /\ Programs \subseteq [Threads \cup OnDisk -> Seq(Op)]

(* The host saves and restores states between scripts, and no file comes   *)
(* back to itself: each has a higher rank than those it uses.              *)
Ranks(rank) ==
  \A p \in Programs : \A f \in OnDisk : \A n \in 1..Len(p[f]) : \A d \in 1..Len(UsePaths) :
    LET inner == FullName[<<UsePaths[d], p[f][n].arg>>] IN
    p[f][n].op \in {"use", "eval_file"} /\ inner \in OnDisk => rank[inner] < rank[f]

ASSUME FilesAssumption ==
  /\ \A p \in Programs : \A f \in OnDisk : \A n \in 1..Len(p[f]) :
       p[f][n].op \notin {"get_state", "set_state"}
  /\ \E rank \in [OnDisk -> 0..Cardinality(OnDisk)] : Ranks(rank)

VARIABLES
  script,      (* the program that runs; it never changes                   *)
  stack,       (* calls of each thread: scripts, use() and eval_file()      *)
  exn,         (* the exception in flight on each thread, or its last       *)
  status,      (* "new", "running" or "finished", of each thread            *)
  useOwner,    (* owner of m_use_mutex                                      *)
  useDepth,    (* how often the owner locked it                             *)
  mutexOwner,  (* owner of m_mutex                                          *)
  usedFiles,   (* m_used_files                                              *)
  savedFiles,  (* used_files of the State the host took                     *)
  completed    (* history: use() evaluations that ended, by file            *)

engine == <<useOwner, useDepth, mutexOwner, usedFiles, savedFiles, completed>>
locks == <<useOwner, useDepth, mutexOwner>>
files == <<usedFiles, savedFiles, completed>>
vars == <<script, stack, exn, status, useOwner, useDepth, mutexOwner,
          usedFiles, savedFiles, completed>>
-----------------------------------------------------------------------------
NoExn == [kind |-> "none", file |-> ""]
NotFound(n) == [kind |-> "file_not_found", file |-> n]   \* file_not_found_error
OtherError == [kind |-> "error", file |-> ""]

(* A script at operation i, or a call at path i.                           *)
Steps == {"run", "lock", "lock2", "test", "load", "loaded", "record"}
Frame(kind, arg, i, step) == [kind |-> kind, arg |-> arg, i |-> i, step |-> step]
ScriptFrame(a) == Frame("script", a, 1, "run")

Top(t) == Last(stack[t])
Running(t, kind) == status[t] = "running" /\ stack[t] # <<>> /\ Top(t).kind = kind
Raised(t) == exn[t].kind # "none"
Full(fr) == FullName[<<UsePaths[fr.i], fr.arg>>]

Push(t, fr) == stack' = [stack EXCEPT ![t] = Append(@, fr)]
Pop(t) == stack' = [stack EXCEPT ![t] = Front(@)]
Become(t, fr) == stack' = [stack EXCEPT ![t] = Append(Front(@), fr)]
GoTo(t, s) == Become(t, [Top(t) EXCEPT !.step = s])
Raise(t, e) == exn' = [exn EXCEPT ![t] = e]

CanLockUse(t) == useOwner \in {Nobody, t}
LockUse(t) == CanLockUse(t) /\ useOwner' = t /\ useDepth' = useDepth + 1
UnlockUse(t) ==
  /\ useDepth' = useDepth - 1
  /\ useOwner' = IF useDepth = 1 THEN Nobody ELSE useOwner

Init ==
  /\ script \in Programs
  /\ stack = [t \in Threads |-> IF t \in Hosts THEN << ScriptFrame(t) >> ELSE <<>>]
  /\ exn = [t \in Threads |-> NoExn]
  /\ status = [t \in Threads |-> IF t \in Hosts THEN "running" ELSE "new"]
  /\ useOwner = Nobody
  /\ useDepth = 0
  /\ mutexOwner = Nobody
  /\ usedFiles = {}
  /\ savedFiles = {}
  /\ completed = [f \in Names |-> 0]
-----------------------------------------------------------------------------
(* The operation a script is at.                                           *)
AtOp(t, o) ==
  /\ Running(t, "script")
  /\ ~Raised(t)
  /\ Top(t).i <= Len(script[Top(t).arg])
  /\ script[Top(t).arg][Top(t).i].op = o
Arg(t) == script[Top(t).arg][Top(t).i].arg
Advanced(t) == [Top(t) EXCEPT !.i = @ + 1]
Advance(t) == Become(t, Advanced(t))

(* use(file) and eval_file(file) in a script.                              *)
CallEngine(t, o, step) ==
  /\ AtOp(t, o)
  /\ stack' = [stack EXCEPT ![t] = Append(Append(Front(@), Advanced(t)), Frame(o, Arg(t), 1, step))]
  /\ UNCHANGED <<script, exn, status, engine>>

Use(t) == CallEngine(t, "use", "lock")
EvalFile(t) == CallEngine(t, "eval_file", "load")

(* Any other failure of the script.                                        *)
Throw(t) ==
  /\ AtOp(t, "throw")
  /\ Advance(t)
  /\ Raise(t, OtherError)
  /\ UNCHANGED <<script, status, engine>>

(* A host function that saves or restores the engine's state; both locks   *)
(* are taken and given back.                                               *)
GetState(t) ==
  /\ AtOp(t, "get_state")
  /\ CanLockUse(t) /\ mutexOwner = Nobody
  /\ savedFiles' = usedFiles
  /\ Advance(t)
  /\ UNCHANGED <<script, exn, status, locks, usedFiles, completed>>

SetState(t) ==
  /\ AtOp(t, "set_state")
  /\ CanLockUse(t) /\ mutexOwner = Nobody
  /\ usedFiles' = savedFiles
  /\ completed' = [f \in Names |-> IF f \in savedFiles THEN 1 ELSE 0]
  /\ Advance(t)
  /\ UNCHANGED <<script, exn, status, locks, savedFiles>>

(* async(): std::async starts a thread; get() of the future waits for it   *)
(* and rethrows what it threw.                                             *)
Async(t) ==
  LET u == Arg(t) IN
  /\ AtOp(t, "async")
  /\ status[u] = "new"
  /\ status' = [status EXCEPT ![u] = "running"]
  /\ stack' = [stack EXCEPT ![t] = Append(Front(@), Advanced(t)),
                            ![u] = << ScriptFrame(u) >>]
  /\ UNCHANGED <<script, exn, engine>>

Wait(t) ==
  /\ AtOp(t, "wait")
  /\ status[Arg(t)] = "finished"
  /\ Advance(t)
  /\ Raise(t, exn[Arg(t)])
  /\ UNCHANGED <<script, status, engine>>

(* The end of a script; the thread ends with its outermost one.            *)
Leave(t) ==
  /\ Pop(t)
  /\ status' = IF Len(stack[t]) = 1 THEN [status EXCEPT ![t] = "finished"] ELSE status

EndScript(t) ==
  /\ Running(t, "script")
  /\ ~Raised(t)
  /\ Top(t).i > Len(script[Top(t).arg])
  /\ Leave(t)
  /\ UNCHANGED <<script, exn, engine>>

(* An exception reaches the script that made the call: its try statement   *)
(* handles it, or the script ends with it.                                 *)
CaughtHere(t) == script[Top(t).arg][Top(t).i - 1].caught

Catch(t) ==
  /\ Running(t, "script")
  /\ Raised(t) /\ CaughtHere(t)
  /\ Raise(t, NoExn)
  /\ UNCHANGED <<script, stack, status, engine>>

Unwind(t) ==
  /\ Running(t, "script")
  /\ Raised(t) /\ ~CaughtHere(t)
  /\ Leave(t)
  /\ UNCHANGED <<script, exn, engine>>
-----------------------------------------------------------------------------
(* ChaiScript_Basic::use, for one path: lock m_use_mutex, lock m_mutex,    *)
(* look the file up in m_used_files.                                       *)
AtUse(t, s) == Running(t, "use") /\ ~Raised(t) /\ Top(t).step = s

UseLock(t) ==
  /\ AtUse(t, "lock")
  /\ LockUse(t)
  /\ GoTo(t, "lock2")
  /\ UNCHANGED <<script, exn, status, mutexOwner, files>>

UseLock2(t) ==
  /\ AtUse(t, "lock2")
  /\ mutexOwner = Nobody
  /\ mutexOwner' = t
  /\ GoTo(t, "test")
  /\ UNCHANGED <<script, exn, status, useOwner, useDepth, files>>

UseTestSkipped(t) ==   \* mutant: m_used_files is not consulted
  /\ AtUse(t, "test")
  /\ mutexOwner' = Nobody
  /\ GoTo(t, "load")
  /\ UNCHANGED <<script, exn, status, useOwner, useDepth, files>>

UseTestLocked(t) ==   \* mutant: m_mutex is kept while the file runs
  /\ AtUse(t, "test")
  /\ \/ /\ Full(Top(t)) \in usedFiles
        /\ UnlockUse(t)
        /\ mutexOwner' = Nobody
        /\ Pop(t)
     \/ /\ Full(Top(t)) \notin usedFiles
        /\ GoTo(t, "load")
        /\ UNCHANGED locks
  /\ UNCHANGED <<script, exn, status, files>>

UseTest(t) ==
  /\ AtUse(t, "test")
  /\ mutexOwner' = Nobody
  /\ \/ /\ Full(Top(t)) \in usedFiles
        /\ UnlockUse(t)
        /\ Pop(t)
     \/ /\ Full(Top(t)) \notin usedFiles
        /\ GoTo(t, "load")
        /\ UNCHANGED <<useOwner, useDepth>>
  /\ UNCHANGED <<script, exn, status, files>>

(* load_file and the start of the evaluation, in use and in eval_file.     *)
Load(t) ==
  /\ Running(t, "use") \/ Running(t, "eval_file")
  /\ ~Raised(t) /\ Top(t).step = "load"
  /\ \/ /\ Full(Top(t)) \in OnDisk
        /\ stack' = [stack EXCEPT ![t] =
             Append(Append(Front(@), [Top(t) EXCEPT !.step = "loaded"]), ScriptFrame(Full(Top(t))))]
        /\ UNCHANGED exn
     \/ /\ Full(Top(t)) \notin OnDisk
        /\ GoTo(t, "loaded")
        /\ Raise(t, NotFound(Full(Top(t))))
  /\ UNCHANGED <<script, status, engine>>

(* The file ran to its end: record it, give both mutexes back.             *)
UseRelock(t) ==
  /\ AtUse(t, "loaded")
  /\ mutexOwner = Nobody
  /\ mutexOwner' = t
  /\ GoTo(t, "record")
  /\ UNCHANGED <<script, exn, status, useOwner, useDepth, files>>

UseRecordShort(t) ==   \* mutant: the name without its path is recorded
  /\ AtUse(t, "record")
  /\ usedFiles' = usedFiles \cup {Top(t).arg}
  /\ completed' = [completed EXCEPT ![Full(Top(t))] = @ + 1]
  /\ mutexOwner' = Nobody
  /\ UnlockUse(t)
  /\ Pop(t)
  /\ UNCHANGED <<script, exn, status, savedFiles>>

UseRecord(t) ==
  /\ AtUse(t, "record")
  /\ usedFiles' = usedFiles \cup {Full(Top(t))}
  /\ completed' = [completed EXCEPT ![Full(Top(t))] = @ + 1]
  /\ mutexOwner' = Nobody
  /\ UnlockUse(t)
  /\ Pop(t)
  /\ UNCHANGED <<script, exn, status, savedFiles>>

(* The next path, or file_not_found_error for the name the script wrote.   *)
NextPath(t, step) ==
  IF Top(t).i < Len(UsePaths)
  THEN Become(t, Frame(Top(t).kind, Top(t).arg, Top(t).i + 1, step)) /\ Raise(t, NoExn)
  ELSE Pop(t) /\ Raise(t, NotFound(Top(t).arg))

(* An exception leaves the file, or the file was not there.  use tells its *)
(* own missing file from a nested one by the name in the exception.        *)
UseCatchAnyMissing(t) ==   \* mutant: the name in the exception is not compared
  /\ Running(t, "use") /\ Raised(t) /\ Top(t).step = "loaded"
  /\ UnlockUse(t)
  /\ \/ exn[t].kind = "file_not_found" /\ NextPath(t, "lock")
     \/ exn[t].kind # "file_not_found" /\ Pop(t) /\ UNCHANGED exn
  /\ UNCHANGED <<script, status, mutexOwner, files>>

UseCatchLocked(t) ==   \* mutant: m_use_mutex is not given back
  /\ Running(t, "use") /\ Raised(t) /\ Top(t).step = "loaded"
  /\ \/ exn[t] = NotFound(Full(Top(t))) /\ NextPath(t, "lock")
     \/ exn[t] # NotFound(Full(Top(t))) /\ Pop(t) /\ UNCHANGED exn
  /\ UNCHANGED <<script, status, locks, files>>

UseCatch(t) ==
  /\ Running(t, "use") /\ Raised(t) /\ Top(t).step = "loaded"
  /\ UnlockUse(t)
  /\ \/ /\ exn[t] = NotFound(Full(Top(t)))
        /\ NextPath(t, "lock")
     \/ /\ exn[t] # NotFound(Full(Top(t)))
        /\ Pop(t)
        /\ UNCHANGED exn
  /\ UNCHANGED <<script, status, mutexOwner, files>>

(* internal_eval_file: any file_not_found_error means the next path.       *)
EvalReturn(t) ==
  /\ Running(t, "eval_file") /\ Top(t).step = "loaded"
  /\ \/ exn[t].kind = "file_not_found" /\ NextPath(t, "load")
     \/ exn[t].kind # "file_not_found" /\ Pop(t) /\ UNCHANGED exn
  /\ UNCHANGED <<script, status, engine>>

Step(t) ==
  \/ Use(t) \/ EvalFile(t) \/ Throw(t) \/ GetState(t) \/ SetState(t)
  \/ Async(t) \/ Wait(t) \/ EndScript(t) \/ Catch(t) \/ Unwind(t)
  \/ UseLock(t) \/ UseLock2(t) \/ UseTest(t) \/ Load(t) \/ UseRelock(t)
  \/ UseRecord(t) \/ UseCatch(t) \/ EvalReturn(t)

Next == \E t \in Threads : Step(t)

(* The operating system runs every thread that can run.                    *)
Fairness == \A t \in Threads : WF_vars(Step(t))

Spec == Init /\ [][Next]_vars
FairSpec == Spec /\ Fairness
-----------------------------------------------------------------------------
(* The levels of a thread's stack that lock m_use_mutex.                   *)
Holding(fr) == fr.kind = "use" /\ fr.step # "lock"
HeldLevels(t) == { k \in 1..Len(stack[t]) : Holding(stack[t][k]) }

(* On every way through use - found, loaded, missing, failed, nested - the *)
(* mutexes are held exactly as often as there are calls that locked them,  *)
(* and by one thread only.                                                 *)
LocksBalanced ==
  /\ \A t \in Threads : HeldLevels(t) # {} => useOwner = t
  /\ useDepth = IF useOwner = Nobody THEN 0 ELSE Cardinality(HeldLevels(useOwner))
  /\ \A t \in Threads :
       mutexOwner = t <=> Running(t, "use") /\ Top(t).step \in {"test", "record"}

(* use evaluates a file to its end once, whatever number of threads and    *)
(* files use it, and again only after set_state forgot it: "evals file     *)
(* exactly once" (cheatsheet.md:590).                                      *)
EvaluatedOnce ==
  /\ \A f \in Names : completed[f] <= 1
  /\ usedFiles = { f \in Names : completed[f] = 1 }

(* use gives a path up only because the file is not there; a failure       *)
(* inside the file is the caller's to see: "a nested file include failed", *)
(* "failed to load, try the next path" (chaiscript_engine.hpp:376-379).    *)
GivesUp(t) ==
  /\ stack[t] # <<>> /\ Top(t).kind = "use" /\ Top(t).step = "loaded"
  /\ exn[t].kind = "file_not_found"
  /\ \/ stack'[t] # stack[t] /\ Len(stack'[t]) = Len(stack[t])
     \/ exn'[t] # exn[t]
SkippedOnlyIfMissing ==
  [][\A t \in Threads : GivesUp(t) => Full(Top(t)) \notin OnDisk]_vars

(* What that asks of the scripts, because use compares names: if a name as *)
(* it is written is the path of a file, then use finds it there, and       *)
(* eval_file, which takes a nested failure for its own, is not given it.   *)
NamesApart ==
  \A p \in Programs : \A x \in Threads \cup OnDisk : \A n \in 1..Len(p[x]) :
    p[x][n].op \in {"use", "eval_file"} /\ p[x][n].arg \in OnDisk =>
      /\ p[x][n].op = "use"
      /\ \E d \in 1..Len(UsePaths) : FullName[<<UsePaths[d], p[x][n].arg>>] = p[x][n].arg

(* Every thread comes to its end: no use waits forever.                    *)
Termination == <>[](\A t \in Threads : status[t] # "running")

(* What use promises, see OnceLoader: each file is absent, being loaded by *)
(* one thread, or loaded.                                                  *)
Loading(t, k) == stack[t][k].kind = "use" /\ stack[t][k].step \in {"loaded", "record"}
LoadState ==
  [f \in Names |->
    IF \E t \in Threads : \E k \in 1..Len(stack[t]) :
         Loading(t, k) /\ Full(stack[t][k]) = f
    THEN "loading"
    ELSE IF f \in usedFiles THEN "loaded" ELSE "absent"]
Loader == INSTANCE OnceLoader WITH file <- LoadState, saved <- savedFiles
LoaderSpec == Loader!Spec
===============================================================================
