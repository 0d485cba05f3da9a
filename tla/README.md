# A TLA+ model of ChaiScript

ChaiScript is a scripting language embedded in C++ programs as a header-only
library. This directory models its run-time core in TLA+, checks the models
with TLC on small instances, and proves the results that matter most with
TLAPS. Paths such as `dispatchkit/dispatchkit.hpp` are below
`include/chaiscript/`.

## The system

| part | state | operations |
| --- | --- | --- |
| dispatch engine (`dispatchkit/dispatchkit.hpp`) | per thread: stacks of scopes, call parameters, call depth; shared under `m_mutex`: functions, function objects, globals, types | look a name up, declare, push and pop scopes and stacks, add a function, call a function or a member, get and set the state |
| engine (`language/chaiscript_engine.hpp`) | used files, loaded and active modules, namespace generators, under `m_use_mutex` and `m_mutex` | eval, eval_file, use, load_module, import, register_namespace, get_state, set_state |
| dispatch (`dispatchkit/proxy_functions.hpp`) | none of its own | choose an overload, convert arguments, try the next overload when a call fails |
| type conversions (`dispatchkit/type_conversions.hpp`) | the table of conversions; per thread a cache of convertible types and the saved temporaries | add a conversion, convert up and down, enable and take saves |
| evaluator (`language/chaiscript_eval.hpp`) | the cached locations in the AST | evaluate each kind of node; C++ exceptions carry return, break, continue, throw |
| optimizer (`language/chaiscript_optimizer.hpp`) | none | rewrite the AST bottom up while it is parsed |
| parser (`language/chaiscript_parser.hpp`) | position, match stack, depth | build the AST |
| numbers, boxed values, dynamic objects, JSON, prelude | values | arithmetic, sharing, attributes, conversion to and from text, list functions |

How the parts interact: the host calls the engine; the engine parses (the
optimizer runs inside the parser) and evaluates the AST; AST nodes call the
dispatch engine through a `Dispatch_State`, which also holds the calling
thread's stacks and conversion caches; the dispatch engine calls dispatch, which
calls C++ functions or, through `eval_function`, script functions, that is the
evaluator again. Script code reaches back into the engine with `use`, `eval`,
`import`, `load_module` and `async`.

What is hard here:

- AST nodes are shared by all threads and all calls, and cache where a name was
  found in a stack that belongs to one thread and one call.
- `use` holds a recursive mutex while a whole file runs, and records the file
  only afterwards.
- control flow is C++ exceptions: every scope, stack and call counter is undone
  by destructors, and `dispatch` catches exceptions that may come from inside a
  function it already ran.
- host and script change global tables (`set_state`, `add_global`, `def`,
  `add_type_conversion`) while other threads run.

## What makes each part correct

- lookup: a name means the innermost binding of the thread's own stack, else a
  global, else a function; caching must not change the answer.
- engine: a file is evaluated once, however many threads use it, unless it
  failed; locks are released on every path; a use ends; whoever finds a module
  loaded finds all of it; a global is not replaced behind its owner's back.
- lifetimes: a reference that a function returns or is given refers to an
  object that is there, and nothing is kept once the outermost call is over.
- dispatch: of the overloads that take the arguments the best is run, none is
  missed, and the choice does not depend on the order of registration.
- evaluator: scopes and stacks are restored on every way out of a node; finally
  is not skipped; an exception ends at a handler that takes it; a constant of
  the program stays what it is.
- optimizer: the rewritten tree does what the original does.
- conversions: a thread sees a conversion that was added before its call.
- parser: the tree has the words of the text in their order and the operators'
  precedence; a production leaves on the stack what its caller counts on; every node has the
  children the evaluator reads.
- numbers: the operators answer as the integers do where C++ says so, `x op= y`
  leaves what `x op y` is, and no operation divides by zero.
- literals and JSON: a literal has the value and type C++ gives it, a JSON text
  is read as what it means and written back, a text that was cut off is noticed.
- prelude: a list function returns what its name says, whatever range it is
  given.
- objects: an attribute belongs to one object; a copy of an object has copies of
  its attributes.
- boxed values: what is const is never given away for writing, a box refers to
  one object however it is asked for, and a variable has an object of its own
  unless a reference was asked for.

## Modules

| module | what it is |
| --- | --- |
| `LookupCache` | get_object, the stacks and the shared tables, run by several threads |
| `ScopedLookup` | the discipline under which cached positions are right, and the inductive invariant |
| `LookupCacheProofs` | theorems about them |
| `SequenceFacts` | lemmas about sequences and finite sets of numbers, for all the proofs |
| `CallLifetime` | call_params, call_depth and the conversion saves of one thread |
| `UseFiles` | use and eval_file with both mutexes, the use paths and the exceptions |
| `OnceLoader` | what use promises; `UseFiles` implements it |
| `UseFilesProofs` | theorems about both |
| `EngineTables` | modules, namespaces, globals, saved states |
| `EngineProofs` | theorems about `CallLifetime` and `EngineTables` |
| `Overloads` | the overloads of one name, and the choice among them |
| `OverloadsProofs` | theorems about it |
| `Evaluator` | the evaluation of an AST, node by node, with values and what is thrown |
| `Objects` | classes, attributes, methods and dot access on top of `Evaluator` |
| `Heaps` | what is always true of the evaluator's values, and what is asked of programs and of copying |
| `EvaluatorProofs` | theorems about the three |
| `Copying` | how values are cloned and assigned, object in object; `Evaluator` takes it as constants |
| `Optimizer` | the rewritings of an AST |
| `OptimizedPrograms` | runs each program as it was parsed and as it was rewritten |
| `Conversions` | the table of conversions, the per-thread cache of types, and their users |
| `ConversionsProofs` | theorems about it |
| `Grammar`, `Parser` | the productions as data, and the interpreter that runs them over a text |
| `Numbers` | the operators of C++ on two boxed numbers |
| `Literals`, `Json`, `Decimals` | how literals and JSON texts are read and written |
| `Lists` | the list functions of the prelude, and the ranges they use |
| `Boxes` | boxed values: the variables that refer to them, the objects they hold, copies and references |
| `ValuesProofs` | theorems about `Numbers` and `Boxes` |
| `Values` | runs numbers, literals, JSON, lists and boxes, and compares what is read or returned with its meaning |
| `MC*` | instances for TLC |

The modules meet at small interfaces. `LookupCache` has the host change the
shared tables and restore states at any moment, which is all that the engine's
modules can do to a lookup; `EngineTables` models who changes them and when.
`UseFiles` leaves out what a script does besides reaching the engine.
`Overloads` starts where a lookup ends, with the vector it fetched.
`CallLifetime` models what happens around a call, whichever overload it is.
`Evaluator` looks names up by searching, which `LookupCache` shows to be the
same, and leaves the lifetimes of temporaries to `CallLifetime`.

### LookupCache

A program is a control flow graph (`Code`): each point is one operation of the
evaluator that changes a stack or looks a name up. `frames[t]` is
`Stack_Holder::stacks` of thread `t`, each with the point it is at; a scope is
the sequence of names in the order of `QuickFlatMap`'s vector. `loc[p]` is the
`m_loc` of the node at point `p`, shared by all threads. A value is abstracted
to the place it is bound at. `get_object` is three steps, because the load of
`m_loc`, the search of the thread's own stack and the search of the shared
tables under `m_mutex` are separate: `LoadLoc`, `ResolveLocal`,
`ResolveShared`; `FinishLookup` is the return to the evaluator. `m_loc`'s bits
are a record (`Unset`, `Located`, `LocalAt(d, i)`, `Hint(k)`); the distance
keeps its width (`% MaxDist`, 4096 in the code), and a function's index 0 is
the same as never looked up, as in the code.

Cached positions are right only if every point is always reached with the same
names in the same places. `ScopedLookup` states that as an assumption on the
program that is checked edge by edge (`WellScopedAssumption`), as a bytecode
verifier would. Blocks, loops and ordinary calls satisfy it. Two things in the
language do not, and have no run. A function without parameters that is called
both directly and as an attribute has a `__this` scope in one of the two, and
reads a captured variable as the object (`dispatchkit/dispatchkit.hpp:532`).
After `eval("var y")` in a conditional block that the optimizer made scopeless,
a later name is found at a position that does not exist when the block is not
taken.

Bounds: two threads (the races are on one node, between its load and its
stores; a third thread adds no new kind of pair), `MaxDepth` 3 stacks in one
thread (`f` calls itself through an attribute and then `h`), `MaxDist` 2 scope
distances (the distance wraps, as it would at 4096).

### UseFiles and OnceLoader

A script is the sequence of its operations that reach the engine (`use`,
`eval_file`, throwing, `async` and waiting for it, the host's `get_state` and
`set_state`), each inside a `try` or not. `stack[t]` is the C++ stack of a
thread: scripts at an operation, and calls of `use` or `eval_file` at one of the
use paths. The calls are split where another thread can get in: `UseLock` takes
`m_use_mutex` (recursive: `useOwner`, `useDepth`), `UseLock2` and `UseRelock`
take `m_mutex`, `UseTest` looks the name up in `m_used_files` and gives
`m_mutex` back for the evaluation (`Load`), `UseRecord` inserts the name.
`UseCatch` and `EvalReturn` are the two handlers of `file_not_found_error`,
which differ: `use` compares the name in it, `internal_eval_file` does not.

`OnceLoader` has, for each file, only absent, loading or loaded. `LoadState`
maps the engine's state to it, and TLC checks that every step of `UseFiles` is
a step of `OnceLoader` or none (`LoaderSpec`).

`FilesAssumption` is what the files have to be like: some ranking of them falls
from each file to the files it uses or evaluates, along every path, and only the
host's own scripts get or set the state. The proofs need no other bound.

`use_files` runs every combination of 4 x 2 host scripts, 4 bodies of file a and
3 of file b, with a third thread that `async` starts. The second use path is the
empty one, as by default. `SkippedOnlyIfMissing` speaks of `use` only:
`eval_file` of a file that is there gives it up for the next path when a file
inside it is missing (`chaiscript_engine.hpp:97`). And `use` compares names, so
a nested failure is taken for the file's own if it carries the same name: in the
file `scripts/a` on the path `scripts/`, a script that writes
`use("scripts/a")` looks for `scripts/scripts/a`, and the error that it is
missing names `scripts/a`. `NamesApart` excludes
this: a name that is, as it is written, the path of a file is found as it is
written, and only `use` is given it. Two kinds of programs are not in the run. A
file that uses itself, directly or through another, is evaluated again inside its own evaluation until the stack overflows, because
`use` records a name only after the evaluation, although it is documented not to
reload an open file (`chaiscript_engine.hpp:352`). A used file that waits for an
async function which itself calls `use`, `load_module` or `import` waits for
ever: its thread holds `m_use_mutex` (`chaiscript_engine.hpp:361`) until the file
ends, and `Termination` does not hold.

Fairness is weak, of each thread's next step: an operating system runs every
thread that can run, and scripts of finitely many operations have no other
reason to go on for ever. It does not say who gets a mutex; with finitely many
operations each waiting thread gets its turn all the same. Two paths that name
one file are two names for `use` and in the model.

### EngineTables

`load_module`, `import` and `register_namespace` hold `m_use_mutex` for their
whole length; `add_global`, `set_global` and every single insertion take only
their table's lock. So `Module::apply` is one step per element (`ApplyType`,
`ApplyTypeName`, `ApplyFun`, `ApplyConv`, `ApplyGlobal`), and `import` is two: the
test whether the name is taken, and the binding (`Import`, `ImportBind`). The
test looks at the calling thread's locals as well, which this module does not
keep: `Import` may throw whatever the globals are. A name that is taken throws,
and leaves what was already added.
`set_state` is called by host threads; it restores functions, globals, types and
active modules, but neither conversions nor namespace generators. The second is
why a namespace that was imported before a `set_state` can be imported again,
and is not modelled as a finding: no document says otherwise.

A load that fails is excluded from the run: `load_module` inserts the name into
`m_active_loaded_modules` before it applies the module
(`chaiscript_engine.hpp:587`), and applying it stops at the first global whose
name is taken, or at a conversion that `set_state` has not taken away. The
elements after it are missing, and a second `load_module` finds the module active
and does nothing: `ActiveIsComplete` does not hold.

What a program has to keep to for this, `ModulesApart` says: nothing else binds
a name or adds a conversion of a module that is loaded, and no state is restored
if that module has conversions. `LoadedIsComplete` proves that it is enough.

`engine_tables`: two host threads, 8 x 4 pairs of call sequences less those in
which a load fails (26 programs), and modules with every kind of element. 19 of
the programs keep to `ModulesApart`, and between them they make every kind of
call beside a load (`CallsKeepModulesApart`). In the other 7 the conflicting call
comes after the module is there, binds the very name that the load then misses,
or is a `set_state` after which the module is not loaded again. The fairness is that of `UseFiles`. Scripts that a module
evaluates, and the check of names against reserved words, are left out.

### CallLifetime

`work` is what is being evaluated in one thread: scopes, calls, operators and
calls by the host, with the objects their arguments own or refer to. `depth`,
`params`, `enabled` and `saves` are `call_depth`, `call_params` and the two
fields of `Conversion_Saves`. Exceptions unwind node by node (`Unwind`), as the
destructors of `Function_Push_Pop` and `Scope_Push_Pop` do, and may be caught at
any scope or call. A value is the object itself, or a reference into an argument of
the call that returned it or into a converted argument. `Operand` makes an
argument or a variable that is an object of its own, `Name` uses a variable of the
function at work, and what a call returns (`Return`) or a block or a body ends
with (`LeaveScope`) goes to the node that asked for it (`Hand`): an operand, a
variable, the value of the scope around it, or the result of the function whose
body it was. `ReferredAlive` is about all of them.

The histories `escaped` and `exposed` name the objects that the invariants leave
out, so that five lifetimes a reader may not expect have no run. The last value of a
block or a body leaves the scope before its destructor runs
(`chaiscript_eval.hpp:711`), so a reference into a temporary made in that scope
is handed out of the list that keeps it (`escaped`), as C++ would return a
reference to a local; what was made further out has to outlive the scope and is
not left out. `ConvertedAlive` leaves out
converted arguments that die while the function runs: those of a call by the
host, because saves are only taken while `call_depth` is not 0
(`dispatchkit/type_conversions.hpp:333`), and those of a function that calls
back into a script function whose scope takes them
(`dispatchkit/dispatchkit.hpp:1000`). `Binary_Operator_AST_Node` evaluates its operands before it counts
as a call (`chaiscript_eval.hpp:221`), so that at the outermost level the first
operand's call ends at depth 0 and clears the temporary its result refers to,
before the operator is called (`escaped` again). And `pop_function_call` does not drop the saves,
so that the conversions of the last call of a program wait for a next call.

Bounds: `MaxSize` 5 nodes and objects together, `MaxObjs` 2 objects and
`MaxArgs` 2 values in a node; the smallest counterexamples of all mutants fit into
them, and the theorems hold for every value of the three.

### Overloads

`table` is the vector of one name, `calls[t]` the call a thread is in, with the
vector it fetched (`add_function` replaces the vector, and never changes one),
dispatch's round `i` and its place `j`. `FunctionLessThan` is the comparison,
`StableSort` what libstdc++ does with up to seven elements; it is given as that
algorithm because the comparison is no strict weak order when the overloads
have different numbers of parameters, and the standard then promises nothing.
`Accepts` is the overload's own test of the arguments (the casts of a C++
function, `Param_Types::match` and the guard of a script function); a body ends
with a value, with one of the three exceptions that dispatch takes for a
mismatch, or with another. `Scan` and `Convert` are `dispatch_with_conversions`.

Two things a reader may not expect, seen in the real program, without a run:

- `f()`, `g(int, Object)`, `c(int)` and `f(int, A)` under one name: the second
  and the fourth are ordered, but `c` is equivalent to both, and where they end
  depends on the order of registration. `OneAritySorted` is therefore stated
  for C++ overloads of one number of parameters.
- a body that throws `bad_boxed_cast` is taken for a mismatch; after the last
  round it is run again by `dispatch_with_conversions`, effects included.

Bounds: three overloads out of 13 (every pair of kinds that the comparison tells
apart, and one more that separates them), nine argument lists of up to two
arguments, one thread: calls only share `table`, which changes under them at
any moment. Guards hold throughout or never; what a function passed as an
argument does (`compare_type_to_param` lets it through) is left out.

### Evaluator

`frames` is the C++ stack: each frame is the `eval_internal` of a node, with
what its children have returned and how many scopes it has pushed. `ctl` says
whether the innermost node runs or is being left, by `Return_Value`, `Break_Loop`,
`Continue_Loop` or an exception; `Unwind` leaves one node that has no handler for
it, with its scopes and its stack (`Scope_Push_Pop`, `Stack_Push_Pop`), and one
action per handler says where it stops. `HandlesIt` is the disjunction of the
handlers' guards. Each other action is what a kind of node does between two of
its children.

A value is the index of a `Boxed_Value::Data`, which has an object, is const or
not, and a temporary or not; `=`, `:=`, `var &` and `clone_if_necessary` differ in
which of the three they copy or share, and `Cloned`, `AssignNumber`,
`AssignReference`, `AssignFirst`, `AssignObject`, `AssignPointer` and
`AssignObjects` say how. Numbers are ints and do not overflow here. The exceptions the engine throws are one class (`error`);
scripts can tell more apart.

`funs` is the set of functions defined so far; of those with one name at most one
takes the arguments of a call (`Taking`), since choosing is `Overloads`'. A call
(`EvalFunction`) has a stack of its own, whose only scope holds `this`, what a
lambda captured, and the parameters. `This` is the code's guess at the object:
`__this`, if that is the last name of the caller's innermost scope, else the first
argument of whatever function is called. A lambda's `Closure` holds the Data its
names were bound to, not copies of them.

The properties are about what is left behind: `StacksRestored` (whatever a node
is left by, the stacks are those it was given, but for names in the innermost
scope), `FinallyRuns`, `ConstantsKept`.

### Objects

`call_member` is `CallDeclaredAttribute` (an attribute that the class declares,
called with parentheses), `CallMethod` (any function that takes the object
first), `CallMethodMissing` (the script's own `method_missing`) and `CallMissing`
(that of `Dynamic_Object`, which makes the member an attribute, unless the object
is explicit). What is called through an attribute runs above the scope with
`__this` that `This_Foist` adds to the caller's stack (`CallAttribute`).

The C++ copy of a `Dynamic_Object` would share the values of its attributes.
`clone` and `=` are therefore functions of the script, written in
`dispatchkit/bootstrap.hpp:321`, which clone attribute by attribute; `Copy` and
`Overwrite` are what they do, recursively. `AttributesApart` says that it is
enough: no object holds an attribute, or what is in one, of another.

### Optimizer and OptimizedPrograms

`Optimize` rewrites a tree bottom up with the passes of `Optimizer_Default` in
their order. `OptimizedPrograms` runs each program as the parser built it, then,
in a new engine, as it was rewritten; `OptimizedSame` says that the host sees the
same effects and the same result. The pass `Return` is not there: it looks for
the body among the children of a `Def` or `Lambda`, which their constructors
have moved out.

`evaluator` runs 3113 programs. A jump (break, continue, return, exceptions of
the script and of the engine, none) is put into each kind of loop and into
switch, bare or inside every combination of try block, handlers and finally; or
into a function that a loop calls. Every pair of twelve uses of a parameter is
applied to ten kinds of arguments: variables, constants, results of operators
and of functions, temporaries. Loops run twice and functions do not recurse but
for a call that fails; a third round or a second try adds no pair of constructs.
Each of 27 changes (declarations, copies, assignments, captures, calls that
store) is followed by each of 34 statements that write or call a member, on three
objects of two classes, one of which has an object in an attribute: two holders
of one value, and one write through either, are what `AttributesApart` relates.
For each of the programs, in both forms, the outcome the model computes is the
one the interpreter gives.

The optimizer does change what a program does, in ways no document excludes;
such programs are not in the run:

- `int(1)` is a temporary, the constant it is folded to is const: a function
  that writes its parameter fails only in the rewritten program.
- The compiled loop gives the script a reference to its C++ counter
  (`chaiscript_optimizer.hpp:392`): `def k() { for (var i = 0; i < 3; ++i) { return i } }`
  returns a reference into a stack frame that is gone (`Garbage`).
- A statement that is only a name is dropped, and with it the error if there is
  no such name.

And of the evaluator, without a run:

- An exception that no handler of a `try` takes does not go on:
  `handle_exception` returns as if it had been handled
  (`chaiscript_eval.hpp:1263`, against `releasenotes.md:122`).
- A constant that the optimizer folded `!`, `&&` or `||` to is not const
  (`chaiscript_optimizer.hpp:272`) and can be written through a parameter.
- finally does not run if a handler is left by an exception, a return or a
  break (`FinallyRuns` says so).
- A break in a function that is not in a loop there ends the loop of its
  caller; `File_AST_Node` reports one only at the end of the program.
- `var r = x` takes a temporary over instead of copying it, also if `x` is a
  parameter that was given one: `r` and `x` are then one value.
- A constructor or a method that is called through an attribute (`d.f = C` and
  then `d.f()`) takes `d` for its object: `eval_function` looks for `__this` first.
- Reading an attribute that was never set makes it, undefined; the object cannot
  be cloned any more.
- `var o = C()` for a constructor that stores `this` in an attribute clones an
  object without end, and overflows the stack.
- `o = p` keeps the attributes of `o` that `p` does not have, so that `o == p` may
  be false after it; neither `=` nor `clone` copies the explicit flag.
- `o.a` without parentheses calls a function that is held in an attribute nobody
  declared, and returns one that is held in a declared attribute.
- `a := 3` makes `a` const; the clone of a vector shares its elements.
- An exception in a guard of `catch` cannot occur: the parser accepts none.

### Conversions

A call into the table is split where the code gives the lock back or reads
without it: `AddConversion` tests and inserts under the unique lock, `AddCount`
stores the atomic number of types, `AddUnlock` ends it; `Load` compares the size
of the thread's cached set with that number, `Refresh` copies the set under a
shared lock, and `TestFirst`, `Helper`, `Test`, `Has`, `ConvertUp` and
`ConvertDown` are what `dispatch`, `Param_Types::convert` and `boxed_cast` do
with the answer. A cast itself is the compiler's: only whether it may fail is
kept. `known` remembers whether a conversion was there, added and returned, when
a thread asked; `KnownIsFound` is then about the race of the count and the set.
`Rebuild` replaces the engine by another at its address. `~Thread_Storage`
erases only the entry of the thread that destroys it
(`chaiscript_threading.hpp:67`), so its guard is what the host has to see to: no
other thread has an entry, or it would keep a set of the old engine's types
whose size may happen to match.

A base class that is registered after a function in the reverse direction is
accepted, while the other order is refused: `find_bidir` takes a polymorphic
conversion for both directions, and the one that is being added for one only. So
two registered conversions may serve the same question.
Both failures of a conversion that exists and of one that does not end in the
same message (`misreported`). Bounds: two threads, three types, five conversions
of every kind; comparing sizes goes wrong, if it does, with two sets of one size.

### Grammar and Parser

`Grammar` has every production of `chaiscript_parser.hpp` as data, built from
the steps the C++ functions are written in: conjunctions and disjunctions that
short-circuit, loops, throws, tokens, `build_match`. `Parser` runs them with the
position and the match stack; a step that fails restores nothing, as in the
code. `Num`, identifiers and strings are tokens here; `Literals` reads the
numbers' characters. A text is one of 17 outlines (beginning, pieces, end) grown
by up to `MaxPieces` 4 pieces, which is 95,291 texts: each outline puts one part
of the grammar within reach, and two pieces before and after a construct are
what its look-ahead and its way back can meet. Tokens are taken as separated;
where two symbols touch, the code may refuse the first (`[1:-2]`, `true?1:-2`).
For each of the texts the model's tree, or its refusal, is the real parser's.

`WordsInOrder` compares the leaves of a tree with the text, `OperatorsBind` the
nesting of operators with their levels, `EvaluatorCanRead` the number and kinds
of children with what `chaiscript_eval.hpp` indexes or asserts, and the names that
`__FUNC__` and `__CLASS__` stand for with the function and class they are in;
`OneNodeOrNothing` runs every production by itself and looks at what it leaves behind.
Four kinds of production leave something although they fail, and are stated so: the
lists of arguments, whose callers ignore the result (an empty one is a node, too),
`Container_Arg_List` (the line ends it skipped), `For_Guards`, which stops at the
colon of a ranged `for` with the variable on the stack, and `Range_Expression`.
`EvaluatorCanRead` does not speak of an `if` with a second `else` (`SecondElse`),
nor of `__FUNC__` in a `def` within a function.
Seen on the way, without a run:

- A text that starts with `)`, or whose first statement does not parse up to
  something like `] foo`, is a program that does nothing; an `else` after the block
  of another gives its `if` four children, where `chaiscript_eval.hpp:850` asserts
  three: a debug build stops, another never evaluates the last block.
- `?:` is left associative; `a.f(x)(y)` does not parse; `for (;:v)` and
  attributes without separators do.
- In a `def` within a function `__FUNC__` is the outer function's name, where
  `cheatsheet.md:580` says the current one's, and it is found only behind a
  parameter list.

### Numbers

An integral type is its width and its signedness, which is all that
`get_common_type` keeps of it. `go` and `unary_operator` are the code's, with
promotion, the usual arithmetic conversions, the checks for a zero divisor,
wrap-around of unsigned types and of narrowing conversions; overflow of a signed type and a shift that is too wide
are undefined in C++ and in the model (`Undefined`). Magnitudes of floating
point values are not followed (`Unknown`). `lhs` and `rhs` are any two numbers,
`last` what came of the one operation that is applied to them (`oper`,
`oper_unary`, `cast` and `checked_cast`); an assignment changes `lhs`.

`values` has types of two, three (`IntWidth`) and four bits, in place of char,
int and long, and two of floating point: narrower, equal and wider than an int
are the cases that the conversions tell apart, and every number of these types is
tried. The theorems need no bound.

`x /= 0`, `x / 0`, `x % 0` throw; `x %= 0` ends the process (run
`numbers_zero`), and `x &= 0` throws without need: the two cases are next to
each other. `5.0 / 0` throws, because the check asks whether the divisor is
integral and zero, while `5 / 0.0` is infinity. The function that is registered
as `~` always throws (the prefix operator works), and `to_operator` does not
know `/=`.

### Literals, Decimals and Json

`Literals` is `Num`, `Hex`, `Binary`, `buildInt` and `buildFloat` over
characters, with an int of `IntBits` 3 and a long of `LongBits` 5 bits, so that
short texts reach all borders. `Json` is `JSON::Load` with every reader,
`dump`, `from_json` and `to_json`; a floating point number is the decimal it was
written as. `Values` compares both with their meanings: `CppReadings` and
`CppReals` are the literals of C++ with their types, `Meaning` is the grammar of
JSON applied to whole texts. Texts grow by single characters or short pieces, up
to `MaxPieces` 5; the readers never look further than one character back or
ahead and nest as deep as the pieces do. For 280,374 texts (longer ones among
them) the model's answers are those of the real code.

What they do with texts that are neither, which the properties leave open:

- `1e` and `1.5e` are the int 1, `.1ex` evaluates `x`, `08` is 0, `0x` and `0b`
  leave their letter to the next token, a binary literal takes no suffix, and a
  decimal one that no type holds is the largest `long long`.
- JSON that ends behind a comma (`[1,`, `{"a":1,`) is accepted, so is `1x` at the
  end of a text; `-` is 0; a key that is no string is empty; of an unknown escape
  only the backslash is kept; `\uXXXX` stays as it is; text behind the value is
  ignored; decimals after the sixth are lost, and an `unsigned long` above
  `INT64_MAX` is written as a negative number.

### Lists

A `Bidir_Range` is a container with two positions, a retro the range it turns
around (`turned`): its front is the back of `m_range`, and popping it moves the
other end. Every function of the prelude that is a loop over a range is the
recursion that the loop is, from the range it is at and what it has inserted.
Here ranges are values: that `range` of a range clones it, so that the caller's
is not used up, is not checked. `ListsAsDefined` compares each function with its
definition on the sequence of elements (`View`): for every list of up to five
elements of three kinds, every range over a part of it, turned around or not,
every predicate on elements, and every count from -1 to one more than there are
elements.

What they do beyond that, seen in the real program:

- `map`, `take`, `filter` and the others that make a container (`concat`, too)
  take containers only: there is no `new` of a range, although
  `chaiscript_prelude_docs.hpp` has `Range` as their parameter; `reduce` asks for
  the size of its argument. Those that are given an inserter take ranges, and so
  do the searches, `foldl` and `join`.
- `odd(-3)` is false, and so is `even(-3)`: `-3 % 2` is -1
  (`language/chaiscript_prelude.hpp:110`).
- Copies of a `Vector` or a `Map` share their elements: after `var b = a`,
  `b[0] = 5` changes `a[0]`.
- `generate_range` up to the largest int has no end that C++ defines.

A range keeps its container alive (`internal_obj`,
`language/chaiscript_prelude.hpp:153`), but its iterators do not survive a
container that grows, as C++ says; no function of the prelude changes the
container it reads.

### Boxes

A variable (`bound`) refers to a `Boxed_Value::Data` (`data`): how `m_obj` holds
its object (by `shared_ptr`, by reference, by `unique_ptr`), the object, the two
pointers beside it, whether its type is const, and whether it is a temporary
(`m_return_value`). `Cast_Helper` says what each kind of C++ parameter gets,
`MadeBoxes` and `GivenBoxes` are the boxes that `Handle_Return` makes of what a
function returns: an object that it made, or one of the host's, or one that it
was given, as const as it got it. `clone_if_necessary`, the declarations, the
assignments `=` and `:=`, calls of script functions and of functions that change
a `shared_ptr` or a `unique_ptr` they are given (`BeginUpdate`, `Update` or
`UpdateUnique`, `Sentinel` or `Return`, between which the script may be called
back) are the actions. Four things are for the properties only: `isConst`, the
objects that were made const; `sharing`, those that `:=`, `auto &`, the host or a
function's change of a `shared_ptr` gave to a second holder; and, in a box,
`borrowed` and `lent`.

`borrowed` says that a function returned the value as a temporary (`const T &`,
`T *`, `shared_ptr`: `handle_return.hpp:87-131`) without having made the object.
The next declaration takes such a value over, because of the flag, and copies
nothing (`chaiscript_eval.hpp:94-110`): after `var k = f(m)`, `k` may be `m`.
`OwnValue` allows that, by name, and nothing else: that a reference was not asked
for and yet two variables have one object is only so if one of them is `borrowed`.

`lent` says that a function has changed the `unique_ptr`. A `shared_ptr<T> &` is
cast through a sentinel, which takes the pointers beside `m_obj` over when the
function returns; a `unique_ptr<T> &` or `&&` is cast to the pointer itself
(`boxed_cast_helper.hpp:132-154`; `compiled_tests.cpp:1019-1054` register such
functions), and the pointers stay what they were, in every Data that `:=` has
made a copy of it. A cast with them is undefined, so none is followed (`Sound`):
`OneObject` says that nothing else goes stale. Bounds: a function changes one
pointer at a time, and an empty `unique_ptr` is not filled again.

The instance has two variables and a parameter, three Data, a const object of
the host's and two others: two variables and the argument that both came from
are the most that a property relates.

What an object contains is left out (`Objects` has the attributes of dynamic
objects, `Evaluator` the elements of vectors), and so are the attributes of other
values (`Data::operator=` keeps the left side's if the right side has none). While a function changes a `shared_ptr`, nobody uses the variable;
the documentation asks for that (`cheatsheet.md:239`). Seen in the real program,
and outside the model: `const T &` is boxed as a temporary, so `var k = p.first`
on a pair of a map takes the reference over instead of copying, and reads freed
memory after an erase; after a function has moved a `unique_ptr` away, a call by
`T &` reads through the pointer that was left behind.

## Runs

| run | question | result |
| --- | --- | --- |
| `lookup_cache` | does a cached position or a hint ever answer differently from a search, with two threads racing on the same nodes and states being restored? | no |
| `use_files` | are the mutexes balanced, is a file evaluated once, are failures seen, does every thread end, is it an `OnceLoader`? | yes |
| `engine_tables` | is a loaded module complete, is a global replaced only on purpose, does every call return? | yes |
| `call_lifetime` | are depth and lists balanced, and referred objects alive? | yes |
| `conversions` | is a conversion found that was added before the question? | yes |
| `overloads` | are overloads tried best first, none missed, and sorted whatever the order of registration? | yes |
| `dispatch_empty` | does dispatch look only at arguments that are there? | no: two guarded functions without parameters crash it |
| `evaluator` | are scopes and stacks restored and finally run however a node is left, are constants kept and attributes apart, does the optimizer change what a program does? | they are; it does not |
| `parser` | does the tree have the text's words in order, the operators' nesting and the children the evaluator reads; does a failed production leave nothing? | yes |
| `parser_guard` | is a guard that was written a guard of its function? | no: without a parameter list it is never evaluated |
| `values` | do operators answer as the integers do, are literals those of C++, is JSON read as what it means, do list functions return what they should; do const objects stay const, and variables keep objects of their own, but where a reference was asked for or a returned temporary taken over? | yes |
| `numbers_zero` | does dividing by zero throw? | no: `%=` ends the process |

Deadlock is checked except where the programs or the texts end: `use_files`,
`engine_tables`, `parser`, `values` and the violation runs of the last two. In
the first two `Termination` and `CallsReturn` say that what
stops has finished. In `evaluator` only a program that has ended may stop
(`Stop`): a node or an exception that no action takes on would be a deadlock.

## What is proved

TLAPS proves these for every value of the constants, from the assumptions named
in the modules. In all the modules the invariant is shown to hold initially and to
be kept by every action, one lemma or step per action; temporal steps only combine these.

`LookupCacheProofs`, for every well-scoped program and every set of threads
(`ProgramAssumption`, `ShapeAssumption`, `WellScopedAssumption`): `TypeCorrect`, `FramesKeepShape`,
`LookupCorrect` (`LookupAgrees`), `CachedPositionNeverMoves` and
`SharedAnswersAreFresh`. `LookupAgrees` is not inductive: that a cached position
is right says nothing about the next call unless the next call's stack has the
same shape. `IInv` adds `FramesFollowShape` (each suspended or running stack has
the shape of its point, with the foisted `__this` scope below an attribute
call), `CacheSound` (what `m_loc` may hold at each node) and `LookupSound` (what
a lookup in progress has loaded is sound for its own point).

`EngineProofs`, for `CallLifetime`, with every depth and number of objects
(`LifetimeAssumption`): `NestingHolds` (`Balanced`), `ReferredStaysAlive`,
`ParamsReleased`, `ConvertedStaysAlive`. `Balanced` speaks only of the innermost
node, so its invariant `Nested` gives every node its depth and level from the
node below; `Ordered` says they never decrease outwards in, and that what a node
holds is older than the nodes inside it. That a value is alive says nothing about
what happens when the innermost node is left, so `Kept` says of every value a node
holds what keeps its object among the nodes below (`KeptBelow`): one that owns it,
or a list of one of their scopes, for every node younger than the object; then
whatever is popped, the rest keeps it. `KeptConv` and `Waiting` say the same of
conversions, and `EmptyBelow` that the lists below the outermost call are empty,
which is what the test `call_depth == 0` of `pop_function_call` relies on.

`EngineProofs` also has the theorems about `EngineTables`, for every set of
threads, modules, names and programs (`TablesAssumption`): `GlobalsAreKept`
(`GlobalsKept`) and, for a program that satisfies `ModulesApart`,
`LoadedIsComplete` (`ActiveIsComplete`). `GlobalsKept` needs that a call bound to
overwrite is one of `set_global` or `set_state`, hence only that the control state and
the globals are well formed (`TablesOK`). `ActiveIsComplete` is far from
inductive: that a module is complete when its load ends depends on what all the
calls before left alone. `ModulesInv` says that of a module that is not active,
now or in the saved state, nothing is bound at all (`Free`), that of one that is
active, or was when the state was saved, everything is there (`Whole`), and that
a load in progress, which owns `m_use_mutex` as the only one (`CallOK`), has
still to add exactly what is missing, and that all of it is free (`LoadOK`). `Free` is what lets a load
succeed, and has to be known of the saved state too, since `set_state` brings it
back; conversions stay, which is why `ModulesApart` asks that such a program
restores no state. Every step of another call spares the module (`Spared`).

`UseFilesProofs`, for every set of threads, files, paths and programs
(`EngineAssumption`, `FilesAssumption`): `LocksAreBalanced` (`LocksBalanced`),
`EvaluatedOnlyOnce` (`EvaluatedOnce`), `ImplementsOnceLoader` (`LoaderSpec`) and,
if `NamesApart` holds of the programs, `SkipsOnlyTheMissing`
(`SkippedOnlyIfMissing`). None of these is
inductive. The invariant adds `Stacks` (scripts and calls alternate on a stack,
and every call below the top has loaded the file of the script above it), `Owners` (who may own a mutex), `Recorded` (the names in `m_used_files` are of files that were
completed) and `Fresh` (a file that a call of `use` evaluates is not in
`m_used_files`). `Fresh` is kept because another thread cannot hold
`m_use_mutex`, and a call further down on the same stack is of a file of higher
rank, hence of another file. The same two facts make the levels of one file
unique, which is what the map to `OnceLoader` needs. For
`SkipsOnlyTheMissing`, `Failures` says that every `file_not_found_error` in
flight, also one that `wait` brings from another thread, names no file that
exists. It is kept because a call of `use` that gives up has tried every path before
(`Tried`), the empty one included. `NamesApart` is a hypothesis of this theorem only;
the instance of `use_files` satisfies it (`ScriptsKeepNamesApart`), with a file
on the empty path.

`OverloadsProofs`, for every set of functions, types, argument lists and threads
(`OverloadAssumption`): `AddedInOrder` (`OneAritySorted`), `BestFirst`
(`RunInOrder`), `NoOverloadMissed` (`NoneMissed`), and the invariant they follow
from, `TypeAndOrder`. What `FunctionLessThan` is worth is proved in three
parts. It is asymmetric, whatever the functions. An insertion into a
`Chain`, where no overload is less than its left neighbour, gives a chain; this
needs asymmetry only, so `Chain` holds of every table. Among C++ functions of
one number of parameters it is a strict weak order, and a more specific
function is less: there, neighbours in order are a whole vector in order. It is no
strict weak order over several numbers of parameters, which is why
`OneAritySorted` goes no further. `std::stable_sort` is the insertion
sort of the model up to seven overloads; of longer vectors of one number of
parameters the standard promises the same order, and the results on dispatch need no order. For dispatch, `Good` says of each call, with
the vector that it fetched, that every overload that accepts the arguments and
that the loops over rounds and places have passed was entered, and all of them
when the loops are over; with `InOrder` of those entered this is inductive,
`RunInOrder` and `NoneMissed` are not.

`EvaluatorProofs`, in its first half for every program and every way that
values are copied: `IInvHolds`, `StacksAlwaysRestored` (`StacksRestored`),
`FinallyAlwaysRuns` (`FinallyRuns`). `StacksRestored` compares the stacks that a
node leaves with those it was given, and is not inductive: a node
has to be known to own what its handlers and destructors pop. `StackInv` says of
each active node how many scopes it has pushed in which phase (`FramesOK`),
that under them, and under its stack if it is a call, are the stacks it began
with but for names added to their innermost scope (`Chained` for the node inside it, `Held`
for the innermost), that a scope is pushed before the first child is evaluated
and not before the node runs (`Fresh`), and that a `try` leaves the phase it
begins in before anything else happens (`Begun`), without which an exception
could pass its finally. The theorems are of `ObjectsSpec`, the evaluation of one
program with classes and attributes. `OptimizedPrograms`, which the run
`evaluator` checks, takes the steps of `ObjectsNext`, and between two programs
starts again from a new engine.

The second half is `ConstantsAlwaysKept` (`ConstantsKept`): a `Constant` node
gives the same `Boxed_Value` to whoever evaluates it, by reference, and yet it is
the same at every evaluation. It is not inductive for three reasons, and
`HeapInv`, which is (`HeapAlwaysSound`), has a part for each:

- The Data of a constant is const, but another Data might hold the same object.
  `SoundHeap` (`Heaps`) says that what a const Data holds is held by const Data
  only; functions and objects of classes are excepted, since `:=` and methods
  write those, and a constant is neither. Every way of making, copying and
  assigning a Data keeps it (`Keeps`): `:=` and `=` of a reference, for one, make
  two Data share an object, so what they copy has to be const if the other is;
  `=` of a vector answers a Data that is not const, so what it writes must not be.
- A value in a name, a frame, a vector, an attribute or a capture must be one
  there is, or the step that reads it could do anything (`Fit`: each frame's
  values, number of values, node and phase; the scopes; `LambdasFit`, `FunsFit`).
- Two constants may share no Data that one of them changes: each has its own,
  const, with its value (`ConstsFit`).

It is proved of every set of nodes that contains the programs and is
`WellFormed`: every node has the children that the evaluator reads, operators
are those the model knows, and a constant is const and is a value without parts.
That excludes the programs with a folded `!`, `&&` or `||` that stays an
argument (see Optimizer above), for which the property is false. And it
is proved of behaviours in which copying does no harm (`CopyingSound`): cloning an
object attribute by attribute, and assigning one, makes new Data and objects, and
writes no const ones. What `Copying` does is recursive, so this is not
proved. TLC evaluates both assumptions, in `MCEvaluator`: `WellFormed` of every
program of the run, before and after the optimizer, and `CopyingKeeps` of those
of 41,472 heaps that are sound, in which two objects of a class, or one, share
attributes of every type, const or not, with objects in objects. The hypothesis is about the heaps of a
behaviour, and not about all heaps, because cloning an object that holds itself
does not end, in the model as in the code.

The proof found two mistakes in the model, that no run showed. `CallHost` had no
guard on the number of arguments, so a host function called with none read a
value that is not there; it is now an error, as in the code. `CanDeepAssign` and
`DeepAssign` disagreed on objects that have one Data without a value in two
attributes: the first asked of the heap as it was before whether each attribute
can be assigned, but the second attribute has a value by then. Both now follow
from one operator, `Assigned`, which goes on from what the attributes before have
made of the heap, and knows whether one of them failed.

`ConversionsProofs`, for any threads, types and conversions
(`ConversionsAssumption`): `TypeCorrect`, `KnownConversionIsFound`
(`KnownIsFound`) and `CachesGrow`.
The invariant adds that the set of types is that of the table, that the count is
its size but between `AddConversion` and `AddCount`, and that a cached set is
a subset of it: a subset of the same size is the same set, which is why
comparing sizes is enough.

`ValuesProofs`, for `Numbers` and `Boxes`:

- for every choice of widths (`WidthAssumption`, `UnknownAssumption`):
  `OperandsKnown`, `AssigningAgrees` (`AssignAgrees`) and `NumbersAsIntegers`
  (`AnswersAsIntegers`). The invariant says that the operands are numbers of
  their types and that the last outcome is that of the operator on the operands
  it was given. The provers know nothing of powers, so `TwoTo` is a recursive
  function, and what is needed of it (it is there, it grows, `WidthPowers`) is proved.
- for any variables, Data and objects (`BoxesAssumption`): `ConstIsKept`
  (`ConstKept`), `OneObjectSeen` (`OneObject`) and `VariablesOwn` (`OwnValue`).
  The invariant says of every box in use that its pointers are those of its
  object (`Current`, but for a `shared_ptr` under update and a `unique_ptr` that
  was changed), that one that is not const holds nothing that was made const
  (`Writable`), and that a temporary, and what a variable was declared with, have
  their object alone, are `borrowed` or are shared on purpose (`Apart`): a
  temporary has to be in it, because the next declaration takes it over. A
  `unique_ptr` is neither const, borrowed nor the host's (`Harmless`), so a change
  of it in all the Data that hold it makes nothing new common (`UpdateUniqueKept`).

`SequenceFacts` has the lemmas about sequences, and `SetInduction`, an
induction over the naturals for a set instead of a predicate, which the
provers can use: what is proved of recursive functions (powers of two, the sort)
goes by it.

### Only model-checked, and why

- `Termination` and `CallsReturn` are liveness properties, which the prover does
  not reach.
- `ActiveIsComplete` (`EngineTables`) is not true of every program: a load can
  fail half way (see the hazard at `chaiscript_engine.hpp:587`). It is proved for
  the programs of `ModulesApart`; that it holds of the 7 others of
  the instance is checked.
- `AttributesApart` is about what the recursive operators of `Copying` reach in
  the heap, and so is the hypothesis `CopyingSound` of `ConstantsAlwaysKept`.
- `OptimizedSame`, and the invariants of the parser, of literals, JSON and list functions,
  are about recursive operators: what those compute for every tree or text needs
  an induction over data.
- Type invariants are stated where a proof needs one (`LookupCache`,
  `CallLifetime`, `Conversions`, `BoxesOK` in `ValuesProofs`, `OverloadsInv`), and
  no run repeats those that are proved.

## Not modelled, and why

In the order in which it is worth doing:

1. `Evaluator`: maps and ranges, `global`, names of functions as values, guards
   together with overloads, an assignment of objects that fails half way.
2. Bound functions, a `method_missing` of the name alone, `==` of objects.
3. Proofs: that no two objects share an attribute (`AttributesApart`).

Left out of what is modelled: the parser's depth counter and lines and columns;
the magnitudes of floating point values, the rounding of doubles, integers
beyond 64 bits in JSON, indentation, and `to_string`; bool operands of
`Boxed_Number`; `Dynamic_Object` in `to_json`; a module's scripts and the search
for its file; other threads' entries in `Thread_Storage` when an engine ends.

Not planned: dynamic library loading by the platform, the bindings of
`bootstrap_stl` beyond what the prelude uses, functions of strings that hand a
position to `std::string`, templates that the compiler
resolves, the command line program, and the test framework
(`unittests/catch.hpp`, about half of the repository's lines, is third-party
code). Of the library itself, about 17,500 lines below `include/chaiscript`, the
modules stand for some 7,000; most of the others are documentation
(`chaiscript.hpp`, `chaiscript_prelude_docs.hpp`), declarations, templates that
only build types, registration of functions, and the text of error messages.
