# A TLA+ model of cpplox

cpplox is an implementation of the Lox language in C++. It holds two interpreters: a compiler to
bytecode with a stack machine and a garbage collector (`src/src/Bytecode`,
`src/include/cpplox/Bytecode`), and a tree-walking interpreter (`src/src/Treewalk`), which also
lends its scanner to the former. This directory models both, apart and side by side. `src/Bytecode`
and `src/Treewalk` are byte-for-byte copies of the directories below `src/src`.

Everything is sequential. What makes the code hard is not concurrency but state that several parts
must agree on: the compiler predicts the machine's stack slot by slot, nested compilers reach into
suspended ones, upvalues point into a stack that grows and shrinks under them, a collection may run
at every allocation, the resolver predicts which environments the tree walker will be in, and
exceptions leave any number of those at once.

## The system's parts

| Part | State | Operations | Correct when |
|---|---|---|---|
| `gc_heap` (GC.h, GC.cpp) | `cells`, `root_marking_callbacks`, `reachable`, mark bits | `make`, `collect`, `mark`, `register_`/`deregister_root_marking_callback` | no `gc_ptr` in use dangles, garbage is freed, collections end |
| roots and tracing (LoxObject.cpp, Value.h, the callbacks in Compiler.cpp and VM.cpp) | the object graph | `trace_references`, callbacks | every pointer that will be used again is reported |
| `StringPool` | `ptr_by_content` | `insert_or_get` | one live string per content |
| `Scanner` | position in the source | `tokenize` | every token is the longest match, every line counted |
| `Compiler` | `tokens`, `current`, `previous`, `locals`, `upvalues`, `scope_depth`, error flags, chain of `enclosing` compilers | one procedure per grammar rule, `emit_*`, `resolve_*`, `synchronize` | ends on every input; what it accepts is code the machine can run without checks |
| `Chunk`, `Function` | `code`, `line_numbers`, `constants` | `add_*` | the tables grow together |
| `Disassembler` | – | walks a chunk, or one instruction | shows the instructions that are executed |
| `VM` | `stack`, `call_frames`, `open_upvalues`, `globals` | one case per opcode, `call`, `add_or_get_upvalue`, `close_upvalues` | closures share variables, frames stay on their closure, nothing is read outside a vector |
| `ByteCodeRunner` | heap and pool across runs, the text entered so far | `run`, `runFile`, `runRepl` | a program with an error is not run, the next one is |
| `ErrorReporter` | messages, status | `set_error`, `clear` | |
| Treewalk `Parser` | `current`, the tree | one function per grammar rule, `synchronize` | ends on every input; precedence as in `Compiler` |
| Treewalk `Resolver` | stack of scopes | one visitor per node | distances lead to the declaration at run time |
| Treewalk `Interpreter`, `Runner` | environments, `locals`, values | one visitor per node | the same language, the same results; environments restored on every way out |

How they interact: `ByteCodeRunner::run` scans the source, lets a `Compiler` make a `Function`
(nested functions get a nested `Compiler`), and gives it to a new `VM`. Compiler and VM allocate
through `gc_heap` and `StringPool`, both of which outlive them, and register callbacks that the heap
calls back in a collection. `Runner::run` scans, parses, resolves and interprets with one
`Interpreter` for all lines. In both, each stage runs if the `ErrorReporter` they share has no
error.

The behaviours that tests hardly reach are listed, each with its line, under `hazards` in
PROJECT.json: error recovery that does not get on, indices that wrap round at a byte, captured
variables at scope exits, the order of open upvalues, the reference in a call frame, marks left over
between collections, objects nobody marks, exceptions through nested environments, trees that are
gone when their functions are called.

## The modules

The bytecode interpreter:

| Module | Models | Note |
|---|---|---|
| `PointerGraph` | the object graph, reachability | used by `Heap`, `GCHeap` and the proofs |
| `Heap` | what the heap promises | abstract: a collection that has begun ends in one step that frees exactly what nobody can get to |
| `GCHeap` | `gc_heap` | mark and sweep, step by step; refines `Heap` |
| `GCHeapProofs` | – | theorems about `GCHeap` |
| `Bytecode` | Chunk.h, `Function`, `Value` | also says what well-formed code is (`Verified`) |
| `Disassembler` | Debug.cpp | extends `Bytecode`; its own idea of the layout of instructions |
| `Tokens` | the token types of `Scanner` | |
| `Compiler` | Compiler.cpp | extends `Disassembler`, which it runs over each finished chunk |
| `CompilerProofs` | – | theorems about `Compiler` with any source: types, scopes, upvalues |
| `CodeFrames` | – | lemmas about code alone: when the walk of `Verified` accepts it |
| `CodeTyping` | – | lemmas: what each procedure of `Compiler` does to the code |
| `CodeProofs` | – | theorems: the code of `Compiler` is well formed, locals are on the stack |
| `VM` | VM.cpp, `RuntimeUpvalue`, `Closure` | |
| `SequenceFacts` | – | lemmas about sequences, least and greatest numbers, induction |
| `LoxGC` | the callback of the VM, `trace_references`, the collection of `make` | extends `VM` |
| `VMProofs` | – | theorems about `VM` with any code and with well-formed code, and about `LoxGC` |
| `Variables` | captured variables (LoxObject.h:45-48) | abstract; `VM` and `Lox` are shown to implement it |
| `Lox` | `ByteCodeRunner` | composes `Compiler`, `VM` and `LoxGC` by `INSTANCE` |

The tree-walking interpreter:

| Module | Models | Note |
|---|---|---|
| `Ast` | values, nodes of Expr.h and Stmt.h, `ErrorReporter` | |
| `Scanner` | Scanner.cpp, from characters | |
| `TreeParser` | Parser.cpp | |
| `Resolver` | Resolver.cpp | |
| `Interpreter` | Interpreter.cpp | |
| `Treewalk` | Runner.cpp | composes the four |
| `Scoping` | what Parser.cpp and Resolver.cpp promise Interpreter.cpp of a program | the same as `Resolver`, by rules and without recursion |
| `ResolvedPrograms` | `Runner::run` from resolving on | `Interpreter` with any programs that are resolved as `Scoping` says |
| `InterpreterProofs` | – | theorems about `ResolvedPrograms` |

`Agreement` runs `Lox` and then `Treewalk` on the same tokens. `LoxPrograms` has the programs of
`src/test` with the output their `expect` comments ask for. The modules `MC*` give TLC its inputs.

**GCHeap.** The variables have the names of the fields; `marked` is the set of cells with
`is_marked`. `Make` is the entry of `make()`, with the test for a collection; the collection is
`InvokeCallback` per callback, `StartTrace`, `Trace` per cell of the worklist (`reachable`, a set:
the order is left open), `Sweep`; `Construct` is the rest of `make()`. Clients are abstract: `held`
are the `gc_ptr`s in their local variables, `roots[o]` is what the callback of owner `o` marks, and
between two allocations they copy and drop pointers as they like. `Rooted` is the rule collections
rely on: whoever calls `make()` has every pointer it will use again reachable from a root.
`DEBUG_STRESS_GC`, with which the heap collects, is defined in common.h:8; `Threshold` stands for
the 4 of GC.h:140.

**LoxGC** asks the other half of the question: which of its pointers does the machine report? `Held`
and `Contents` are the `gc_ptr`s that the machine and its objects hold, `Roots` and `Traced` those
that the callback and `trace_references` mark. The two differ: functions of closures and cells of
upvalues are passed over, their contents are not. `ValuesSurvive` shows that, for well-formed code,
nothing but the upvalue cells is ever lost by that.

**Compiler.** The C++ procedures are mutually recursive. The model keeps the calls still to be made
in `work`, innermost first, and one step runs one procedure up to its next recursive call
(`RunIfThen` is `if_statement` from the condition to the first branch). Procedures that call nothing
recursive (`parse_variable`, `patch_jump`, ...) are operators from state to state, applied inside a
step. A step is deterministic; the nondeterminism is in the program to compile. `compilers` holds
the nested `Compiler` objects, so that `resolve_upvalue` can change the enclosing ones. Error
messages are reduced to their kind and token. `number` and `string` take the value from the
constants `NumberValue` and `StringValue`; source text is a sequence of lexemes.

**Bytecode.** Code is a sequence of bytes, addressed from 0. `UINT8_MAX` is a constant: 255 is the
real one, and with 3 or 7 the limits of one- and two-byte operands come within reach. Opcodes keep
their real numbers even when they do not fit such a byte. `Verified` walks a function along every
branch and requires each instruction whole, its operands in range, one stack height per address, and
captured slots to leave the stack by `OP_CLOSE_UPVALUE` or `OP_RETURN` only. No such verifier exists
in the program; it is the contract between its two halves, which is otherwise implicit.

**VM.** One action executes one instruction. An instruction that would read outside of a vector or
fail an assertion takes `Undefined` instead of its action, one that ends the program takes
`RuntimeError` (which may be undefined too, as it looks up lines). `trace_execution`, which
`DEBUG_TRACE_EXECUTION` (common.h:6) puts in front of every instruction, is left out: it changes
nothing, but after a loop it, too, looks up lines behind the end of the table (finding 2). Closures
and upvalues are numbered in order of creation; memory is not reclaimed here. An upvalue is a record with an `index`
while it is open and with a `value` once it is closed. Numbers are integers, divisions exact; NaN
and rounding are out of the model. `READ_UINT16` has two unsequenced increments of `ip`; the model
evaluates from left to right as clang does, the compiler that the sources are written for
(`std::vector<const Token>` needs its library).

**Variables.** A sequence of variables that only ever grows, of which one at a time is assigned to,
and only by an assignment; leaving a scope changes none. `VM` maps each `RuntimeUpvalue` to the
value it stands for, on the stack while it is open and its own afterwards, so that `close_upvalues`,
the sharing in `add_or_get_upvalue`, and anything that disturbs a captured slot have to be
invisible.

**Lox.** Compiles, then interprets when the `ErrorReporter` has no error, whatever `compile()`
returned: that is what `run` does. A session is a sequence of lines; `EnterLine` appends the next
one to the text entered so far and runs all of that again, in a new `Compiler` and `VM`, as
`runRepl` does. `runRepl` has no end: when its input has, it runs the last text for ever. The model
stops with the last line.

**Treewalk.** A line goes through `Scan` (one action per `scan_token`), `ParseNext` (one per turn of
`parse`), `Resolve` and `Interpret`. The functions of `TreeParser` map the index of a token to where
they stop and what they return or throw; those of `Resolver` map its scopes to the next, and so
follow the recursion of the visitors. `Interpreter` is a machine: `todo` is what the C++ call stack
has still to do, and an exception is the removal of all of that up to where it is caught. A node is
identified by the token it was made at, plus `base`: the allocator may put the tree of a line where
that of an earlier line was, or not, and `Interpreter::locals` is keyed by address.

**Scoping, ResolvedPrograms.** `Resolver` is a recursion over the tree with a stack of scopes and a
map that keeps what is inserted first. `Scoping` says what comes of it: a set of visits, each a node
with the scopes around it, that has the visits of the program's statements and all that follow from
its members, and in which each use of a variable has the distance of the innermost scope with its
name. `ProgramsResolved` checks that what parser and resolver hand on is such a program;
`ResolvedPrograms` gives the interpreter any such program, and is what the theorems are about;
`MCTreewalk` instantiates it, for a session without lines.

## The runs

| Run | Question | Inputs and bounds |
|---|---|---|
| gc | `TypeOK`, `NoDangling`, `MarksClear`, `MarkingSound`, refinement `HeapPromise`, liveness `MakeReturns` | 3 cells, 2 owners, threshold 1 |
| compiler_code | `UpvaluesResolve`, `LocalsMirrorStack`, `VerifiedCode`, `ListingsAreTrue`, `ReadsInBounds`, `ScopesBalanced`, liveness `TerminatesOrStalls` | the 65 test programs; all balanced nestings of up to 5 of 7 fragments; 6 beginnings, each followed by up to 2 of 11 tokens; real byte size |
| compiler_limits | `TypeOK`, `IndicesFit`, `VerifiedCode` | bytes of 2 bits; programs that repeat a statement around each limit |
| vm_code | `TypeOK`, `OpenUpvaluesOrdered`, `WellFormedCodeIsSafe`, `FramesHoldTheirClosures`, `ValuesSurvive`, refinement `UpvaluesAreVariables` | 34 484 scripts, call depth 2, stack up to 10 |
| lox_tests | `TestsPass`, `NeverUndefined`, `InterpretersAgree`, liveness `RunEnds`, refinement `CapturedVariables` | 65 test programs and 5 more, the shorter ones also as two lines at the prompt; nestings of up to 5 of 6 fragments, in which a variable is printed and incremented; chains of up to 3 operators; runtime errors behind one and two loops: 6 586 sessions; real byte size and call depth |
| lox_limits | `LimitsOnlyReject` | the 70 programs, the shorter ones at the prompt; bytes of 3 bits |
| tree_tests | `ScannedByPatterns`, `ProgramsResolved`, `ResolvedNamesFound`, `EnvironmentRestored`, `ReturnsCaught`, `TreeTestsPass`, liveness `SessionEnds` | the 65 test programs as text; 13 sessions; all strings of up to 4 of 7 characters; nestings of up to 4 of 8 fragments; 529 programs given to `ResolvedPrograms`: a statement, a function or block of two statements, and a call, in a block or not, as far as they are resolved, then the call again |
| compiler_livelock, compiler_line_table, lox_upvalue_limit, tree_repl, gc_trace | the findings below | one program each, gc_trace the 70 |

The test programs are 65 of the 275 `.lox` files in `src/test`, transcribed as lexemes. Of the others,
81 are about classes, which neither interpreter implements, and 11 are benchmarks; the rest, many of
them single errors, is not transcribed.

Why the bounds are enough. Three cells make a root, a chain behind it, a cycle, and garbage that
points into live cells; for larger graphs there are the theorems. `MaxCode` (60 to 500 bytes) cuts
compilations off that never end; in the passing runs it is beyond what terminating compilations of
these inputs emit, and a compilation that the bound stops would violate `TerminatesOrStalls` and
`RunEnds` unless it stalls. Five fragments nest two functions with blocks and captures between them;
the tests and further programs nest deeper. A stack of 10 and a call depth of 2 hold a script, a
call and its arguments; scripts that recur or loop endlessly are cut off at `MaxStack`, `MaxOutput`.
`MaxEnvironments` does that for the tree walker. Deadlock is checked where the specification is
`FairSpec` or `Paced` (below); the others model programs that stop, so it is switched off there.

In gc, cells and owners are interchangeable, but liveness allows no `SYMMETRY`. The action
constraint `LeastFirst` takes new cells and owners in order instead, which leaves out only
behaviours that are others with the names permuted.

`VerifiedCode` shows of each accepted program that the machine can run it, and
`WellFormedCodeIsSafe` shows of well-formed code that the machine can run it safely: the two meet in
`Verified`. `NeverUndefined` of `lox_tests` shows the same end to end. It is about what instructions
do to the code, the constants, the stack, the upvalues and the call frames. It is not about the line
table, which is too short behind a loop (finding 2): `LateErrors` has programs whose runtime error
finds no line there, and one that finds a wrong one. Nor is it about functions with more upvalues
than a `uint8_t` counts (finding 3).

`LocalsMirrorStack` is the comment at Compiler.cpp:606 made precise: whenever a statement begins,
the code emitted so far leaves exactly the locals on the stack, on every way through it. A jump that
is not patched yet leads nowhere so far. `ResolvedNamesFound` is the same contract in the other
interpreter: the environment at the distance that the resolver counted on the syntax has the
variable, wherever calls, returns and exceptions have led. The mutant runs show what each property
notices: a captured local that is not marked, a branch that forgets to pop its condition, an upvalue
listed in the wrong place, a recovery that drops no token, and so on; these faults stand next to the
definitions they change, each under a comment that says so.

### Where the two interpreters differ

`InterpretersAgree` excuses what the sources do differently on purpose or by nature:

- only `Compiler` rejects a local variable that is declared twice in a scope, and one that is
  assigned to in its own initializer (`{ var a = a = 1; }`): `Resolver` rejects reading it there
  (Resolver.cpp:62-71) but not assigning (75-78), which at run time assigns to a variable of that
  name further out, or fails if there is none;
- a native function is printed as `<native fn>` by one and as `<fn clock>` by the other, and only
  the tree walker compares its arguments with its arity;
- only the machine limits the depth of calls (128);
- a runtime error ends the machine's program; the tree walker reports it, leaves the innermost block
  or call, which yields nil, and goes on. So what the machine has printed is a prefix there.

A `return` in a function named `script` is rejected by `Compiler` as one at top level
(Compiler.cpp:328), by the tree walker it is not; no program of the run has one.

### Fairness

`FairSpec` of `GCHeap` assumes weak fairness of the collector's steps: once `make()` has been called
it runs to its end, as it is a plain function call. Nothing is assumed of clients. In `Compiler`,
`Lox`, `Agreement` and `Treewalk` one thread does everything and there is one next step, which it
takes: `FairSpec` is `Spec /\ WF_vars(Next)`.

TLC takes too long over `ENABLED <<Next>>_vars`, for which it makes each step again. And a loop whose
turns change nothing, a recovery that drops no token for one, is stuttering under `[Next]_vars`,
which `<<Next>>_vars` never counts: such a loop has to be caught and not be defined away. The MC
modules therefore have `Paced`: a variable `beat` changes with every step, so that every turn of such
a loop is a step, a fair one, that leads back to where it was; and `CanStep` says when there is a
step. What `CanStep` says is itself checked: where it is true and no step is possible TLC reports a
deadlock, and where it is false and the program has not ended the liveness property fails.
`RunSynchronizeStaying` and `SynchronizedInPlace` are faults of that kind, in both parsers.

## Findings

1. **Error recovery may not get on** (Compiler.cpp:753-773). `synchronize` consumes nothing if the
   previous token is `;` or the current one begins a statement. In `print 1; class A {}` the token
   `class` begins no expression and is not consumed by the error either, so `compile` loops forever.
   `TerminatesOrStalls` shows that this is the only way for compilation not to end: wherever it does
   not end, it comes to a declaration that fails on its first token, at a place where
   `synchronize` stops at once. (Where `synchronize` gets on, as after `) print 1;`, so does
   compilation.)
2. **The line table is too short after loops** (Compiler.cpp:685-686 against Chunk.h:56). Readers are
   `set_runtime_error` and, with `DEBUG_TRACE_EXECUTION`, every instruction.
3. **256 upvalues are allowed, but the machine's counter is a `uint8_t`** (VM.cpp:134 against
   Compiler.h:246-247): the loop never ends.
4. **What one line of the tree walker's REPL declares, the next cannot call** (Runner.cpp:45 against
   Runner.h:24): `run` destroys the statements that functions refer to.
5. **A collection between compiler and machine frees the program** (VM.cpp:14, VM.h:56, against
   GC.cpp:30). The compiler has deregistered its callback and no frame exists, so nothing marks the
   compiled function, its name and its constants when the closure of the script is made. In the
   counterexample, a program of one string and a call, these and the native function are more
   than four cells. Once the program runs, upvalue cells are never marked (LoxObject.cpp:62).

## What is proved

`GCHeapProofs` proves for every set of cells and owners, every threshold and every object graph:

- `TypeCorrect`: `Spec => []TypeOK`.
- `NoPointerDangles`, `MarksAreReset`, `MarkingIsSound`: `[]NoDangling`, `[]MarksClear`,
  `[]MarkingSound`, assuming `Rooted`.
- `ImplementsHeap`: `Spec => HeapPromise`, assuming `Rooted`: each step of the collector is a
  step of `Heap` or a stutter, and the sweep frees exactly the inaccessible cells.

The inductive invariant is `IInv`. `NoDangling` alone is not inductive: that the sweep frees no cell
in use follows from `marked` being what the roots reach once the worklist is empty
(`DrainedMeansReached`). That takes both halves of the tricolour argument in `MarkingSound` (traced
cells have their pointers marked; nothing unreachable is marked), that callbacks which have run have
their roots marked and that only registered owners have roots (`RootsRegistered`), that the first
callback is where a collection starts (`StartsAtFirst`), and that what the caller of `make()` holds
stays rooted until the sweep (`CallerRooted`), its arguments included (`ArgsHeld`).
`PointerGraph!Reach` is defined as a least closed set instead of by recursion, so that four lemmas
(contains its roots, is closed, is least, absorbs what it reaches) say all the proofs need.

The machine is proved about for every program, that is for every sequence of functions that `Function`,
`Chunk` and `Value` can represent (`ProgramsAssumption`: there is a script, code is bytes, constants
are numbers, strings and functions of the program), every size of a byte and every call depth.
Nothing is assumed of what the code does; what needs well-formed code has `WellFormed` in the
property.

`VMProofs` has an inductive invariant for each of these, one on top of the other:

- `MachineInv`: `TypesCorrect` (`[]TypeOK`) and `UpvaluesOrdered` (`[]OpenUpvaluesOrdered`). The two
  need each other: that `add_or_get_upvalue` finds a captured variable or the place for it, and that
  `close_upvalues` may stop at the first upvalue below the scope, rests on the order; that indices
  may be compared at all, on the types. Both hold of any code, because an instruction that would
  break them is undefined.
- `SafeInv`: `VerifiedCodeIsSafe` (`[]WellFormedCodeIsSafe`) and `FramesKeepClosures`
  (`[]FramesHoldTheirClosures`). `FramesInFlow` says that each frame of the call stack is at a place
  the walk of `Verified` has passed: the current one with the height it really has, a suspended one
  with the height it will have when the call returns, and that the open upvalues in its window are
  those the walk has counted. The latter is what keeps `OP_POP` off captured slots, and so every open
  upvalue readable. `Flow` itself is a recursion that no proof unfolds: `Verified` asks of it that it
  contains the entry and is closed under `Edges`, which is all that matters.
- Both: `ImplementsVariables` (`Spec => UpvaluesAreVariables`): no instruction but an assignment
  changes what an upvalue stands for, and that changes one.
- `CollectionInv`: `CollectionsFindValues` (`[]ValuesSurvive`). `ReachedIsLeast` shows that marking,
  which is written as the worklist it is, ends with the least closed set; that takes finitely many
  cells (`AnyCellFinite`). The argument is in two parts. What upvalue cells lead to is marked by way
  of the closures and of `open_upvalues`. What closures lead to is marked although no trace function
  marks a closure's function: every such function is a constant of a constant ... of the script
  (`ClosuresOfTheScript`), and the script has a frame.

The compiler is proved about for every source, that is for every sequence of lexemes, broken or not
(`SourcesAssumption`; no lexeme is empty), every value of its literals and every size of a byte
(`ByteAssumption`). In `CompilerProofs`:

- `CompilerTypes` (`[]TypeOK`), `TokensExist` (`[]ReadsInBounds`), `CapturesResolve`
  (`[]UpvaluesResolve`), `IndicesAreBytes` (`[]IndicesFit`), `ScopesAreLeft` (`[]ScopesBalanced`).
- `MakesPrograms`: `Spec => []IsProgram(functions)`, where `IsProgram` is what `VM` assumes of
  programs (`ProgramsAssumption`). So the theorems that hold of any code, `TypesCorrect` and
  `UpvaluesOrdered`, hold of all code that the compiler makes.

The inductive invariant is `IInv` of `CompilerProofs`, a conjunction about the state and the calls
that wait in `work`. TLC checked it on the inputs of compiler_code and compiler_limits before it was
proved (`NestOk` as the recursion along `work` that it is equivalent to). Its parts:

- `Base` holds at every point between two calls, also within a step: types, the limits of one byte,
  each compiler's upvalues counted by its function and resolved in the next one out, and error flags
  only after an error. `CapturesResolve` takes the limits: an index that wrapped round would be
  another variable's. It takes functions that are distinct along the chain as well, since
  `add_or_get_upvalue` counts in the function of whichever compiler captures.
- `NestOk`: `work` read as a bracket sequence. Each call has an effect on the depths of the scopes
  that are open (`After`: `end_scope` leaves one, `end_function` a compiler), and all of them
  together end in `<<0>>`. `ScopesBalanced` says nothing before the end, so this is the invariant
  behind it; that `end_scope` never meets a compiler in its outermost scope follows too.
- `Ordered` and `Scoped`: a variable that is declared and not yet defined (depth -1) is the innermost
  compiler's last, and only expressions are compiled until it is defined. Without that, leaving a
  scope could find a local of no depth, and stop popping there.
- `Sited`: the compiler stands at a token, and behind one when it begins a function, as a
  function's name is the token before.

Each procedure that calls nothing recursive has lemmas that say it `Keeps` the state, which composes:
`Base`, all scopes, all locals, and a place in the text. There is one lemma per procedure that does
call (`...Step`), all of which end in `PushFacts`: changes that
keep `Base`, and calls left to be made that close what they open, keep the invariant. The upvalues
of `resolve_upvalue` go through any number of compilers; `ResolveUpvalue` is therefore a recursive
function over the chain, and `CaptureUpvalueFacts` is the step of the induction.

In `CodeProofs`, on top of that:

- `CompilerCode` (`[]VerifiedCode`): what is compiled without an error is well formed. That is the
  hypothesis of the theorems about the machine with well-formed code.
- `LocalsOnStack` (`[]LocalsMirrorStack`).

The invariant is `IInv /\ VInv`. `VInv` says, while there is no error, that the state is `Typed` by a
plan that the calls in `work` fit. A plan is what the C++ call stack knows and no variable of the
program holds: for each compiler its function, the depth of its scope and whether a variable waits
for its value; the jumps that wait to be patched (`open`), each with the height and the locals it
expects; the addresses to jump back to (`marks`); the number of values above the locals (`temps`);
and whether the function has no code yet (`fresh`). `Goes` has for each kind of call the plan it
finds and the plan it leaves, and `Fits` that those in `work` lead from one to the next up to the end
of the text. In a plan a function under compilation has a frame (`CodeFrames`): a sheet with the
height of the stack, the captured slots and the use of the operand at each instruction so far, closed
under all edges but those of open jumps. When a local is captured after code for it was emitted, the
sheet says of every address in its scope that it may be captured from there on (`Mirrors`), so that
the sheet agrees with what the scope exit will look at. When a function ends
nothing is open, its frame is a sheet (`Finished`), and a sheet contains whatever `Flow` collects
(`FinishedIsVerified`, by the same use of `Verified` as in `VMProofs`). `LocalsOnStack` is
read off the frame in the same way (`FrameWalk`). With an error reported `VInv` says nothing, which
is enough as no procedure forgets one (`CallsAdd`).

The tree-walking interpreter is proved about for any programs that are resolved as `Scoping` says,
any number of them, one after the other (`ResolvedPrograms`); `ClockAssumption` is that the clock
returns no function. In `InterpreterProofs`:

- `NamesAreFound` (`[]ResolvedNamesFound`), `EnvironmentsAreRestored` (`[]EnvironmentRestored`),
  `ReturnsAreCaught` (`[]ReturnsCaught`).

The invariant `IInv` has a plan here, too: a point in front of each task of `todo`, with the
environment in force, the names that its scopes have, the one that waits for its initializer, and the
number of operands; each task `Goes` from its point to the next, and the end of a block or a call
goes back to the environment it replaced. The nodes to come are visited with the scopes of their
points, and those visits are among the ones that show the program resolved; so are those of the
functions that exist, with the environment they close over. An error goes on at the end of a block,
a return at the end of a call, and the plan has a point for either. `EnvironmentRestored` says
something where the innermost task that ends a scope ends a block, and outside of all: in a call
whose body is under way the environment is the one `CallFunction` made, of which `ResolvedNamesFound`
says the rest.

Induction over numbers is done over sets of numbers (`SequenceFacts!Induction`), which the provers
can instantiate.

Only model-checked:

- liveness (`MakeReturns`, `TerminatesOrStalls`, `RunEnds`, `SessionEnds`), which the proof system
  does not cover;
- `ListingsAreTrue`, which compares two walks over the code, of `Disassembler` and of `Verified`;
- what is about given programs (`TestsPass`, `TreeTestsPass`, `LimitsOnlyReject`,
  `ScannedByPatterns`) or about both interpreters (`InterpretersAgree`);
- the composition `Lox`. `NeverUndefined` follows from `CompilerCode`, `MakesPrograms` and
  `VerifiedCodeIsSafe`, and `CapturedVariables` from these and `ImplementsVariables`, but `Lox`
  takes compiler and machine by `INSTANCE` with its own constants and next-state relation, and the
  composition is not written out as a theorem;
- `ProgramsResolved`, that is that parser and resolver make programs that are resolved as `Scoping`
  says: they are `RECURSIVE` operators. It is the link between `InterpreterProofs` and `Treewalk`.

`Rooted` is an assumption. The clients do not quite keep it: a freshly made name is not rooted while
the function that takes it is made (Compiler.h:216), the script is not while its closure is (finding
5), and upvalue cells never are.

## Not modelled, and the plan

What the plan had is done: each part of the two interpreters is modelled, composed and checked, and
what does not depend on given programs is proved. What would be next is a parser and a resolver
without `RECURSIVE`, as machines with a list of what is left to do, so that `ProgramsResolved` could
be proved as well, and the theorems about the composition `Lox`.

Left out:

- what a `Compiler` holds between two calls of `make()`: C++ temporaries have no names to model,
  and the source marks the places (Compiler.h:216) without saying what should hold there;
- `StringPool`: strings are compared by content, which is what interning promises. That it keeps
  addresses of strings which were collected is known to the source (GC.cpp:44, StringPool.h), as is
  the callback of a `VM` that is gone (ByteCodeRunner.cpp:30-33);
- `trace_execution` and the lines the disassembler looks up, which are those of finding 2;
- the text that the disassembler and `AstPrinter` print, `AstGenerator`, the command line, reading a file, number formatting.

PROJECT.json lists each component with its status.
