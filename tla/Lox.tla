-------------------------------- MODULE Lox --------------------------------
(***************************************************************************)
(* ByteCodeRunner: a source is compiled and, if no error was reported,     *)
(* interpreted.  Compiler and VM have the functions in common.  In a       *)
(* session at the prompt, each line is appended to the source, and all of  *)
(* it is compiled and run again; a file is a session of one line.  (What   *)
(* is printed is that of the run at hand.)                                 *)
(***************************************************************************)
EXTENDS Bytecode, Tokens

CONSTANTS
  Sessions,                                              \* sequences of lines
  MaxCode,                                               \* of Compiler
  MAX_CALLSTACK_DEPTH, ClockValues, MaxStack, MaxOutput  \* of VM

VARIABLES
  lines,                                      \* what is still to be entered
  functions,
  tokens, compilers, errors, work,            \* the other variables of Compiler
  status, stack, call_frames, closures, upvalues, open_upvalues, globals,
  output                                      \* those of VM

compiler_vars == <<tokens, compilers, errors, work>>
vm_vars == <<status, stack, call_frames, closures, upvalues, open_upvalues, globals, output>>
vars == <<lines, functions, compiler_vars, vm_vars>>

C == INSTANCE Compiler WITH Sources <- {}
V == INSTANCE LoxGC WITH Programs <- {}

Init == \E session \in Sessions :
          C!InitFor(Head(session)) /\ lines = Tail(session) /\ V!InitVM

(* How a run ends. *)
Outcome == IF errors # {} THEN "compile_error" ELSE status

Ended == C!Done /\ Outcome \notin {"ready", "running"}

(* The text that was entered. *)
Lexemes == [i \in 1 .. Len(tokens) - 1 |-> tokens[i].lexeme]

(* ErrorReporter::clear (fault: it is left out). *)
KeptErrors    == errors
ClearedErrors == {}

(* runRepl: the next line is entered, and run() begins. *)
EnterLine ==
  /\ Ended
  /\ lines # <<>>
  /\ C!RestartFor(Lexemes \o Head(lines))
  /\ V!RestartVM
  /\ errors' = ClearedErrors
  /\ lines' = Tail(lines)

Compile == C!Next /\ UNCHANGED <<lines, vm_vars>>

Interpret == C!Done /\ errors = {} /\ V!Interpret /\ UNCHANGED <<lines, compiler_vars>>

Execute == V!Step /\ UNCHANGED <<lines, compiler_vars>>

Next == EnterLine \/ Compile \/ Interpret \/ Execute

Spec == Init /\ [][Next]_vars

(* One thread runs compiler and machine, and takes its next step while there is one. *)
FairSpec == Spec /\ WF_vars(Next)

-----------------------------------------------------------------------------
(* Every line that is entered is run to an end, of whatever kind. *)
RunEnds == <>(Ended /\ lines = <<>>)

(* The next instruction, if there is one, has a defined effect. *)
InstructionsDefined == status = "running" => V!Defined

(***************************************************************************)
(* What the compiler accepts, the machine executes without an instruction  *)
(* that reads outside of the code, the constants, the stack, the upvalues  *)
(* or the call frames, pops an empty stack or fails an assertion: except   *)
(* for functions with more upvalues than a uint8_t counts.  (The line      *)
(* table, which a runtime error's message and the trace of each            *)
(* instruction read, is not among these: it is too short behind a loop.)   *)
(***************************************************************************)
NeverUndefined ==
  (\A f \in DOMAIN functions : functions[f].upvalue_count <= UINT8_MAX) => InstructionsDefined

(* The machine keeps the promise of captured variables with the code compiled for it. *)
CapturedVariables == V!Lexical!Spec

(***************************************************************************)
(* "Reaches to anything still alive." (GC.cpp:30): from the compiler's end *)
(* on, what a collection that takes place does not mark, the machine can   *)
(* not get to any more.                                                    *)
(***************************************************************************)
ReachesEverythingAlive ==
  C!Done /\ errors = {} => (V!Collects => V!Alive \subseteq V!Marked)

=============================================================================
