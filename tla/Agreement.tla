----------------------------- MODULE Agreement -----------------------------
(***************************************************************************)
(* The two implementations of the language, run one after the other on the *)
(* tokens of the same source: Compiler and VM, then Parser, Resolver and   *)
(* the tree-walking Interpreter.  They share no code but Scanner.          *)
(***************************************************************************)
EXTENDS Lox

CONSTANTS MAX_PARAMETERS, MaxEnvironments  \* of Treewalk

VARIABLES
  next, statements, locals, environments, current_env, callables, todo, values, val,
  outcomes,                              \* the variables of Treewalk
  tree_stage, tree_errors, tree_output   \* those that Lox has a name like

tree_vars ==
  <<next, statements, locals, environments, current_env, callables, todo, values, val, outcomes,
    tree_stage, tree_errors, tree_output>>

(* One line, scanned already. *)
T == INSTANCE Treewalk WITH
       stage <- tree_stage, errors <- tree_errors, output <- tree_output,
       Clock <- Num(CHOOSE c \in ClockValues : TRUE),
       Sessions <- {}, session <- <<"">>, program <- 0,
       source <- "", current <- 0, line_number <- 1, base <- 0

InitBoth ==
  /\ Init
  /\ tree_stage = "parse" /\ tree_errors = {} /\ outcomes = <<>>
  /\ T!ParserInit(0) /\ T!InterpreterInit

RunBytecode == Next /\ UNCHANGED tree_vars

RunTree ==
  /\ Ended /\ lines = <<>>
  /\ T!ParseNext \/ T!EndParse \/ T!Resolve \/ T!Interpret \/ T!EndInterpret
  /\ UNCHANGED vars

NextOfBoth == RunBytecode \/ RunTree

FairBoth ==
  /\ InitBoth /\ [][NextOfBoth]_<<vars, tree_vars>>
  /\ WF_<<vars, tree_vars>>(NextOfBoth)

-----------------------------------------------------------------------------
(* What only one of the two says of a native function. *)
Rendered(text) == IF text = "<native fn>" THEN "<fn clock>" ELSE text

(* What only Compiler rejects. *)
DuplicateLocal == \E e \in errors : e.msg = "Variable with this name already in scope."

(* Only Compiler rejects an assignment to a local variable in its own initializer. *)
AssignsInInitializer ==
  \E e \in errors :
    /\ e.msg = "Can't read local variable in its own initializer."
    /\ tokens[e.at + 1].type = "EQUAL"

(* Only the tree-walking interpreter compares the arguments of clock with its arity. *)
ClockHasArguments ==
  \E i \in DOMAIN tokens :
    i > 2 /\ tokens[i - 2].lexeme = "clock" /\ tokens[i - 1].lexeme = "(" /\ tokens[i].lexeme # ")"

(* The machine gives up at a depth that the tree-walking program does not know. *)
TooDeep == Outcome = "runtime_error" /\ Len(call_frames) >= MAX_CALLSTACK_DEPTH

(***************************************************************************)
(* Both accept the same programs, or Compiler rejects one for a local      *)
(* variable declared twice or assigned to in its own initializer; and what *)
(* they accept has the same effects: the machine prints what the           *)
(* tree-walking interpreter prints, and where it ends with a runtime error *)
(* the other one has reported one too, but goes on behind the block that   *)
(* failed.  (Precedences, scopes, closures and captured variables are      *)
(* implemented twice, in different ways.)                                  *)
(***************************************************************************)
InterpretersAgree ==
  Ended /\ tree_stage = "line" =>
    CASE Outcome = "ok" /\ ~ClockHasArguments ->
           outcomes = <<"ok">> /\ tree_output = [i \in DOMAIN output |-> Rendered(output[i])]
      [] Outcome = "runtime_error" /\ ~TooDeep ->
           /\ outcomes = <<"runtime error">>
           /\ Len(output) <= Len(tree_output)
           /\ \A i \in DOMAIN output : tree_output[i] = Rendered(output[i])
      [] Outcome = "compile_error" ->
           \/ outcomes \in {<<"parsing error">>, <<"resolving error">>}
           \/ DuplicateLocal \/ AssignsInInitializer
      [] OTHER -> TRUE

=============================================================================
