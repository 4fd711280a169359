------------------------------ MODULE Compiler ------------------------------
(***************************************************************************)
(* The single-pass compiler (Bytecode/Compiler.cpp): a Pratt parser that   *)
(* emits bytecode as it reads tokens.                                      *)
(*                                                                         *)
(* The C++ procedures call each other recursively.  Here the calls that    *)
(* are still to be made are kept in `work', innermost first, and a step    *)
(* runs one procedure up to its next recursive call.  A nested function is *)
(* compiled by a Compiler object of its own; `compilers' holds the chain   *)
(* of enclosing ones, innermost last.                                      *)
(***************************************************************************)
EXTENDS Disassembler, Tokens

CONSTANTS
  Sources,  \* the programs to compile, as sequences of lexemes
  MaxCode   \* bound on a chunk's size, for compilations that never end

(* Scanner makes no empty lexeme. *)
ASSUME SourcesAssumption == \A source \in Sources : source \in Seq(Range(source)) /\ "" \notin Range(source)

VARIABLES
  tokens,     \* what Scanner made of the source
  compilers,  \* the Compiler objects alive, outermost first
  functions,  \* every Function made so far
  errors,     \* what the ErrorReporter was told: token position and message
  work        \* the procedures still to be called, the next one first

vars == <<tokens, compilers, functions, errors, work>>

-----------------------------------------------------------------------------
(* Tables *)

(* Precedences, from the lowest to the highest. *)
NONE == 0
ASSIGNMENT == 1
OR == 2
AND == 3
EQUALITY == 4
COMPARISON == 5
TERM == 6
FACTOR == 7
UNARY == 8
CALL == 9

(* The `rules' table: which tokens begin an expression, which continue one. *)
Prefix == {"LEFT_PAREN", "MINUS", "BANG", "IDENTIFIER", "STRING", "NUMBER",
           "FALSE", "NIL", "TRUE"}

InfixPrecedence == [t \in TokenType |->
  CASE t = "LEFT_PAREN"                                           -> CALL
    [] t \in {"MINUS", "PLUS"}                                    -> TERM
    [] t \in {"SLASH", "STAR"}                                    -> FACTOR
    [] t \in {"BANG_EQUAL", "EQUAL_EQUAL"}                        -> EQUALITY
    [] t \in {"GREATER", "GREATER_EQUAL", "LESS", "LESS_EQUAL"}   -> COMPARISON
    [] t = "AND"                                                  -> AND
    [] t = "OR"                                                   -> OR
    [] OTHER                                                      -> NONE]

UnaryCode == [BANG |-> <<"OP_NOT">>, MINUS |-> <<"OP_NEGATE">>]

BinaryCode == [
  BANG_EQUAL |-> <<"OP_EQUAL", "OP_NOT">>,   EQUAL_EQUAL |-> <<"OP_EQUAL">>,
  GREATER |-> <<"OP_GREATER">>,              LESS |-> <<"OP_LESS">>,
  GREATER_EQUAL |-> <<"OP_LESS", "OP_NOT">>, LESS_EQUAL |-> <<"OP_GREATER", "OP_NOT">>,
  STAR |-> <<"OP_MULTIPLY">>,                SLASH |-> <<"OP_DIVIDE">>,
  PLUS |-> <<"OP_ADD">>,                     MINUS |-> <<"OP_SUBTRACT">>]

LiteralCode == [t \in {"FALSE", "TRUE", "NIL"} |->
  CASE t = "FALSE" -> "OP_FALSE" [] t = "TRUE" -> "OP_TRUE" [] OTHER -> "OP_NIL"]

(* The tokens that begin a statement, as synchronize() sees it. *)
StatementStart == {"CLASS", "FUN", "VAR", "FOR", "IF", "WHILE", "PRINT", "RETURN"}

-----------------------------------------------------------------------------
(* The compiler's state as one record s, so that one step of a procedure   *)
(* can be written as the composition of the calls it makes.                *)

Me(s)       == Len(s.compilers)
This(s)     == s.compilers[Me(s)]
Function(s) == s.functions[This(s).function]

Current(s)  == tokens[This(s).current]
Previous(s) == tokens[This(s).previous]

Check(s, type) == Current(s).type = type

Advance(s) ==
  [s EXCEPT !.compilers[Me(s)].previous = This(s).current,
            !.compilers[Me(s)].current = @ + 1]

(* The calls cs are made before those that are waiting already. *)
Then(s, cs) == [s EXCEPT !.work = cs \o @]

(***************************************************************************)
(* error_at, called on the k-th compiler: errors after the first are not   *)
(* reported until synchronize() has found the start of a statement.        *)
(***************************************************************************)
ErrorAt(s, k, at, msg) ==
  IF s.compilers[k].panic_mode THEN s
  ELSE [s EXCEPT !.compilers[k].panic_mode = TRUE,
                 !.compilers[k].had_error = TRUE,
                 !.errors = @ \cup {[at |-> at, msg |-> msg]}]

ErrorAtCurrent(s, msg)  == ErrorAt(s, Me(s), This(s).current, msg)
ErrorAtPrevious(s, msg) == ErrorAt(s, Me(s), This(s).previous, msg)

Consume(s, type) ==
  IF Check(s, type) THEN Advance(s) ELSE ErrorAtCurrent(s, type)

(* add_byte for each byte: each gets an entry in the line table. *)
EmitBytes(s, bytes) ==
  [s EXCEPT !.functions[This(s).function].code = @ \o bytes,
            !.functions[This(s).function].lines = @ + Len(bytes)]

Emit(s, op)       == EmitBytes(s, <<Code[op]>>)
EmitWith(s, op, b) == EmitBytes(s, <<Code[op], b>>)
EmitAll(s, ops)   == EmitBytes(s, [i \in DOMAIN ops |-> Code[ops[i]]])

(* emit_return (fault: no value is returned). *)
EmitBareReturn(s) == Emit(s, "OP_RETURN")
EmitReturn(s)     == EmitAll(s, <<"OP_NIL", "OP_RETURN">>)

CodeSize(s) == Len(Function(s).code)

AsByte(n) == n % (UINT8_MAX + 1)
AsUint16(n) == n % (UINT16_MAX + 1)
UpperByte(n) == AsByte(n \div (UINT8_MAX + 1))

(***************************************************************************)
(* emit_jump leaves room for the distance; its result, the jump's address  *)
(* as a uint16_t, is JumpAddress of the state before.                      *)
(***************************************************************************)
EmitJump(s, op) == EmitBytes(s, <<Code[op], 0, 0>>)
JumpAddress(s)  == AsUint16(CodeSize(s))

(* patch_jump *)
PatchJump(s, jump) ==
  LET dist == CodeSize(s) - 3 - jump
      t    == IF dist > UINT16_MAX THEN ErrorAtCurrent(s, "Too much code to jump over.") ELSE s
  IN  [t EXCEPT !.functions[This(s).function].code[jump + 2] = UpperByte(dist),
                !.functions[This(s).function].code[jump + 3] = AsByte(dist)]

(***************************************************************************)
(* emit_loop pushes the two bytes of the distance without line table       *)
(* entries.  (Fault: it does not see that the distance is too large.)      *)
(***************************************************************************)
EmitLoopUnchecked(s, start) ==
  LET opcode == Emit(s, "OP_LOOP")
      dist   == CodeSize(opcode) + 2 - start
  IN  [opcode EXCEPT !.functions[This(s).function].code =
         @ \o <<UpperByte(dist), AsByte(dist)>>]

EmitLoop(s, start) ==
  LET opcode == Emit(s, "OP_LOOP")
      dist   == CodeSize(opcode) + 2 - start
      t      == IF dist > UINT16_MAX
                THEN ErrorAtPrevious(opcode, "Loop body too large, too much code to jump over.")
                ELSE opcode
  IN  [t EXCEPT !.functions[This(s).function].code = @ \o <<UpperByte(dist), AsByte(dist)>>]

(***************************************************************************)
(* add_constant; its result is ConstantIndex of the state before.  (Fault: *)
(* the limit is one too high.)                                             *)
(***************************************************************************)
AddConstantOffByOne(s, val) ==
  LET t == [s EXCEPT !.functions[This(s).function].constants = Append(@, val)]
  IN  IF Len(Function(s).constants) > UINT8_MAX + 1
      THEN ErrorAtPrevious(t, "Too many constants in code chunk.") ELSE t

AddConstant(s, val) ==
  LET t == [s EXCEPT !.functions[This(s).function].constants = Append(@, val)]
  IN  IF Len(Function(s).constants) > UINT8_MAX
      THEN ErrorAtPrevious(t, "Too many constants in code chunk.") ELSE t
ConstantIndex(s) == AsByte(Len(Function(s).constants))

EmitConstant(s, val) == EmitWith(AddConstant(s, val), "OP_CONSTANT", ConstantIndex(s))

-----------------------------------------------------------------------------
(* Variables *)

NewLocal(name, depth) ==
  [name |-> name, depth |-> depth, ready |-> FALSE, is_captured |-> FALSE]

DeclareVariable(s) ==
  LET locals == This(s).locals
      depth  == This(s).scope_depth
      name   == Previous(s).lexeme
      clash  == \E i \in DOMAIN locals :
                  /\ locals[i].name = name
                  /\ \A j \in i .. Len(locals) : locals[j].depth >= depth
      t == IF clash THEN ErrorAtPrevious(s, "Variable with this name already in scope.") ELSE s
  IN  IF depth = 0 THEN s
      ELSE IF Len(locals) > UINT8_MAX THEN ErrorAtPrevious(t, "Too many local variables.")
      ELSE [t EXCEPT !.compilers[Me(s)].locals = Append(@, NewLocal(name, -1))]

(***************************************************************************)
(* parse_variable; its result is VariableIndex of the state before.        *)
(***************************************************************************)
ParseVariable(s) ==
  LET t == DeclareVariable(Consume(s, "IDENTIFIER"))
  IN  IF This(s).scope_depth = 0 THEN AddConstant(t, Str(Previous(t).lexeme)) ELSE t
VariableIndex(s) == IF This(s).scope_depth = 0 THEN ConstantIndex(s) ELSE 0

MarkReady(s) ==
  [s EXCEPT !.compilers[Me(s)].locals[Len(This(s).locals)] =
     [@ EXCEPT !.depth = This(s).scope_depth, !.ready = TRUE]]

DefineVariable(s, index) ==
  IF This(s).scope_depth > 0 THEN MarkReady(s)
  ELSE EmitWith(s, "OP_DEFINE_GLOBAL", index)

BeginScope(s) == [s EXCEPT !.compilers[Me(s)].scope_depth = @ + 1]

ScopeExitCode(local) == IF local.is_captured THEN "OP_CLOSE_UPVALUE" ELSE "OP_POP"

EndScope(s) ==
  LET locals == This(s).locals
      depth  == This(s).scope_depth - 1
      kept   == SelectLastInSeq(locals, LAMBDA l : l.depth <= depth)
      gone   == Reverse(SubSeq(locals, kept + 1, Len(locals)))
  IN  EmitAll([s EXCEPT !.compilers[Me(s)].scope_depth = depth,
                        !.compilers[Me(s)].locals = SubSeq(@, 1, kept)],
              [i \in DOMAIN gone |-> ScopeExitCode(gone[i])])

(* resolve_local on the k-th compiler: the last local of that name, or -1. *)
LocalIndex(s, k, name) ==
  SelectLastInSeq(s.compilers[k].locals, LAMBDA l : l.name = name) - 1

ReportUnready(s, k, name) ==
  IF s.compilers[k].locals[LocalIndex(s, k, name) + 1].ready THEN s
  ELSE ErrorAt(s, k, s.compilers[k].previous,
               "Can't read local variable in its own initializer.")

(***************************************************************************)
(* add_or_get_upvalue on the k-th compiler, and its result.                *)
(***************************************************************************)
Upvalue(index, is_local) == [index |-> index, is_local |-> is_local]

AddUpvalue(s, k, uv) ==
  LET upvalues == s.compilers[k].upvalues
      t == [s EXCEPT !.compilers[k].upvalues = Append(@, uv),
                     !.functions[s.compilers[k].function].upvalue_count = @ + 1]
  IN  IF Contains(upvalues, uv) THEN s
      ELSE IF Len(upvalues) > UINT8_MAX
           THEN ErrorAt(t, k, t.compilers[k].previous, "Too many closure variables in function.")
           ELSE t

UpvalueIndex(s, k, uv) ==
  LET upvalues == s.compilers[k].upvalues
  IN  AsByte(IF Contains(upvalues, uv) THEN SelectInSeq(upvalues, LAMBDA u : u = uv) - 1
             ELSE Len(upvalues))

(***************************************************************************)
(* The innermost compiler with a local of that name, 0 when there is none. *)
(***************************************************************************)
Owner(s, name) ==
  SelectLastInSeq([k \in 1 .. Me(s) |-> LocalIndex(s, k, name)], LAMBDA i : i >= 0)

(***************************************************************************)
(* resolve_upvalue: the owner's local is marked as captured (fault: it is  *)
(* not), and each function between it and the innermost one gets an        *)
(* upvalue for it.  uv is what the next function in captures.              *)
(***************************************************************************)
MarkNothing(s, owner, local) == s

MarkCaptured(s, owner, local) ==
  [s EXCEPT !.compilers[owner].locals[local + 1].is_captured = TRUE]

(* What the owner's local is to the next function in. *)
CaptureLocal(s, owner, name) ==
  LET local == LocalIndex(s, owner, name)
  IN  [s  |-> MarkCaptured(ReportUnready(s, owner, name), owner, local),
       uv |-> Upvalue(AsByte(local), TRUE)]

(* What the k-th function's upvalue for r.uv is to the next function in. *)
CaptureUpvalue(r, k) ==
  [s  |-> AddUpvalue(r.s, k, r.uv),
   uv |-> Upvalue(UpvalueIndex(r.s, k, r.uv), FALSE)]

ResolveUpvalue(s, owner, name) ==
  LET upto[n \in 0 .. Me(s) - owner] ==
        IF n = 0 THEN CaptureLocal(s, owner, name) ELSE CaptureUpvalue(upto[n - 1], owner + n)
  IN  upto[Me(s) - owner]

(* named_variable up to the choice between reading and assigning. *)
Resolve(s, name) ==
  LET owner == Owner(s, name)
  IN  CASE owner = Me(s) ->
             [s |-> ReportUnready(s, owner, name), index |-> AsByte(LocalIndex(s, owner, name)),
              get |-> "OP_GET_LOCAL", set |-> "OP_SET_LOCAL"]
        [] owner = 0 ->
             [s |-> AddConstant(s, Str(name)), index |-> ConstantIndex(s),
              get |-> "OP_GET_GLOBAL", set |-> "OP_SET_GLOBAL"]
        [] OTHER ->
             LET r == ResolveUpvalue(s, owner, name)
             IN  [s |-> r.s, index |-> r.uv.index,
                  get |-> "OP_GET_UPVALUE", set |-> "OP_SET_UPVALUE"]

-----------------------------------------------------------------------------
(* The calls that wait in `work'. *)

Call(name)       == [do |-> name]
Parse(p)         == [do |-> "parse_precedence", precedence |-> p]
Expression       == Parse(ASSIGNMENT)
Expect(type)     == [do |-> "consume", type |-> type]
Emitting(ops)    == [do |-> "emit", bytes |-> [i \in DOMAIN ops |-> Code[ops[i]]]]
EmittingWith(op, b) == [do |-> "emit", bytes |-> <<Code[op], b>>]
Patching(jump)   == [do |-> "patch_jump", jump |-> jump]

(***************************************************************************)
(* One step: the next call in `work' is made.                              *)
(***************************************************************************)
Bounded == \A f \in DOMAIN functions : Len(functions[f].code) <= MaxCode

Step(name, Run(_, _)) ==
  /\ work # <<>>
  /\ Head(work).do = name
  /\ Bounded
  /\ \E s \in {Run([compilers |-> compilers, functions |-> functions, errors |-> errors,
                  work |-> Tail(work)], Head(work))} :
       /\ compilers' = s.compilers
       /\ functions' = s.functions
       /\ errors' = s.errors
       /\ work' = s.work
  /\ UNCHANGED tokens

NewCompiler(function, current, previous) ==
  [function |-> function, locals |-> <<NewLocal("", 0)>>, upvalues |-> <<>>,
   current |-> current, previous |-> previous,
   had_error |-> FALSE, panic_mode |-> FALSE, scope_depth |-> 0]

InitFor(source) ==
  /\ tokens = Tokenize(source)
  /\ functions = <<NewFunction("script")>>
  /\ compilers = <<NewCompiler(1, 1, 1)>>
  /\ errors = {}
  /\ work = <<Call("compile")>>

Init == \E source \in Sources : InitFor(source)

(* A Compiler for another source.  The ErrorReporter is not its own. *)
RestartFor(source) ==
  /\ tokens' = Tokenize(source)
  /\ functions' = <<NewFunction("script")>>
  /\ compilers' = <<NewCompiler(1, 1, 1)>>
  /\ work' = <<Call("compile")>>

(* The small calls *)

(* consume (fault: the wrong token is consumed as well). *)
RunConsumeAnything(s, c) ==
  Advance(IF Check(s, c.type) THEN s ELSE ErrorAtCurrent(s, c.type))

RunConsume(s, c)   == Consume(s, c.type)
RunEmit(s, c)      == EmitBytes(s, c.bytes)
RunPatchJump(s, c) == PatchJump(s, c.jump)

(* end_scope (fault: an error in the block leaves it unfinished). *)
RunEndScopeUnlessPanicking(s, c) == IF This(s).panic_mode THEN s ELSE EndScope(s)

RunEndScope(s, c)  == EndScope(s)
RunDefineVariable(s, c) == DefineVariable(s, c.index)

(* compile(): declarations up to the end of the file *)
RunCompile(s, c) ==
  LET more == This(s).current <= Len(tokens)
      t    == IF more THEN Advance(s) ELSE s
  IN  IF more /\ ~Check(s, "LOX_EOF") THEN Then(s, <<Call("declaration"), Call("compile")>>)
      ELSE Then(IF Previous(t).type = "LOX_EOF" THEN t
                ELSE ErrorAtPrevious(t, "Expected end of file."),
                <<Call("end_compiler")>>)

RunEndCompiler(s, c) == EmitReturn(s)

-----------------------------------------------------------------------------
(* Declarations *)

(* The position at which the declaration began is kept for the properties. *)
RunDeclaration(s, c) ==
  LET sync == [do |-> "synchronize", from |-> This(s).current]
  IN  CASE Check(s, "VAR") -> Then(Advance(s), <<Call("var_declaration"), sync>>)
        [] Check(s, "FUN") -> Then(Advance(s), <<Call("function_declaration"), sync>>)
        [] OTHER           -> Then(s, <<Call("statement"), sync>>)

(***************************************************************************)
(* synchronize skips to the end of a statement or to the beginning of one. *)
(***************************************************************************)
Familiar(s, p) ==
  LET before == IF p = This(s).current THEN This(s).previous ELSE p - 1
  IN  \/ tokens[p].type \in StatementStart \cup {"LOX_EOF"}
      \/ tokens[before].type = "SEMICOLON"

Synchronize(s) ==
  LET me   == This(s)
      stop == CHOOSE p \in me.current .. Len(tokens) :
                /\ Familiar(s, p)
                /\ \A q \in me.current .. p - 1 : ~Familiar(s, q)
  IN  [s EXCEPT !.compilers[Me(s)] =
         [@ EXCEPT !.panic_mode = FALSE,
                   !.current = stop,
                   !.previous = IF stop = me.current THEN me.previous ELSE stop - 1]]

(* (Fault: it ends the panic and stays where it is.) *)
RunSynchronizeStaying(s, c) == [s EXCEPT !.compilers[Me(s)].panic_mode = FALSE]

RunSynchronize(s, c) == IF This(s).panic_mode THEN Synchronize(s) ELSE s

RunVarDeclaration(s, c) ==
  LET t   == ParseVariable(s)
      end == <<Expect("SEMICOLON"), [do |-> "define_variable", index |-> VariableIndex(s)]>>
  IN  IF Check(t, "EQUAL") THEN Then(Advance(t), <<Expression>> \o end)
      ELSE Then(Emit(t, "OP_NIL"), end)

(***************************************************************************)
(* dispatch_function_declaration hands over to a compiler of its own, named *)
(* by the token just read, and its function_declaration begins.            *)
(***************************************************************************)
RunFunctionDeclaration(s, c) ==
  LET named == ParseVariable(s)
      ready == IF This(s).scope_depth > 0 THEN MarkReady(named) ELSE named
      at    == This(ready).current
      inner == NewCompiler(Len(s.functions) + 1, at, at - 1)
      begun == BeginScope([ready EXCEPT
                 !.functions = Append(@, NewFunction(tokens[at - 1].lexeme)),
                 !.compilers = Append(@, inner)])
      open  == Consume(begun, "LEFT_PAREN")
  IN  Then(open, <<IF Check(open, "RIGHT_PAREN") THEN Call("function_body") ELSE Call("parameter"),
                   [do |-> "end_function", index |-> VariableIndex(s)]>>)

(* A parameter (fault: the limit is one too high). *)
RunParameterOffByOne(s, c) ==
  LET counted == [s EXCEPT !.functions[This(s).function].arity = @ + 1]
      t       == DefineVariable(ParseVariable(counted), 0)
  IN  IF Function(s).arity > UINT8_MAX
      THEN ErrorAtCurrent(s, "Functions accept at most 255 parameters.")
      ELSE IF Check(t, "COMMA") THEN Then(Advance(t), <<Call("parameter")>>)
      ELSE Then(t, <<Call("function_body")>>)

RunParameter(s, c) ==
  LET counted == [s EXCEPT !.functions[This(s).function].arity = @ + 1]
      t       == DefineVariable(ParseVariable(counted), 0)
  IN  IF Function(s).arity >= UINT8_MAX
      THEN ErrorAtCurrent(s, "Functions accept at most 255 parameters.")
      ELSE IF Check(t, "COMMA") THEN Then(Advance(t), <<Call("parameter")>>)
      ELSE Then(t, <<Call("function_body")>>)

RunFunctionBody(s, c) ==
  Then(Consume(Consume(s, "RIGHT_PAREN"), "LEFT_BRACE"), <<Call("block")>>)

(***************************************************************************)
(* The enclosing compiler emits the closure and takes over where the inner *)
(* one stopped, its error flags included.                                  *)
(***************************************************************************)
CaptureBytes(upvalues) ==
  [i \in 1 .. 2 * Len(upvalues) |->
     LET uv == upvalues[(i + 1) \div 2]
     IN  IF i % 2 = 0 THEN uv.index ELSE IF uv.is_local THEN 1 ELSE 0]

TakeOver(s, inner) ==
  [s EXCEPT !.compilers[Me(s)] =
     [@ EXCEPT !.current = inner.current, !.previous = inner.previous,
               !.had_error = inner.had_error, !.panic_mode = inner.panic_mode]]

RunEndFunction(s, c) ==
  LET inner  == This(s)
      outer  == [EmitReturn(s) EXCEPT !.compilers = Front(@)]
      closed == EmitBytes(AddConstant(outer, Fun(inner.function)),
                          <<Code["OP_CLOSURE"], ConstantIndex(outer)>>
                             \o CaptureBytes(inner.upvalues))
  IN  TakeOver(DefineVariable(closed, c.index), inner)

-----------------------------------------------------------------------------
(* Statements *)

RunStatement(s, c) ==
  LET t == Advance(s)
  IN  CASE Check(s, "PRINT") ->
             Then(t, <<Expression, Expect("SEMICOLON"), Emitting(<<"OP_PRINT">>)>>)
        [] Check(s, "LEFT_BRACE") ->
             Then(BeginScope(t), <<Call("block"), Call("end_scope")>>)
        [] Check(s, "IF") ->
             Then(t, <<Expect("LEFT_PAREN"), Expression, Expect("RIGHT_PAREN"), Call("if_then")>>)
        [] Check(s, "WHILE") ->
             Then(t, <<Expect("LEFT_PAREN"), Expression, Expect("RIGHT_PAREN"),
                       [do |-> "while_body", start |-> CodeSize(s)]>>)
        [] Check(s, "FOR")    -> Then(t, <<Call("for_statement")>>)
        [] Check(s, "RETURN") -> Then(t, <<Call("return_statement")>>)
        [] OTHER              -> Then(s, <<Call("expression_statement")>>)

RunExpressionStatement(s, c) ==
  Then(s, <<Expression, Expect("SEMICOLON"), Emitting(<<"OP_POP">>)>>)

(* block (fault: it does not stop at the end of the file). *)
RunBlockPastEnd(s, c) ==
  IF Check(s, "RIGHT_BRACE") THEN Advance(s)
  ELSE Then(s, <<Call("declaration"), Call("block")>>)

RunBlock(s, c) ==
  IF Current(s).type \in {"RIGHT_BRACE", "LOX_EOF"} THEN Consume(s, "RIGHT_BRACE")
  ELSE Then(s, <<Call("declaration"), Call("block")>>)

RunIfThen(s, c) ==
  Then(Emit(EmitJump(s, "OP_JUMP_IF_FALSE"), "OP_POP"),
       <<Call("statement"), [do |-> "if_else", jump |-> JumpAddress(s)]>>)

(* The condition is popped on both branches (fault: on one). *)
RunIfElseWithoutPop(s, c) ==
  LET t   == PatchJump(EmitJump(s, "OP_JUMP"), c.jump)
      end == Patching(JumpAddress(s))
  IN  IF Check(t, "ELSE") THEN Then(Advance(t), <<Call("statement"), end>>) ELSE Then(t, <<end>>)

RunIfElse(s, c) ==
  LET t   == Emit(PatchJump(EmitJump(s, "OP_JUMP"), c.jump), "OP_POP")
      end == Patching(JumpAddress(s))
  IN  IF Check(t, "ELSE") THEN Then(Advance(t), <<Call("statement"), end>>) ELSE Then(t, <<end>>)

(***************************************************************************)
(* A loop jumps back to `start'; `exit' is the jump out of it, if any.     *)
(***************************************************************************)
RunWhileBody(s, c) ==
  Then(Emit(EmitJump(s, "OP_JUMP_IF_FALSE"), "OP_POP"),
       <<Call("statement"),
         [do |-> "end_loop", start |-> c.start, exit |-> <<JumpAddress(s)>>]>>)

RunEndLoop(s, c) ==
  LET t == EmitLoop(s, c.start)
  IN  IF c.exit = <<>> THEN t ELSE Emit(PatchJump(t, c.exit[1]), "OP_POP")

RunForStatement(s, c) ==
  LET t == Consume(BeginScope(s), "LEFT_PAREN")
  IN  CASE Check(t, "VAR") -> Then(Advance(t), <<Call("var_declaration"), Call("for_condition")>>)
        [] Check(t, "SEMICOLON") -> Then(Advance(t), <<Call("for_condition")>>)
        [] OTHER -> Then(t, <<Call("expression_statement"), Call("for_condition")>>)

RunForCondition(s, c) ==
  IF Check(s, "SEMICOLON")
  THEN Then(s, <<[do |-> "for_increment", start |-> CodeSize(s), exit |-> <<>>]>>)
  ELSE Then(s, <<Expression, [do |-> "for_exit", start |-> CodeSize(s)]>>)

RunForExit(s, c) ==
  Then(Emit(EmitJump(s, "OP_JUMP_IF_FALSE"), "OP_POP"),
       <<[do |-> "for_increment", start |-> c.start, exit |-> <<JumpAddress(s)>>]>>)

RunForIncrement(s, c) ==
  LET t == Consume(s, "SEMICOLON")
      u == EmitJump(t, "OP_JUMP")
  IN  IF Check(t, "RIGHT_PAREN") THEN Then(t, <<[c EXCEPT !.do = "for_body"]>>)
      ELSE Then(u, <<Expression, Emitting(<<"OP_POP">>),
                     [do |-> "for_resume", start |-> c.start, exit |-> c.exit,
                      jump |-> JumpAddress(t), increment |-> AsUint16(CodeSize(u))]>>)

(* After the increment clause the condition, after the body the increment. *)
RunForResume(s, c) ==
  Then(PatchJump(EmitLoop(s, c.start), c.jump),
       <<[do |-> "for_body", start |-> c.increment, exit |-> c.exit]>>)

RunForBody(s, c) ==
  Then(Consume(s, "RIGHT_PAREN"),
       <<Call("statement"), [c EXCEPT !.do = "end_loop"], Call("end_scope")>>)

RunReturnStatement(s, c) ==
  LET t == IF Function(s).name = "script"
           THEN ErrorAtPrevious(s, "Cannot return from top-level code.") ELSE s
  IN  IF Check(t, "SEMICOLON") THEN EmitReturn(Advance(t))
      ELSE Then(t, <<Expression, Expect("SEMICOLON"), Emitting(<<"OP_RETURN">>)>>)

-----------------------------------------------------------------------------
(* Expressions *)

(* named_variable *)
NamedVariable(s, may_assign) ==
  LET r == Resolve(s, Previous(s).lexeme)
  IN  IF may_assign /\ Check(r.s, "EQUAL")
      THEN Then(Advance(r.s), <<Expression, EmittingWith(r.set, r.index)>>)
      ELSE EmitWith(r.s, r.get, r.index)

(* The prefix function for the token t, which was just read. *)
PrefixExpression(s, t, may_assign) ==
  CASE t.type = "LEFT_PAREN"         -> Then(s, <<Expression, Expect("RIGHT_PAREN")>>)
    [] t.type \in DOMAIN UnaryCode   -> Then(s, <<Parse(UNARY), Emitting(UnaryCode[t.type])>>)
    [] t.type = "NUMBER"             -> EmitConstant(s, Num(NumberValue[t.lexeme]))
    [] t.type = "STRING"             -> EmitConstant(s, Str(StringValue[t.lexeme]))
    [] t.type \in DOMAIN LiteralCode -> Emit(s, LiteralCode[t.type])
    [] t.type = "IDENTIFIER"         -> NamedVariable(s, may_assign)

RunParsePrecedence(s, c) ==
  IF Current(s).type \notin Prefix THEN ErrorAtCurrent(s, "Expected expression.")
  ELSE PrefixExpression(Then(Advance(s), <<[c EXCEPT !.do = "infix"]>>),
                        Current(s), c.precedence <= ASSIGNMENT)

(* The infix function for the token t, which was just read. *)
InfixExpression(s, t) ==
  CASE t.type \in DOMAIN BinaryCode ->
         Then(s, <<Parse(InfixPrecedence[t.type] + 1), Emitting(BinaryCode[t.type])>>)
    [] t.type = "AND" ->
         Then(Emit(EmitJump(s, "OP_JUMP_IF_FALSE"), "OP_POP"),
              <<Parse(AND), Patching(JumpAddress(s))>>)
    [] t.type = "OR" ->
         LET to_rhs   == EmitJump(s, "OP_JUMP_IF_FALSE")
             over_rhs == EmitJump(to_rhs, "OP_JUMP")
         IN  Then(Emit(PatchJump(over_rhs, JumpAddress(s)), "OP_POP"),
                  <<Parse(OR), Patching(JumpAddress(to_rhs))>>)
    [] t.type = "LEFT_PAREN" ->
         IF Check(s, "RIGHT_PAREN") THEN Then(s, <<[do |-> "end_call", count |-> 0]>>)
         ELSE Then(s, <<[do |-> "argument", count |-> 0]>>)

(***************************************************************************)
(* The loop of parse_precedence over the operators that bind at least as   *)
(* tightly; an "=" that nothing consumed is an error.                      *)
(***************************************************************************)
RunInfix(s, c) ==
  IF c.precedence <= InfixPrecedence[Current(s).type]
  THEN InfixExpression(Then(Advance(s), <<c>>), Current(s))
  ELSE IF c.precedence <= ASSIGNMENT /\ Check(s, "EQUAL")
  THEN ErrorAtPrevious(Advance(s), "Invalid assignment target.")
  ELSE s

RunArgument(s, c) ==
  IF c.count >= UINT8_MAX THEN ErrorAtCurrent(s, "Cannot have more than 255 arguments.")
  ELSE Then(s, <<Expression, [do |-> "next_argument", count |-> c.count + 1]>>)

RunNextArgument(s, c) ==
  IF Check(s, "COMMA") THEN Then(Advance(s), <<[c EXCEPT !.do = "argument"]>>)
  ELSE Then(s, <<[c EXCEPT !.do = "end_call"]>>)

RunEndCall(s, c) == EmitWith(Consume(s, "RIGHT_PAREN"), "OP_CALL", c.count)

-----------------------------------------------------------------------------
(* The specification *)

Next ==
  \/ Step("consume", RunConsume)
  \/ Step("emit", RunEmit)
  \/ Step("patch_jump", RunPatchJump)
  \/ Step("end_scope", RunEndScope)
  \/ Step("define_variable", RunDefineVariable)
  \/ Step("compile", RunCompile)
  \/ Step("end_compiler", RunEndCompiler)
  \/ Step("declaration", RunDeclaration)
  \/ Step("synchronize", RunSynchronize)
  \/ Step("var_declaration", RunVarDeclaration)
  \/ Step("function_declaration", RunFunctionDeclaration)
  \/ Step("parameter", RunParameter)
  \/ Step("function_body", RunFunctionBody)
  \/ Step("end_function", RunEndFunction)
  \/ Step("statement", RunStatement)
  \/ Step("expression_statement", RunExpressionStatement)
  \/ Step("block", RunBlock)
  \/ Step("if_then", RunIfThen)
  \/ Step("if_else", RunIfElse)
  \/ Step("while_body", RunWhileBody)
  \/ Step("end_loop", RunEndLoop)
  \/ Step("for_statement", RunForStatement)
  \/ Step("for_condition", RunForCondition)
  \/ Step("for_exit", RunForExit)
  \/ Step("for_increment", RunForIncrement)
  \/ Step("for_resume", RunForResume)
  \/ Step("for_body", RunForBody)
  \/ Step("return_statement", RunReturnStatement)
  \/ Step("parse_precedence", RunParsePrecedence)
  \/ Step("infix", RunInfix)
  \/ Step("argument", RunArgument)
  \/ Step("next_argument", RunNextArgument)
  \/ Step("end_call", RunEndCall)

Spec == Init /\ [][Next]_vars

Done == work = <<>>

(* Compilation is a sequential program: it takes its next step while there is one. *)
FairSpec == Spec /\ WF_vars(Next)

-----------------------------------------------------------------------------
(* Properties *)

(* What a token, and with it a variable, may be called. *)
Lexeme == {""} \cup UNION {Range(source) : source \in Sources}

(* Type invariant. *)
TypeOK ==
  /\ tokens \in Seq([type : TokenType, lexeme : Lexeme])
  /\ \A k \in DOMAIN compilers :
       /\ compilers[k].function \in DOMAIN functions
       /\ compilers[k].locals \in
            Seq([name : Lexeme, depth : Int, ready : BOOLEAN, is_captured : BOOLEAN])
       /\ compilers[k].upvalues \in Seq([index : 0 .. UINT8_MAX, is_local : BOOLEAN])
       /\ {compilers[k].had_error, compilers[k].panic_mode} \subseteq BOOLEAN
       /\ compilers[k].scope_depth \in Nat
  /\ \A f \in DOMAIN functions :
       /\ functions[f].arity \in 0 .. UINT8_MAX
       /\ functions[f].upvalue_count \in Nat
       /\ \A i \in DOMAIN functions[f].code :
            functions[f].code[i] \in 0 .. UINT8_MAX \cup {Code[op] : op \in OpCode}

(***************************************************************************)
(* However broken the source, the parser never looks at a token behind     *)
(* the end marker: tokens[current] and tokens[previous] exist.             *)
(***************************************************************************)
ReadsInBounds ==
  ~Done /\ Head(work).do \notin {"compile", "end_compiler"} =>
    This([compilers |-> compilers]).current <= Len(tokens)

(***************************************************************************)
(* At every moment, what a function under compilation captures exists one  *)
(* function further out: a local of the enclosing function, marked to be   *)
(* closed when it leaves its scope, or one of that function's upvalues.    *)
(***************************************************************************)
UpvaluesResolve ==
  errors = {} =>
    \A k \in 2 .. Len(compilers) : \A i \in DOMAIN compilers[k].upvalues :
      LET uv    == compilers[k].upvalues[i]
          outer == compilers[k - 1]
      IN  IF uv.is_local
          THEN uv.index < Len(outer.locals) /\ outer.locals[uv.index + 1].is_captured
          ELSE uv.index < Len(outer.upvalues)

(* The jumps that a call is to patch. *)
Patches(c) == {c[x] : x \in {"jump"} \cap DOMAIN c} \cup UNION {Range(c[x]) : x \in {"exit"} \cap DOMAIN c}

(* Those in f that wait for the calls up to the end of the innermost function. *)
Unpatched(f) ==
  {a \in 0 .. Len(f.code) - 1 : \E i \in DOMAIN work : /\ AsUint16(a) \in Patches(work[i])
                                                       /\ \A j \in 1 .. i : work[j].do # "end_function"}

(***************************************************************************)
(* "locals vector has the same layout at VM's stack will have at runtime"  *)
(* (Compiler.cpp:606-607): whenever a statement begins, the code emitted   *)
(* so far leaves exactly the locals on the stack, and those that closures  *)
(* have captured are known to be so.  Jumps that patch_jump has not got to *)
(* lead nowhere yet.                                                       *)
(***************************************************************************)
LocalsMirrorStack ==
  ~Done /\ errors = {} /\ Head(work).do = "declaration" =>
    LET me == compilers[Len(compilers)]
        f  == functions[me.function]
    IN  \A p \in FlowSoFar(functions, f, Unpatched(f)) : p[1] = Len(f.code) =>
          /\ p[2] = Len(me.locals)
          /\ p[3] \subseteq {i \in 1 .. p[2] - 1 : me.locals[i + 1].is_captured}

(***************************************************************************)
(* Code that is compiled without error is well formed, whatever limits the *)
(* program comes close to: operands, jumps and stack heights are right.    *)
(***************************************************************************)
VerifiedCode ==
  Done /\ errors = {} => \A f \in DOMAIN functions : Verified(functions, f)

(***************************************************************************)
(* Only what an index of one byte can reach is ever made: constants of a   *)
(* chunk, locals, upvalues and parameters.                                 *)
(***************************************************************************)
IndicesFit ==
  errors = {} =>
    /\ \A f \in DOMAIN functions :
         /\ Len(functions[f].constants) <= UINT8_MAX + 1
         /\ functions[f].upvalue_count <= UINT8_MAX + 1
    /\ \A k \in DOMAIN compilers :
         /\ Len(compilers[k].locals) <= UINT8_MAX + 1
         /\ Len(compilers[k].upvalues) =
              functions[compilers[k].function].upvalue_count

(***************************************************************************)
(* Every scope and function that was entered is left, errors or not.       *)
(***************************************************************************)
ScopesBalanced ==
  Done => /\ Len(compilers) = 1
          /\ compilers[1].scope_depth = 0
          /\ Len(compilers[1].locals) = 1

(***************************************************************************)
(* Compilation of every program comes to an end, unless it arrives at a    *)
(* declaration that fails without consuming a token, at a place at which   *)
(* synchronize() stops without consuming one either: it begins there once  *)
(* more.  (Every other loop gets on, and recovery that advances leads to   *)
(* an end.)                                                                *)
(***************************************************************************)
Stalled ==
  /\ ~Done
  /\ Head(work).do = "synchronize"
  /\ LET s == [compilers |-> compilers]
     IN  /\ This(s).panic_mode
         /\ This(s).current = Head(work).from
         /\ tokens[This(s).current].type # "LOX_EOF"
         /\ Familiar(s, This(s).current)

TerminatesOrStalls == <>(Done \/ Stalled)

(***************************************************************************)
(* end_compiler has the chunk of a function disassembled when its compiler *)
(* has reported no error, whatever the enclosing ones have: the listing    *)
(* shows the code as it is executed.                                       *)
(***************************************************************************)
ListingsAreTrue ==
  ~Done /\ Head(work).do \in {"end_compiler", "end_function"} =>
    LET s == EmitReturn([compilers |-> compilers, functions |-> functions])
    IN  ~This(s).had_error => TrueListing(s.functions, Function(s))

(***************************************************************************)
(* "Skips tokens until familiar territory is found" (Compiler.cpp:754):    *)
(* a declaration and the recovery after it consume at least one token, so  *)
(* that the loops of compile() and block() get on.                         *)
(***************************************************************************)
DeclarationConsumes ==
  [][~Done /\ Head(work).do = "synchronize" =>
        compilers'[Len(compilers)].current > Head(work).from]_vars

(***************************************************************************)
(* "Each call to add_byte adds entry to line_numbers" (Chunk.h:56-57): the *)
(* line table has an entry for each byte of code.                          *)
(***************************************************************************)
LineTableComplete ==
  \A f \in DOMAIN functions : functions[f].lines = Len(functions[f].code)

=============================================================================
