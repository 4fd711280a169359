-------------------------------- MODULE MCVM --------------------------------
(***************************************************************************)
(* VM for TLC: all short scripts over a set of instructions, well formed   *)
(* or not, with four functions to call and to close over variables.        *)
(***************************************************************************)
EXTENDS LoxGC

Concatenations(fragments, n) ==
  {FlattenSeq(s) : s \in UNION {[1 .. k -> fragments] : k \in 0 .. n}}

Instruction(op)   == <<Code[op]>>
With(op, operand) == <<Code[op], operand>>

FunctionOfCode(name, arity, upvalue_count, constants, code) ==
  [name |-> name, arity |-> arity, upvalue_count |-> upvalue_count,
   code |-> code, lines |-> Len(code), constants |-> constants]

Constants == <<Fun(2), Fun(3), Num(1), Str("x"), Str("clock")>>

(* f(a) returns a + 1, or fails. *)
F == FunctionOfCode("f", 1, 0, <<Num(1)>>,
       With("OP_GET_LOCAL", 1) \o With("OP_CONSTANT", 0) \o Instruction("OP_ADD")
         \o Instruction("OP_RETURN"))

(* g() returns a closure that captures what g captured. *)
G == FunctionOfCode("g", 0, 1, <<Fun(4)>>,
       With("OP_CLOSURE", 0) \o <<0, 0>> \o Instruction("OP_RETURN"))

(* h() sets the captured variable to false and returns its value. *)
H == FunctionOfCode("h", 0, 1, <<>>,
       Instruction("OP_FALSE") \o With("OP_SET_UPVALUE", 0) \o Instruction("OP_POP")
         \o With("OP_GET_UPVALUE", 0) \o Instruction("OP_RETURN"))

Fragments == {
  Instruction("OP_NIL"), Instruction("OP_POP"), Instruction("OP_ADD"), Instruction("OP_RETURN"),
  Instruction("OP_CLOSE_UPVALUE"),
  With("OP_CONSTANT", 2), With("OP_GET_LOCAL", 1), With("OP_SET_LOCAL", 1),
  With("OP_DEFINE_GLOBAL", 3), With("OP_GET_GLOBAL", 3), With("OP_GET_GLOBAL", 4),
  With("OP_GET_UPVALUE", 0),
  With("OP_CALL", 0), With("OP_CALL", 1),
  With("OP_CLOSURE", 0), With("OP_CLOSURE", 1) \o <<1, 1>>, With("OP_CLOSURE", 1) \o <<1, 2>>,
  With("OP_JUMP_IF_FALSE", 0) \o <<1>>, With("OP_LOOP", 0) \o <<4>> }

(* Instructions on values and global variables, and an opcode that does not exist. *)
DataFragments == {
  Instruction("OP_ADD"), With("OP_NOOP", 0), <<Len(OpCodes)>>,
  Instruction("OP_NOT"), Instruction("OP_NEGATE"), Instruction("OP_PRINT"),
  Instruction("OP_EQUAL"), Instruction("OP_GREATER"), Instruction("OP_LESS"),
  Instruction("OP_SUBTRACT"), Instruction("OP_MULTIPLY"), Instruction("OP_DIVIDE"),
  With("OP_CONSTANT", 2), With("OP_CONSTANT", 3),
  With("OP_DEFINE_GLOBAL", 3), With("OP_SET_GLOBAL", 3), With("OP_GET_GLOBAL", 3) }

Script(body, ending) ==
  Instruction("OP_NIL") \o Instruction("OP_TRUE") \o body \o ending
    \o Instruction("OP_NIL") \o Instruction("OP_RETURN")

(* Two closures are made, one instruction is executed, both are dropped. *)
ClosingOver == {With("OP_CLOSURE", 1) \o <<1, 1>>, With("OP_CLOSURE", 1) \o <<1, 2>>}

TwoClosures ==
  {first \o second \o then \o Instruction("OP_POP") \o Instruction("OP_POP") :
     first \in ClosingOver, second \in ClosingOver, then \in Fragments}

Scripts ==
  {Script(body, Instruction(last) \o Instruction(first)) :
     body \in Concatenations(Fragments, 3) \cup TwoClosures,
     last \in {"OP_POP", "OP_CLOSE_UPVALUE"}, first \in {"OP_POP", "OP_CLOSE_UPVALUE"}}
  \cup
  {Script(body, <<>>) : body \in Concatenations(DataFragments, 3)}

ShortScripts ==
  {<<FunctionOfCode("script", 0, 0, Constants, s), F, G, H>> : s \in Scripts}

=============================================================================
