------------------------------ MODULE Bytecode ------------------------------
(***************************************************************************)
(* What the compiler and the virtual machine share: opcodes, their layout  *)
(* in a chunk, and functions (Chunk.h, LoxObject.h, Value.h).              *)
(*                                                                         *)
(* A chunk's code is a sequence of bytes, addressed from 0 as in the code. *)
(* A byte has UINT8_MAX + 1 values; small values of UINT8_MAX bring the    *)
(* limits of one- and two-byte operands within reach of model checking.    *)
(***************************************************************************)
EXTENDS Integers, Sequences, SequencesExt

CONSTANT UINT8_MAX

ASSUME ByteAssumption == UINT8_MAX \in Nat \ {0}

UINT16_MAX == (UINT8_MAX + 1) * (UINT8_MAX + 1) - 1

OpCodes == <<
  "OP_RETURN", "OP_CONSTANT", "OP_NIL", "OP_TRUE", "OP_FALSE", "OP_POP",
  "OP_GET_LOCAL", "OP_SET_LOCAL", "OP_GET_GLOBAL", "OP_DEFINE_GLOBAL",
  "OP_SET_GLOBAL", "OP_EQUAL", "OP_GREATER", "OP_LESS", "OP_ADD",
  "OP_SUBTRACT", "OP_MULTIPLY", "OP_DIVIDE", "OP_NOT", "OP_NEGATE",
  "OP_PRINT", "OP_JUMP_IF_FALSE", "OP_JUMP", "OP_LOOP", "OP_CALL",
  "OP_CLOSURE", "OP_NOOP", "OP_GET_UPVALUE", "OP_SET_UPVALUE",
  "OP_CLOSE_UPVALUE" >>

OpCode == {OpCodes[i] : i \in DOMAIN OpCodes}

(* The byte that stands for an opcode, and back. *)
Code  == [op \in OpCode |-> (CHOOSE i \in DOMAIN OpCodes : OpCodes[i] = op) - 1]
Named == [b \in 0 .. Len(OpCodes) - 1 |-> OpCodes[b + 1]]

At(code, addr) == code[addr + 1]

(* Two operand bytes, the upper one first. *)
Uint16(code, addr) == At(code, addr) * (UINT8_MAX + 1) + At(code, addr + 1)

Operands == [op \in OpCode |->
  CASE op \in {"OP_CONSTANT", "OP_GET_LOCAL", "OP_SET_LOCAL", "OP_GET_GLOBAL",
               "OP_DEFINE_GLOBAL", "OP_SET_GLOBAL", "OP_CALL", "OP_CLOSURE",
               "OP_NOOP", "OP_GET_UPVALUE", "OP_SET_UPVALUE"} -> 1
    [] op \in {"OP_JUMP_IF_FALSE", "OP_JUMP", "OP_LOOP"} -> 2
    [] OTHER -> 0]

(***************************************************************************)
(* Values are records that differ in their one field: [nil |-> TRUE],      *)
(* [bool |-> b], [num |-> n], [str |-> s], [fun |-> index of a function],  *)
(* [clo |-> index of a closure] and [native |-> name].                     *)
(***************************************************************************)
Nil      == [nil |-> TRUE]
Bool(b)  == [bool |-> b]
Num(n)   == [num |-> n]
Str(s)   == [str |-> s]
Fun(f)   == [fun |-> f]
IsNum(v) == DOMAIN v = {"num"}
IsStr(v) == DOMAIN v = {"str"}
IsFun(v) == DOMAIN v = {"fun"}

(***************************************************************************)
(* A Function and its chunk.  Only the length of the chunk's line table is *)
(* kept.                                                                   *)
(***************************************************************************)
NewFunction(name) ==
  [name |-> name, arity |-> 0, upvalue_count |-> 0,
   code |-> <<>>, lines |-> 0, constants |-> <<>>]

(***************************************************************************)
(* What Function, Chunk and Value allow, well formed or not: the first of  *)
(* the functions is the script, a chunk's constants are numbers, strings   *)
(* and functions, and its code is bytes.                                   *)
(***************************************************************************)
IsConstant(fs, v) == IsNum(v) \/ IsStr(v) \/ v \in [fun : DOMAIN fs]

IsProgram(fs) ==
  /\ fs \in Seq(Range(fs))
  /\ 1 \in DOMAIN fs
  /\ \A f \in DOMAIN fs :
       /\ fs[f].code \in Seq(Nat)
       /\ {fs[f].arity, fs[f].upvalue_count, fs[f].lines} \subseteq Nat
       /\ fs[f].constants \in Seq(Range(fs[f].constants))
       /\ \A v \in Range(fs[f].constants) : IsConstant(fs, v)

-----------------------------------------------------------------------------
(***************************************************************************)
(* What a well-formed function is: walked from its entry along every       *)
(* branch, each instruction finds its operands in range and the stack at   *)
(* one height, whichever way it was reached, and a variable that a closure *)
(* has captured leaves the stack by OP_CLOSE_UPVALUE or OP_RETURN only.    *)
(* Heights count from the frame's first slot, which holds the closure.     *)
(***************************************************************************)

(* How many values an instruction takes off the stack, and leaves there. *)
Pops(op, arg) ==
  CASE op \in {"OP_EQUAL", "OP_GREATER", "OP_LESS", "OP_ADD", "OP_SUBTRACT",
               "OP_MULTIPLY", "OP_DIVIDE"} -> 2
    [] op \in {"OP_RETURN", "OP_POP", "OP_SET_LOCAL", "OP_DEFINE_GLOBAL", "OP_SET_GLOBAL",
               "OP_NOT", "OP_NEGATE", "OP_PRINT", "OP_JUMP_IF_FALSE",
               "OP_SET_UPVALUE", "OP_CLOSE_UPVALUE"} -> 1
    [] op = "OP_CALL" -> arg + 1
    [] OTHER -> 0

Pushes(op) ==
  IF op \in {"OP_RETURN", "OP_POP", "OP_DEFINE_GLOBAL", "OP_PRINT", "OP_JUMP", "OP_LOOP",
             "OP_NOOP", "OP_CLOSE_UPVALUE"}
  THEN 0 ELSE 1

(* The instruction at addr, its first operand, and whether it is all there. *)
OpAt(f, addr)  == Named[At(f.code, addr)]
ArgAt(f, addr) == IF Operands[OpAt(f, addr)] > 0 THEN At(f.code, addr + 1) ELSE 0
Whole(f, addr) ==
  /\ addr \in 0 .. Len(f.code) - 1
  /\ At(f.code, addr) \in DOMAIN Named
  /\ addr + Operands[OpAt(f, addr)] < Len(f.code)

(* What the OP_CLOSURE at addr captures, as pairs of is_local and index. *)
Captures(fs, f, addr) ==
  LET k == ArgAt(f, addr)
      n == IF k < Len(f.constants) /\ IsFun(f.constants[k + 1])
           THEN fs[f.constants[k + 1].fun].upvalue_count ELSE 0
  IN  {<<At(f.code, addr + 2 + 2 * i), At(f.code, addr + 3 + 2 * i)>> :
         i \in {j \in 0 .. n - 1 : addr + 3 + 2 * j < Len(f.code)}}

Size(fs, f, addr) ==
  LET k == ArgAt(f, addr)
  IN  1 + Operands[OpAt(f, addr)] +
        IF OpAt(f, addr) = "OP_CLOSURE" /\ k < Len(f.constants) /\ IsFun(f.constants[k + 1])
        THEN 2 * fs[f.constants[k + 1].fun].upvalue_count ELSE 0

(* Where control may go after the instruction at addr. *)
Successors(fs, f, addr) ==
  LET op   == OpAt(f, addr)
      fall == addr + Size(fs, f, addr)
  IN  CASE op = "OP_RETURN"        -> {}
        [] op = "OP_JUMP"          -> {fall + Uint16(f.code, addr + 1)}
        [] op = "OP_LOOP"          -> {fall - Uint16(f.code, addr + 1)}
        [] op = "OP_JUMP_IF_FALSE" -> {fall, fall + Uint16(f.code, addr + 1)}
        [] OTHER                   -> {fall}

(***************************************************************************)
(* A place is an address, the stack's height and the slots that closures   *)
(* have captured.  The places that follow p:                               *)
(***************************************************************************)
Edges(fs, f, p) ==
  IF ~Whole(f, p[1]) THEN {}
  ELSE LET op     == OpAt(f, p[1])
           height == p[2] - Pops(op, ArgAt(f, p[1])) + Pushes(op)
           open   == CASE op = "OP_CLOSURE" ->
                            p[3] \cup {c[2] : c \in {d \in Captures(fs, f, p[1]) : d[1] # 0}}
                       [] op = "OP_CLOSE_UPVALUE" -> p[3] \ {p[2] - 1}
                       [] OTHER -> p[3]
       IN  {<<a, height, open>> : a \in Successors(fs, f, p[1])}

(* Of these, a jump that waits for its distance leads to the next instruction only, if anywhere. *)
Onward(fs, f, waiting, p) ==
  {q \in Edges(fs, f, p) :
     p[1] \in waiting => /\ OpAt(f, p[1]) # "OP_JUMP"
                         /\ OpAt(f, p[1]) = "OP_JUMP_IF_FALSE" => q[1] = p[1] + 3}

(***************************************************************************)
(* The places that follow the fresh ones; not those at an address that was *)
(* reached with another height.                                            *)
(***************************************************************************)
Follow(fs, f, waiting, reached, fresh) ==
  LET height == [a \in {p[1] : p \in reached} |-> (CHOOSE p \in reached : p[1] = a)[2]]
  IN  {p \in (UNION {Onward(fs, f, waiting, q) : q \in fresh}) \ reached :
         p[1] \in DOMAIN height => height[p[1]] = p[2]}

(* An address, the height of the stack there, and what is captured. *)
Places == Int \X Int \X SUBSET Int

(***************************************************************************)
(* The places that are reached from the function's entry while some of its *)
(* jumps wait.  The walk has seen some places, and follows the fresh ones. *)
(***************************************************************************)
FlowSoFar(fs, f, waiting) ==
  LET Explore[seen \in (SUBSET Places) \X (SUBSET Places)] ==
        LET next == Follow(fs, f, waiting, seen[1], seen[2])
        IN  IF next = {} THEN seen[1] ELSE Explore[<<seen[1] \cup next, next>>]
      entry == {<<0, 1 + f.arity, {}>>}
  IN  Explore[<<entry, entry>>]

(* The places that a finished function reaches. *)
Flow(fs, f) == FlowSoFar(fs, f, {})

(* The operands of the instruction at addr name things that exist. *)
OperandsValid(fs, f, addr, height) ==
  LET op  == OpAt(f, addr)
      arg == ArgAt(f, addr)
  IN  CASE op = "OP_CONSTANT" -> arg < Len(f.constants)
        [] op \in {"OP_GET_GLOBAL", "OP_SET_GLOBAL", "OP_DEFINE_GLOBAL"} ->
             arg < Len(f.constants) /\ IsStr(f.constants[arg + 1])
        [] op \in {"OP_GET_LOCAL", "OP_SET_LOCAL"} -> arg \in 1 .. height - 1
        [] op \in {"OP_GET_UPVALUE", "OP_SET_UPVALUE"} -> arg < f.upvalue_count
        [] op = "OP_CLOSURE" ->
             /\ arg < Len(f.constants) /\ IsFun(f.constants[arg + 1])
             /\ \A c \in Captures(fs, f, addr) :
                  \* a function may capture its own name, which the closure becomes
                  IF c[1] # 0 THEN c[2] \in 1 .. height ELSE c[2] < f.upvalue_count
        [] OTHER -> TRUE

(* The i-th of the functions is well formed; the first is the script. *)
Verified(fs, i) ==
  LET f    == fs[i]
      flow == Flow(fs, f)
  IN  /\ i = 1 => f.arity = 0 /\ f.upvalue_count = 0
      /\ <<0, 1 + f.arity, {}>> \in flow
      /\ \A p \in flow :
           /\ Whole(f, p[1])
           /\ p[1] + Size(fs, f, p[1]) <= Len(f.code)
           /\ OperandsValid(fs, f, p[1], p[2])
           /\ LET op   == OpAt(f, p[1])
                  pops == Pops(op, ArgAt(f, p[1]))
              IN  /\ p[2] > pops   \* the closure's own slot stays
                  /\ op = "OP_RETURN" /\ i = 1 => p[2] = 2
                  /\ op \notin {"OP_RETURN", "OP_CLOSE_UPVALUE"} =>
                       p[3] \cap p[2] - pops .. p[2] - 1 = {}
           /\ Edges(fs, f, p) \subseteq flow
           /\ \A q \in flow : q[1] = p[1] => q[2] = p[2]

(* A program the machine can rely on; OP_CLOSURE counts upvalues with a byte. *)
AllVerified(fs) ==
  \A f \in DOMAIN fs : Verified(fs, f) /\ fs[f].upvalue_count <= UINT8_MAX

=============================================================================
