---------------------------- MODULE Disassembler ----------------------------
(***************************************************************************)
(* The disassembler (Bytecode/Debug.cpp), which the compiler runs over     *)
(* every finished chunk and the virtual machine over each instruction it   *)
(* is about to execute.  It knows the layout of instructions by itself:    *)
(* it goes through a chunk from front to back, where the machine follows   *)
(* jumps.  What it prints is left out.                                     *)
(***************************************************************************)
EXTENDS Bytecode

ConstantInstructions == {"OP_CONSTANT", "OP_GET_GLOBAL", "OP_DEFINE_GLOBAL", "OP_SET_GLOBAL"}

ByteInstructions == {"OP_NOOP", "OP_GET_LOCAL", "OP_SET_LOCAL", "OP_GET_UPVALUE",
                     "OP_SET_UPVALUE", "OP_CALL"}

JumpInstructions == {"OP_JUMP", "OP_JUMP_IF_FALSE", "OP_LOOP"}

(* What is looked up in the table of constants is there. *)
ConstantKnown(f, offset) ==
  offset + 1 < Len(f.code) /\ At(f.code, offset + 1) < Len(f.constants)

(***************************************************************************)
(* disassemble_instruction finds what it reads and asserts, the line table *)
(* apart.                                                                  *)
(***************************************************************************)
ReadableAt(f, offset) ==
  At(f.code, offset) \in DOMAIN Named =>
    LET op == OpAt(f, offset)
    IN  /\ op \in ConstantInstructions => ConstantKnown(f, offset)
        /\ op \in ByteInstructions => offset + 1 < Len(f.code)
        /\ op \in JumpInstructions => offset + 2 < Len(f.code)
        /\ op = "OP_CLOSURE" =>
             ConstantKnown(f, offset) /\ IsFun(f.constants[ArgAt(f, offset) + 1])

(* Where it goes on (fault: jumps have one operand byte). *)
NextOffsetShortJumps(fs, f, offset) ==
  LET op == IF At(f.code, offset) \in DOMAIN Named THEN OpAt(f, offset) ELSE "unknown"
  IN  CASE op \in ConstantInstructions \cup ByteInstructions \cup JumpInstructions -> offset + 2
        [] op = "OP_CLOSURE" ->
             offset + 2 + 2 * fs[f.constants[ArgAt(f, offset) + 1].fun].upvalue_count
        [] OTHER -> offset + 1

NextOffset(fs, f, offset) ==
  LET op == IF At(f.code, offset) \in DOMAIN Named THEN OpAt(f, offset) ELSE "unknown"
  IN  CASE op \in ConstantInstructions \cup ByteInstructions -> offset + 2
        [] op \in JumpInstructions -> offset + 3
        [] op = "OP_CLOSURE" ->
             offset + 2 + 2 * fs[f.constants[ArgAt(f, offset) + 1].fun].upvalue_count
        [] OTHER -> offset + 1

(* disassemble_chunk: the offsets it comes by, the last one included. *)
Listing(fs, f) ==
  LET From[offset \in Nat] ==
        IF offset >= Len(f.code) \/ ~ReadableAt(f, offset) THEN {offset}
        ELSE {offset} \cup From[NextOffset(fs, f, offset)]
  IN  From[0]

(***************************************************************************)
(* A listing is true when it shows the instructions that are executed: it  *)
(* ends where the code ends, everything it looks up is there, and every    *)
(* address control can get to is the beginning of a line of it.            *)
(***************************************************************************)
TrueListing(fs, f) ==
  LET listing == Listing(fs, f)
  IN  /\ Len(f.code) \in listing
      /\ {p[1] : p \in Flow(fs, f)} \subseteq listing \ {Len(f.code)}

=============================================================================
