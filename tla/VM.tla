--------------------------------- MODULE VM ---------------------------------
(***************************************************************************)
(* The virtual machine (Bytecode/VM.cpp): a stack machine with closures.   *)
(* One action executes one instruction.  Before it executes, an            *)
(* instruction falls in one of three classes: it may be undefined (it      *)
(* reads behind the end of a vector or fails an assertion), it may end the *)
(* program with a runtime error, or its action below describes it.         *)
(*                                                                         *)
(* Stack indices count from 0, as in the code; numbers are integers.       *)
(***************************************************************************)
EXTENDS Bytecode, TLC

CONSTANTS
  Programs,             \* what may be interpreted: sequences of functions, the script first
  MAX_CALLSTACK_DEPTH,
  ClockValues,          \* what clock() may return
  MaxStack,             \* bound on the stack's size, which the code does not limit
  MaxOutput             \* bound on what a program prints

ASSUME DepthAssumption == MAX_CALLSTACK_DEPTH \in Nat \ {0}
ASSUME ProgramsAssumption == \A program \in Programs : IsProgram(program)

VARIABLES
  functions,      \* the functions of the program
  status,         \* "ready", "running", "ok", "runtime_error" or "undefined"
  stack,
  call_frames,    \* records of a closure, an ip and the stack_offset
  closures,       \* every Closure made so far
  upvalues,       \* every RuntimeUpvalue made so far: it is open or closed
  open_upvalues,  \* those that are still on the stack, as VM lists them
  globals,        \* the value of each global variable
  output          \* what was printed

vars == <<functions, status, stack, call_frames, closures, upvalues, open_upvalues,
          globals, output>>

-----------------------------------------------------------------------------
(* Values *)

Closure(c)     == [clo |-> c]
Native(name)   == [native |-> name]
IsClosure(v)   == DOMAIN v = {"clo"}
IsNative(v)    == DOMAIN v = {"native"}
IsFalsey(v)    == v \in {Nil, Bool(FALSE)}

ToString_(v) ==
  CASE DOMAIN v = {"bool"} -> IF v.bool THEN "true" ELSE "false"
    [] IsNum(v)            -> ToString(v.num)
    [] IsStr(v)            -> v.str
    [] DOMAIN v = {"nil"}  -> "nil"
    [] IsFun(v)            -> "<fn " \o functions[v.fun].name \o ">"
    [] IsNative(v)         -> "<native fn>"
    [] IsClosure(v)        -> "<fn " \o functions[closures[v.clo].function].name \o ">"

-----------------------------------------------------------------------------
(* The instruction at hand *)

Frame    == Last(call_frames)
FunctionOf(frame) == functions[closures[frame.closure].function]
CurrFun  == FunctionOf(Frame)
Ip       == Frame.ip
Opcode   == Named[At(CurrFun.code, Ip)]
Operand  == At(CurrFun.code, Ip + 1)
Constant == CurrFun.constants[Operand + 1]
Slot     == Frame.stack_offset + Operand
Captured == closures[Frame.closure].upvalues[Operand + 1]

Size_    == Len(stack)
Get(i)   == stack[i + 1]            \* the value at stack index i
Peek(n)  == stack[Size_ - n]        \* the value that far below the top
Dropped(n) == SubSeq(stack, 1, Size_ - n)
Pushed(v)  == Append(stack, v)

ArgCount == Operand
Callee   == Peek(ArgCount)

(* A closure in the making: what the OP_CLOSURE at hand closes over. *)
Template     == functions[Constant.fun]
IsLocal(i)   == At(CurrFun.code, Ip + 2 + 2 * i) # 0
CaptureIndex(i) == At(CurrFun.code, Ip + 3 + 2 * i)

IsOpen(u) == DOMAIN u = {"index"}

(* RuntimeUpvalue::value asserts that an open one is on the stack. *)
Readable(u) == IsOpen(upvalues[u]) => upvalues[u].index < Size_
ValueOf(u)  == IF IsOpen(upvalues[u]) THEN Get(upvalues[u].index) ELSE upvalues[u].value

(***************************************************************************)
(* Which instructions have a defined effect.                               *)
(***************************************************************************)
Needed(op) ==
  CASE op \in {"OP_EQUAL", "OP_GREATER", "OP_LESS", "OP_ADD", "OP_SUBTRACT",
               "OP_MULTIPLY", "OP_DIVIDE"} -> 2
    [] op \in {"OP_POP", "OP_PRINT", "OP_RETURN", "OP_JUMP_IF_FALSE", "OP_CLOSE_UPVALUE",
               "OP_SET_UPVALUE", "OP_SET_LOCAL", "OP_DEFINE_GLOBAL", "OP_SET_GLOBAL",
               "OP_NOT", "OP_NEGATE"} -> 1
    [] op = "OP_CALL" -> ArgCount + 1
    [] OTHER -> 0

(* The trailing entries of open_upvalues that close_upvalues(last) closes. *)
Kept(last)    == SelectLastInSeq(open_upvalues, LAMBDA u : upvalues[u].index < last)
Closing(last) == {open_upvalues[i] : i \in Kept(last) + 1 .. Len(open_upvalues)}

Defined ==
  /\ Ip \in 0 .. Len(CurrFun.code) - 1
  /\ At(CurrFun.code, Ip) \in DOMAIN Named =>
       /\ Ip + Operands[Opcode] < Len(CurrFun.code)
       /\ Size_ >= Needed(Opcode)
       /\ Opcode \in {"OP_CONSTANT", "OP_GET_GLOBAL", "OP_SET_GLOBAL", "OP_DEFINE_GLOBAL",
                      "OP_CLOSURE"} => Operand < Len(CurrFun.constants)
       /\ Opcode \in {"OP_GET_LOCAL", "OP_SET_LOCAL"} => Slot < Size_
       /\ Opcode \in {"OP_GET_UPVALUE", "OP_SET_UPVALUE"} =>
            Operand < Len(closures[Frame.closure].upvalues) /\ Readable(Captured)
       /\ Opcode = "OP_CLOSE_UPVALUE" => \A u \in Closing(Size_ - 1) : Readable(u)
       /\ Opcode = "OP_RETURN" =>
            /\ \A u \in Closing(Frame.stack_offset + 1) : Readable(u)
            /\ IF Len(call_frames) = 1 THEN Size_ = 2 ELSE Frame.stack_offset < Size_
       /\ Opcode = "OP_CLOSURE" /\ IsFun(Constant) =>
            /\ Template.upvalue_count <= UINT8_MAX   \* a uint8_t counts up to it
            /\ Ip + 1 + 2 * Template.upvalue_count < Len(CurrFun.code)
            /\ \A i \in 0 .. Template.upvalue_count - 1 :
                 IsLocal(i) \/ CaptureIndex(i) < Len(closures[Frame.closure].upvalues)

(***************************************************************************)
(* Which of them are runtime errors.                                       *)
(***************************************************************************)
(* Why a call fails (fault: there is room for one frame more). *)
CallFailsLate ==
  \/ Len(call_frames) > MAX_CALLSTACK_DEPTH
  \/ ~IsClosure(Callee) /\ ~IsNative(Callee)
  \/ IsClosure(Callee) /\ ArgCount # functions[closures[Callee.clo].function].arity

CallFails ==
  \/ Len(call_frames) >= MAX_CALLSTACK_DEPTH
  \/ ~IsClosure(Callee) /\ ~IsNative(Callee)
  \/ IsClosure(Callee) /\ ArgCount # functions[closures[Callee.clo].function].arity

Erroneous ==
  At(CurrFun.code, Ip) \in DOMAIN Named =>
    \/ /\ Opcode \in {"OP_GREATER", "OP_LESS", "OP_SUBTRACT", "OP_MULTIPLY", "OP_DIVIDE"}
       /\ ~IsNum(Peek(0)) \/ ~IsNum(Peek(1))
    \/ /\ Opcode = "OP_ADD"
       /\ ~(IsNum(Peek(0)) /\ IsNum(Peek(1))) /\ ~(IsStr(Peek(0)) /\ IsStr(Peek(1)))
    \/ Opcode = "OP_NEGATE" /\ ~IsNum(Peek(0))
    \/ Opcode = "OP_CALL" /\ CallFails
    \/ Opcode = "OP_CLOSURE" /\ ~IsFun(Constant)
    \/ Opcode \in {"OP_GET_GLOBAL", "OP_SET_GLOBAL", "OP_DEFINE_GLOBAL"} /\ ~IsStr(Constant)
    \/ Opcode \in {"OP_GET_GLOBAL", "OP_SET_GLOBAL"} /\ Constant.str \notin DOMAIN globals

(***************************************************************************)
(* set_runtime_error looks a line up for the instruction in each frame,    *)
(* and one for the current frame's next byte.                              *)
(***************************************************************************)
LinesKnown ==
  /\ \A i \in DOMAIN call_frames :
       LET frame == call_frames[i]
           ip    == IF i = Len(call_frames) THEN frame.ip + Operands[Opcode] ELSE frame.ip - 1
       IN  ip < FunctionOf(frame).lines
  /\ Ip + 1 + Operands[Opcode] < CurrFun.lines

-----------------------------------------------------------------------------
(* Actions *)

(* VM() and what interpret() is given. *)
InitVM ==
  /\ status = "ready"
  /\ stack = <<>>
  /\ call_frames = <<>>
  /\ closures = <<>>
  /\ upvalues = <<>>
  /\ open_upvalues = <<>>
  /\ globals = [name \in {"clock"} |-> Native("clock")]
  /\ output = <<>>

Init == functions \in Programs /\ InitVM

(* Another VM takes its place. *)
RestartVM ==
  /\ status' = "ready"
  /\ stack' = <<>>
  /\ call_frames' = <<>>
  /\ closures' = <<>>
  /\ upvalues' = <<>>
  /\ open_upvalues' = <<>>
  /\ globals' = [name \in {"clock"} |-> Native("clock")]
  /\ output' = <<>>

(* interpret: the script's closure is called. *)
Interpret ==
  /\ status = "ready"
  /\ closures' = <<[function |-> 1, upvalues |-> <<>>]>>
  /\ stack' = <<Closure(1)>>
  /\ call_frames' = <<[closure |-> 1, ip |-> 0, stack_offset |-> 0]>>
  /\ status' = "running"
  /\ UNCHANGED <<functions, upvalues, open_upvalues, globals, output>>

Undefined ==
  /\ status = "running"
  /\ ~Defined
  /\ status' = "undefined"
  /\ UNCHANGED <<functions, stack, call_frames, closures, upvalues, open_upvalues, globals,
                 output>>

(***************************************************************************)
(* A runtime error ends the program; a line that is looked up behind the   *)
(* end of the line table is undefined.  An opcode that does not exist ends *)
(* it silently.                                                            *)
(***************************************************************************)
RuntimeError ==
  /\ status = "running"
  /\ Defined
  /\ Erroneous
  /\ IF At(CurrFun.code, Ip) \in DOMAIN Named /\ ~LinesKnown
     THEN status' \in {"runtime_error", "undefined"}
     ELSE status' = "runtime_error"
  /\ UNCHANGED <<functions, stack, call_frames, closures, upvalues, open_upvalues, globals,
                 output>>

(* Numbers are integers here, so only exact quotients are in the model. *)
Exact == Peek(0).num > 0 /\ Peek(1).num % Peek(0).num = 0

Bounded ==
  /\ Size_ <= MaxStack
  /\ Len(output) <= MaxOutput
  /\ Opcode = "OP_DIVIDE" => Exact

Fetch(ops) ==
  /\ status = "running"
  /\ Defined
  /\ ~Erroneous
  /\ Opcode \in ops
  /\ Bounded

(* The current frame goes on behind the instruction and `further' bytes. *)
Proceed(further) ==
  call_frames' = [call_frames EXCEPT ![Len(call_frames)].ip =
                    @ + 1 + Operands[Opcode] + further]

Quiet == UNCHANGED <<functions, status, closures, upvalues, open_upvalues, globals, output>>

(* How far a jump goes. *)
Distance ==
  LET offset == Uint16(CurrFun.code, Ip + 1)
  IN  CASE Opcode = "OP_JUMP_IF_FALSE" -> IF IsFalsey(Peek(0)) THEN offset ELSE 0
        [] Opcode = "OP_JUMP"          -> offset
        [] Opcode = "OP_LOOP"          -> -offset

Jump ==
  /\ Fetch({"OP_JUMP_IF_FALSE", "OP_JUMP", "OP_LOOP"})
  /\ Proceed(Distance)
  /\ UNCHANGED stack
  /\ Quiet

PrintTop ==
  /\ Fetch({"OP_PRINT"})
  /\ output' = Append(output, ToString_(Peek(0)))
  /\ stack' = Dropped(1)
  /\ Proceed(0)
  /\ UNCHANGED <<functions, status, closures, upvalues, open_upvalues, globals>>

(* What an instruction puts on the stack. *)
Loaded ==
  CASE Opcode = "OP_CONSTANT"    -> Constant
    [] Opcode = "OP_NIL"         -> Nil
    [] Opcode = "OP_TRUE"        -> Bool(TRUE)
    [] Opcode = "OP_FALSE"       -> Bool(FALSE)
    [] Opcode = "OP_GET_LOCAL"   -> Get(Slot)
    [] Opcode = "OP_GET_UPVALUE" -> ValueOf(Captured)
    [] Opcode = "OP_GET_GLOBAL"  -> globals[Constant.str]

Push ==
  /\ Fetch({"OP_CONSTANT", "OP_NIL", "OP_TRUE", "OP_FALSE", "OP_GET_LOCAL",
            "OP_GET_UPVALUE", "OP_GET_GLOBAL"})
  /\ stack' = Pushed(Loaded)
  /\ Proceed(0)
  /\ Quiet

Pop  == Fetch({"OP_POP"}) /\ stack' = Dropped(1) /\ Proceed(0) /\ Quiet
Noop == Fetch({"OP_NOOP"}) /\ Proceed(0) /\ UNCHANGED stack /\ Quiet

SetLocal ==
  /\ Fetch({"OP_SET_LOCAL"})
  /\ stack' = [stack EXCEPT ![Slot + 1] = Peek(0)]
  /\ Proceed(0)
  /\ Quiet

(* Through an open upvalue to the stack, through a closed one to itself. *)
SetUpvalue ==
  /\ Fetch({"OP_SET_UPVALUE"})
  /\ IF IsOpen(upvalues[Captured])
     THEN /\ stack' = [stack EXCEPT ![upvalues[Captured].index + 1] = Peek(0)]
          /\ UNCHANGED upvalues
     ELSE /\ upvalues' = [upvalues EXCEPT ![Captured].value = Peek(0)]
          /\ UNCHANGED stack
  /\ Proceed(0)
  /\ UNCHANGED <<functions, status, closures, open_upvalues, globals, output>>

SetGlobal ==
  /\ Fetch({"OP_SET_GLOBAL"})
  /\ globals' = [globals EXCEPT ![Constant.str] = Peek(0)]
  /\ Proceed(0)
  /\ UNCHANGED <<functions, status, stack, closures, upvalues, open_upvalues, output>>

DefineGlobal ==
  /\ Fetch({"OP_DEFINE_GLOBAL"})
  /\ globals' = [name \in DOMAIN globals \cup {Constant.str} |->
                  IF name = Constant.str THEN Peek(0) ELSE globals[name]]
  /\ stack' = Dropped(1)
  /\ Proceed(0)
  /\ UNCHANGED <<functions, status, closures, upvalues, open_upvalues, output>>

(* The operator applied to the two values on top of the stack. *)
Result(op, lhs, rhs) ==
  CASE op = "OP_EQUAL"    -> Bool(lhs = rhs)
    [] op = "OP_GREATER"  -> Bool(lhs.num > rhs.num)
    [] op = "OP_LESS"     -> Bool(lhs.num < rhs.num)
    [] op = "OP_ADD"      -> IF IsStr(lhs) THEN Str(lhs.str \o rhs.str) ELSE Num(lhs.num + rhs.num)
    [] op = "OP_SUBTRACT" -> Num(lhs.num - rhs.num)
    [] op = "OP_MULTIPLY" -> Num(lhs.num * rhs.num)
    [] op = "OP_DIVIDE"   -> Num(lhs.num \div rhs.num)

Binary ==
  /\ Fetch({"OP_EQUAL", "OP_GREATER", "OP_LESS", "OP_ADD", "OP_SUBTRACT", "OP_MULTIPLY",
            "OP_DIVIDE"})
  /\ stack' = Append(Dropped(2), Result(Opcode, Peek(1), Peek(0)))
  /\ Proceed(0)
  /\ Quiet

Unary ==
  /\ Fetch({"OP_NOT", "OP_NEGATE"})
  /\ stack' = Append(Dropped(1), IF Opcode = "OP_NOT" THEN Bool(IsFalsey(Peek(0)))
                                 ELSE Num(-Peek(0).num))
  /\ Proceed(0)
  /\ Quiet

(***************************************************************************)
(* close_upvalues: from the back of the list, those at `last' or above     *)
(* take their value along and leave the list.  (Fault: the first of them   *)
(* stays.)                                                                 *)
(***************************************************************************)
CloseUpvaluesAbove(last) ==
  /\ upvalues' = [u \in DOMAIN upvalues |->
                    IF u \in Closing(last + 1) THEN [value |-> Get(upvalues[u].index)]
                    ELSE upvalues[u]]
  /\ open_upvalues' = SubSeq(open_upvalues, 1, Kept(last + 1))

CloseUpvalues(last) ==
  /\ upvalues' = [u \in DOMAIN upvalues |->
                    IF u \in Closing(last) THEN [value |-> Get(upvalues[u].index)]
                    ELSE upvalues[u]]
  /\ open_upvalues' = SubSeq(open_upvalues, 1, Kept(last))

CloseUpvalue ==
  /\ Fetch({"OP_CLOSE_UPVALUE"})
  /\ CloseUpvalues(Size_ - 1)
  /\ stack' = Dropped(1)
  /\ Proceed(0)
  /\ UNCHANGED <<functions, status, closures, globals, output>>

(***************************************************************************)
(* The result replaces the callee at the bottom of the frame; the script's *)
(* return ends the program.                                                *)
(***************************************************************************)
Return ==
  /\ Fetch({"OP_RETURN"})
  /\ CloseUpvalues(Frame.stack_offset + 1)
  /\ call_frames' = Front(call_frames)
  /\ IF Len(call_frames) = 1
     THEN stack' = <<>> /\ status' = "ok"
     ELSE /\ stack' = Append(SubSeq(stack, 1, Frame.stack_offset), Peek(0))
          /\ UNCHANGED status
  /\ UNCHANGED <<functions, closures, globals, output>>

(***************************************************************************)
(* call: the callee and its arguments become the bottom of a new frame.    *)
(* (Fault: the frame begins at the first argument.)                        *)
(***************************************************************************)
NewFrameAtArguments(closure, arg_count) ==
  [closure |-> closure, ip |-> 0, stack_offset |-> Size_ - arg_count]

NewFrame(closure, arg_count) ==
  [closure |-> closure, ip |-> 0, stack_offset |-> Size_ - 1 - arg_count]

CallClosure ==
  /\ Fetch({"OP_CALL"})
  /\ IsClosure(Callee)
  /\ call_frames' = Append([call_frames EXCEPT ![Len(call_frames)].ip = @ + 2],
                           NewFrame(Callee.clo, ArgCount))
  /\ UNCHANGED stack
  /\ Quiet

(* A native function takes any number of arguments. *)
CallNative ==
  /\ Fetch({"OP_CALL"})
  /\ IsNative(Callee)
  /\ \E t \in ClockValues : stack' = Append(Dropped(ArgCount + 1), Num(t))
  /\ Proceed(0)
  /\ Quiet

(***************************************************************************)
(* add_or_get_upvalue: variables that are captured already share their     *)
(* upvalue; a new one is inserted in the order of stack indices.  r holds  *)
(* the upvalues, the list of open ones and those of the new closure.       *)
(* (Faults: a new one goes to the end of the list; nothing is shared.)     *)
(***************************************************************************)
PlaceAtEnd(r, stack_index) == Len(r.open_upvalues) + 1

Place(r, stack_index) ==
  LET above == SelectInSeq(r.open_upvalues, LAMBDA u : r.upvalues[u].index > stack_index)
  IN  IF above = 0 THEN Len(r.open_upvalues) + 1 ELSE above

AddUpvalue(r, stack_index) ==
  LET new == Len(r.upvalues) + 1
  IN  [upvalues      |-> Append(r.upvalues, [index |-> stack_index]),
       open_upvalues |-> InsertAt(r.open_upvalues, Place(r, stack_index), new),
       captured      |-> Append(r.captured, new)]

AddOrGetUpvalue(r, stack_index) ==
  LET found == SelectLastInSeq(r.open_upvalues,
                               LAMBDA u : r.upvalues[u].index = stack_index)
  IN  IF found = 0 THEN AddUpvalue(r, stack_index)
      ELSE [r EXCEPT !.captured = Append(@, r.open_upvalues[found])]

Capture(r, i) ==
  IF IsLocal(i) THEN AddOrGetUpvalue(r, Frame.stack_offset + CaptureIndex(i))
  ELSE [r EXCEPT !.captured =
          Append(@, closures[Frame.closure].upvalues[CaptureIndex(i) + 1])]

(* The loop over what the closure captures. *)
CaptureAll ==
  LET r[n \in 0 .. Template.upvalue_count] ==
        IF n = 0
        THEN [upvalues |-> upvalues, open_upvalues |-> open_upvalues, captured |-> <<>>]
        ELSE Capture(r[n - 1], n - 1)
  IN  r[Template.upvalue_count]

MakeClosure ==
  /\ Fetch({"OP_CLOSURE"})
  /\ LET r == CaptureAll
     IN  /\ closures' = Append(closures, [function |-> Constant.fun, upvalues |-> r.captured])
         /\ upvalues' = r.upvalues
         /\ open_upvalues' = r.open_upvalues
  /\ stack' = Pushed(Closure(Len(closures) + 1))
  /\ Proceed(2 * Template.upvalue_count)
  /\ UNCHANGED <<functions, status, globals, output>>

(***************************************************************************)
(* run: the next instruction is executed.  What trace_execution prints in  *)
(* front of it is left out, and with it that the trace, too, looks a line  *)
(* up behind the end of a line table that a loop has left too short: what  *)
(* the properties say of reads holds for those of the instructions.        *)
(***************************************************************************)
Step ==
  \/ Undefined \/ RuntimeError
  \/ Jump \/ PrintTop \/ Push \/ Pop \/ Noop
  \/ SetLocal \/ SetUpvalue \/ SetGlobal \/ DefineGlobal
  \/ Binary \/ Unary
  \/ CloseUpvalue \/ Return \/ CallClosure \/ CallNative \/ MakeClosure

Next == Interpret \/ Step

Spec == Init /\ [][Next]_vars

-----------------------------------------------------------------------------
(* Properties *)

(* What the stack, the global variables and closed upvalues hold. *)
IsValue(v) ==
  \/ v \in [clo : DOMAIN closures]
  \/ v \in [fun : DOMAIN functions]
  \/ DOMAIN v \in {{"nil"}, {"bool"}, {"num"}, {"str"}, {"native"}}

IsUpvalue(u) == u \in [index : Nat] \/ (u \in [value : {u.value}] /\ IsValue(u.value))

CallFrame == [closure : DOMAIN closures, ip : Int, stack_offset : Nat]

(***************************************************************************)
(* Type invariant: what values, frames, closures and the list of open      *)
(* upvalues refer to exists, whatever the code; there are never too many   *)
(* frames, and always one while the program runs.                          *)
(***************************************************************************)
TypeOK ==
  /\ status \in {"ready", "running", "ok", "runtime_error", "undefined"}
  /\ status = "ready" => closures = <<>>
  /\ status = "running" => call_frames # <<>>
  /\ stack \in Seq(Range(stack)) /\ \A v \in Range(stack) : IsValue(v)
  /\ call_frames \in Seq(CallFrame)
  /\ Len(call_frames) <= MAX_CALLSTACK_DEPTH
  /\ closures \in Seq([function : DOMAIN functions, upvalues : Seq(DOMAIN upvalues)])
  /\ upvalues \in Seq(Range(upvalues))
  /\ \A u \in Range(upvalues) : IsUpvalue(u)
  /\ open_upvalues \in Seq({u \in DOMAIN upvalues : IsOpen(upvalues[u])})
  /\ "clock" \in DOMAIN globals
  /\ \A v \in Range(globals) : IsValue(v)

(***************************************************************************)
(* open_upvalues lists the open upvalues, all of them, "ordered by         *)
(* increasing stack index (head is closest to stack bottom, tail to stack  *)
(* top)" (VM.h:90-91): close_upvalues may stop at the first one below the  *)
(* scope, and no variable has two upvalues.                                *)
(***************************************************************************)
OpenUpvaluesOrdered ==
  /\ Range(open_upvalues) = {u \in DOMAIN upvalues : IsOpen(upvalues[u])}
  /\ \A i, j \in DOMAIN open_upvalues :
       i < j => upvalues[open_upvalues[i]].index < upvalues[open_upvalues[j]].index

(* What the machine needs of its code. *)
WellFormed == AllVerified(functions)

(***************************************************************************)
(* Well-formed code is safe: no instruction of it reads outside of a       *)
(* vector, pops an empty stack or fails an assertion.  (The lines that a   *)
(* runtime error's message and the trace look up are another matter.)      *)
(***************************************************************************)
WellFormedCodeIsSafe == status = "running" /\ ~Defined => ~WellFormed

(***************************************************************************)
(* CallFrame keeps a reference to its closure, which only the bottom slot  *)
(* of the frame keeps alive: in well-formed code it stays there.  Frames   *)
(* lie above each other.                                                   *)
(***************************************************************************)
FrameHoldsItsClosure(i) ==
  /\ call_frames[i].stack_offset < Size_
  /\ Get(call_frames[i].stack_offset) = Closure(call_frames[i].closure)
  /\ \A j \in 1 .. i - 1 : call_frames[j].stack_offset < call_frames[i].stack_offset

FramesHoldTheirClosures ==
  status = "running" =>
    (\A i \in DOMAIN call_frames : FrameHoldsItsClosure(i)) \/ ~WellFormed

(***************************************************************************)
(* RuntimeUpvalues, open ones that stand for a slot of the stack and       *)
(* closed ones that hold a value, implement captured variables when the    *)
(* code is well formed.                                                    *)
(***************************************************************************)
Lexical == INSTANCE Variables WITH
  variable  <- [u \in DOMAIN upvalues |-> ValueOf(u)],
  in_scope  <- {u \in DOMAIN upvalues : IsOpen(upvalues[u])},
  assigning <- status = "running" /\ Opcode \in {"OP_SET_LOCAL", "OP_SET_UPVALUE"}

UpvaluesAreVariables == Lexical!Init /\ [][WellFormed => Lexical!Next]_(Lexical!vars)

=============================================================================
