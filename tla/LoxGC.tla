------------------------------- MODULE LoxGC -------------------------------
(***************************************************************************)
(* What a collection finds while a program runs: the root marking callback *)
(* of the virtual machine (VM::register_gc_callbacks) and the              *)
(* trace_references functions of its objects (Bytecode/LoxObject.cpp), as  *)
(* opposed to the gc_ptrs the machine and those objects hold.  A cell is   *)
(* written as the value that points to it; RuntimeUpvalues have cells as   *)
(* well, which no value points to.                                         *)
(***************************************************************************)
EXTENDS VM, FiniteSetsExt

UpvalueCell(u) == [upvalue |-> u]
UpvalueCells   == {UpvalueCell(u) : u \in DOMAIN upvalues}

(* The gc_ptrs among the given values (GCValueMarkingVisitor). *)
Cells(values) == {v \in values : DOMAIN v \subseteq {"str", "fun", "clo", "native"}}

-----------------------------------------------------------------------------
(* What there is to find. *)

(* Members of a Function, and values an upvalue or a closure's upvalues have. *)
FunctionCells(f)   == {Str(functions[f].name)} \cup Cells(ToSet(functions[f].constants))
ValueCells(us)     == Cells({ValueOf(u) : u \in us})
Upvalues(c)        == ToSet(closures[c].upvalues)

(* All cells that a gc_ptr may lead to: those of objects, and what has values. *)
AnyCell ==
  {Fun(f) : f \in DOMAIN functions} \cup {Closure(c) : c \in DOMAIN closures}
    \cup UpvalueCells \cup {Str(name) : name \in DOMAIN globals}
    \cup (UNION {FunctionCells(f) : f \in DOMAIN functions})
    \cup Cells(ToSet(stack) \cup {globals[name] : name \in DOMAIN globals})
    \cup ValueCells({u \in DOMAIN upvalues : ~IsOpen(upvalues[u])})

(* Where gc_ptrs lead from the given cells, next[c] being those in cell c. *)
Reached(from, next) ==
  LET Grown[cells \in SUBSET DOMAIN next] ==
        LET more == cells \cup UNION {next[c] : c \in cells}
        IN  IF more = cells THEN cells ELSE Grown[more]
  IN  Grown[from]

(* The gc_ptrs that the object in a cell holds. *)
Contents == [cell \in AnyCell |->
  CASE DOMAIN cell = {"fun"}     -> FunctionCells(cell.fun)
    [] DOMAIN cell = {"clo"}     -> {Fun(closures[cell.clo].function)}
                                      \cup {UpvalueCell(u) : u \in Upvalues(cell.clo)}
    [] DOMAIN cell = {"upvalue"} -> ValueCells({cell.upvalue})
    [] OTHER                     -> {}]

(***************************************************************************)
(* What the machine holds gc_ptrs and references to; before it runs, that  *)
(* is the function that interpret() is given.                              *)
(***************************************************************************)
Held ==
  Cells(ToSet(stack)) \cup {Str(name) : name \in DOMAIN globals}
    \cup Cells({globals[name] : name \in DOMAIN globals})
    \cup {Closure(call_frames[i].closure) : i \in DOMAIN call_frames}
    \cup {UpvalueCell(u) : u \in ToSet(open_upvalues)}
    \cup (IF status = "ready" THEN {Fun(1)} ELSE {})

Alive == Reached(Held, Contents)

-----------------------------------------------------------------------------
(* What is found. *)

(***************************************************************************)
(* trace_references: a Closure's goes through to what its Function and     *)
(* RuntimeUpvalues hold, and marks neither cell.                           *)
(***************************************************************************)
Traced == [cell \in AnyCell |->
  CASE DOMAIN cell = {"fun"} -> FunctionCells(cell.fun)
    [] DOMAIN cell = {"clo"} -> FunctionCells(closures[cell.clo].function)
                                  \cup ValueCells(Upvalues(cell.clo))
    [] OTHER                 -> {}]

(* The callback on a call frame (fault: it takes the stack to be enough). *)
MarkedUpvaluesOfFrame(frame) == ValueCells(Upvalues(frame.closure))

MarkedOfFrame(frame) ==
  {Fun(closures[frame.closure].function)} \cup ValueCells(Upvalues(frame.closure))

Roots ==
  Cells(ToSet(stack)) \cup {Str(name) : name \in DOMAIN globals}
    \cup Cells({globals[name] : name \in DOMAIN globals})
    \cup (UNION {MarkedOfFrame(call_frames[i]) : i \in DOMAIN call_frames})
    \cup ValueCells(ToSet(open_upvalues))

Marked == Reached(Roots, Traced)

(* make() collects when there are more cells than that. *)
GC_THRESHOLD == 4

(* A cell is made next, and the cells that are in use alone are more. *)
Collects ==
  /\ \/ status = "ready"
     \/ status = "running" /\ Defined /\ ~Erroneous /\ Opcode = "OP_CLOSURE"
  /\ Cardinality(Alive) > GC_THRESHOLD

-----------------------------------------------------------------------------
(* Properties *)

AllReadable == \A u \in DOMAIN upvalues : Readable(u)

(***************************************************************************)
(* While well-formed code runs, the callback and the trace functions find  *)
(* everything the machine can still get to except for the RuntimeUpvalue   *)
(* cells: every string, function, closure and native function, wherever a  *)
(* collection may come.  ("In what cases anything that the closure owns is *)
(* not reachable via stack?", VM.cpp:313: functions through the frames'    *)
(* functions only.)                                                        *)
(***************************************************************************)
ValuesSurvive ==
  status = "running" /\ AllReadable /\ ~(Alive \subseteq Marked \cup UpvalueCells) =>
    ~WellFormed

=============================================================================
