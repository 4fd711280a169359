------------------------------- MODULE GCHeap -------------------------------
(***************************************************************************)
(* gc_heap (include/cpplox/Bytecode/GC.h, src/Bytecode/GC.cpp): the        *)
(* mark-and-sweep collector under the compiler and the virtual machine.    *)
(*                                                                         *)
(* make() runs a collection before it constructs the new object.  A        *)
(* collection invokes the root marking callbacks one after the other,      *)
(* drains the worklist `reachable', then sweeps.  Each of these steps is an *)
(* action, so that the invariants the phases rely on can be stated.  The   *)
(* worklist is a set: the order in which its cells are traced is left open. *)
(*                                                                         *)
(* The clients are abstract.  They hold gc_ptrs in C++ locals (held) and   *)
(* in the structures their callback marks (roots).  `Rooted' says whether  *)
(* they keep to the rule that collections rely on: whoever calls make()    *)
(* has every pointer it will use again reachable from a registered root.   *)
(***************************************************************************)
EXTENDS PointerGraph, Naturals, Sequences, FiniteSets

CONSTANTS
  Owner,      \* the compilers and virtual machines that register a callback
  Threshold,  \* make() collects when there are more cells than this (GC.h:140)
  Rooted      \* do clients root every pointer they keep across make()?

ASSUME GCAssumption ==
  /\ IsFiniteSet(Cell)
  /\ Threshold \in Nat
  /\ Rooted \in BOOLEAN

VARIABLES
  cells,       \* the cells the heap owns
  refs,        \* refs[c]: what the object in c points to (trace_references)
  root_marking_callbacks,  \* the owners whose callback is registered, in order
  roots,       \* roots[o]: what o's callback marks
  held,        \* what gc_ptrs in C++ locals point to
  phase,       \* where make() and collect() are
  next,        \* collect(): the index of the callback to invoke next
  marked,      \* the cells with is_marked set
  reachable,   \* the worklist: marked, not traced yet
  args         \* make(): the pointers among the constructor's arguments

mutator   == <<root_marking_callbacks, roots, held>>
collector == <<next, marked, reachable>>
vars      == <<cells, refs, mutator, phase, collector, args>>

Phase == {"mutator", "roots", "trace", "construct"}

Registered == {root_marking_callbacks[i] : i \in DOMAIN root_marking_callbacks}
AllRoots   == UNION {roots[o] : o \in Owner}

(* Where collect() starts in the vector of callbacks (fault: one too early). *)
FirstCallbackOffByOne == 0
FirstCallback == 1

Init ==
  /\ cells = {}
  /\ refs = [c \in Cell |-> {}]
  /\ root_marking_callbacks = <<>>
  /\ roots = [o \in Owner |-> {}]
  /\ held = {}
  /\ phase = "mutator"
  /\ next = FirstCallback
  /\ marked = {}
  /\ reachable = {}
  /\ args = {}

-----------------------------------------------------------------------------
(* The clients, between two calls of make(). *)

RegisterCallback(o) ==
  /\ phase = "mutator"
  /\ o \notin Registered
  /\ root_marking_callbacks' = Append(root_marking_callbacks, o)
  /\ UNCHANGED <<cells, refs, roots, held, phase, collector, args>>

(***************************************************************************)
(* Deregistering removes whichever callback was registered last; its owner *)
(* is about to be destroyed and its structures with it.                    *)
(***************************************************************************)
DeregisterCallback ==
  /\ phase = "mutator"
  /\ root_marking_callbacks # <<>>
  /\ LET o == root_marking_callbacks[Len(root_marking_callbacks)]
     IN  roots' = [roots EXCEPT ![o] = {}]
  /\ root_marking_callbacks' =
       SubSeq(root_marking_callbacks, 1, Len(root_marking_callbacks) - 1)
  /\ UNCHANGED <<cells, refs, held, phase, collector, args>>

(* A structure of a registered owner takes or loses a pointer. *)
AddRoot(o, c) ==
  /\ phase = "mutator"
  /\ o \in Registered
  /\ c \in held
  /\ roots' = [roots EXCEPT ![o] = @ \cup {c}]
  /\ UNCHANGED <<cells, refs, root_marking_callbacks, held, phase, collector, args>>

DropRoot(o, c) ==
  /\ phase = "mutator"
  /\ c \in roots[o]
  /\ roots' = [roots EXCEPT ![o] = @ \ {c}]
  /\ UNCHANGED <<cells, refs, root_marking_callbacks, held, phase, collector, args>>

(* A C++ local takes a pointer from a root or from an object, or goes away. *)
Load(c) ==
  /\ phase = "mutator"
  /\ c \in AllRoots \cup UNION {refs[d] : d \in held}
  /\ held' = held \cup {c}
  /\ UNCHANGED <<cells, refs, root_marking_callbacks, roots, phase, collector, args>>

Release(c) ==
  /\ phase = "mutator"
  /\ c \in held
  /\ held' = held \ {c}
  /\ UNCHANGED <<cells, refs, root_marking_callbacks, roots, phase, collector, args>>

(* An object takes or loses a pointer. *)
SetRefs(c, S) ==
  /\ phase = "mutator"
  /\ c \in held
  /\ refs' = [refs EXCEPT ![c] = S]
  /\ UNCHANGED <<cells, mutator, phase, collector, args>>

Link(c, d)   == d \in held /\ SetRefs(c, refs[c] \cup {d})
Unlink(c, d) == d \in refs[c] /\ SetRefs(c, refs[c] \ {d})

-----------------------------------------------------------------------------
(* make() and collect() *)

(***************************************************************************)
(* make() is called with pointers the caller has at hand.  The free cell   *)
(* is the bound on memory: the model has Cell many.                        *)
(***************************************************************************)
Make(as) ==
  /\ phase = "mutator"
  /\ as \subseteq held
  /\ Cardinality(cells) < Cardinality(Cell)
  /\ Rooted => held \subseteq Reach(refs, AllRoots)
  /\ args' = as
  /\ phase' = IF Cardinality(cells) > Threshold THEN "roots" ELSE "construct"
  /\ UNCHANGED <<cells, refs, mutator, collector>>

(***************************************************************************)
(* mark_internal for every cell of S: one that is already marked is        *)
(* skipped, any other is marked and queued.  (Fault: it is not queued.)    *)
(***************************************************************************)
MarkWithoutQueueing(S) ==
  /\ marked' = marked \cup S
  /\ UNCHANGED reachable

Mark(S) ==
  /\ marked' = marked \cup S
  /\ reachable' = reachable \cup (S \ marked)

(***************************************************************************)
(* The cell at the back of the worklist is popped and then traced: the     *)
(* marks its trace_references makes are queued after the pop.  (Faults:    *)
(* the object reports no pointers; marked cells are queued once more.)     *)
(***************************************************************************)
TraceNothing(c) ==
  /\ UNCHANGED marked
  /\ reachable' = reachable \ {c}

TraceMarkedAgain(c) ==
  /\ marked' = marked \cup refs[c]
  /\ reachable' = (reachable \ {c}) \cup refs[c]

TraceCell(c) ==
  /\ marked' = marked \cup refs[c]
  /\ reachable' = (reachable \ {c}) \cup (refs[c] \ marked)

InvokeCallback ==
  /\ phase = "roots"
  /\ next <= Len(root_marking_callbacks)
  /\ Mark(roots[root_marking_callbacks[next]])
  /\ next' = next + 1
  /\ UNCHANGED <<cells, refs, mutator, phase, args>>

StartTrace ==
  /\ phase = "roots"
  /\ next > Len(root_marking_callbacks)
  /\ phase' = "trace"
  /\ UNCHANGED <<cells, refs, mutator, collector, args>>

Trace ==
  /\ phase = "trace"
  /\ \E c \in reachable : TraceCell(c)
  /\ UNCHANGED <<cells, refs, mutator, phase, next, args>>

(***************************************************************************)
(* The marked cells are kept and their marks reset for the next collection, *)
(* the others are destroyed, and with them the pointers they held.         *)
(* (Faults: nothing is destroyed; the marks stay set.)                     *)
(***************************************************************************)
AllSurvive == cells
Survivors  == cells \cap marked

MarksKept  == marked
MarksAfter == marked \ Survivors

Sweep ==
  /\ phase = "trace"
  /\ reachable = {}
  /\ cells' = Survivors
  /\ refs' = [c \in Cell |-> IF c \in Survivors THEN refs[c] ELSE {}]
  /\ marked' = MarksAfter
  /\ next' = FirstCallback
  /\ phase' = "construct"
  /\ UNCHANGED <<mutator, reachable, args>>

(* The object is constructed in a fresh cell and the caller gets a gc_ptr. *)
Construct(c) ==
  /\ phase = "construct"
  /\ c \in Cell \ cells
  /\ cells' = cells \cup {c}
  /\ refs' = [refs EXCEPT ![c] = args]
  /\ held' = held \cup {c}
  /\ args' = {}
  /\ phase' = "mutator"
  /\ UNCHANGED <<root_marking_callbacks, roots, collector>>

Client ==
  \/ \E o \in Owner : RegisterCallback(o)
  \/ DeregisterCallback
  \/ \E o \in Owner, c \in Cell : AddRoot(o, c) \/ DropRoot(o, c)
  \/ \E c \in Cell : Load(c) \/ Release(c)
  \/ \E c, d \in Cell : Link(c, d) \/ Unlink(c, d)
  \/ \E as \in SUBSET held : Make(as)

Collector ==
  \/ InvokeCallback
  \/ StartTrace
  \/ Trace
  \/ Sweep
  \/ \E c \in Cell : Construct(c)

Next == Client \/ Collector

Spec == Init /\ [][Next]_vars

(***************************************************************************)
(* make() is a plain call: once it has begun it runs to its end.           *)
(***************************************************************************)
FairSpec == Spec /\ WF_vars(Collector)

-----------------------------------------------------------------------------
(* Properties *)

(* Type invariant. *)
TypeOK ==
  /\ cells \subseteq Cell
  /\ refs \in [Cell -> SUBSET Cell]
  /\ root_marking_callbacks \in Seq(Owner)
  /\ roots \in [Owner -> SUBSET Cell]
  /\ held \subseteq Cell
  /\ phase \in Phase
  /\ next \in Nat \ {0}
  /\ marked \subseteq Cell
  /\ reachable \subseteq Cell
  /\ args \subseteq Cell

(***************************************************************************)
(* No gc_ptr dangles: whatever a C++ local, a root, an argument of the     *)
(* make() under way or a live object points to is allocated.  This is the  *)
(* "correctness by construction" GC.h:36-37 wants of gc_ptr.               *)
(***************************************************************************)
NoDangling ==
  /\ held \cup AllRoots \cup args \subseteq cells
  /\ Closed(refs, cells)

(***************************************************************************)
(* "Upon 1st call to .collect() no gc_cell is yet marked" (GC.cpp:15), and *)
(* upon every later one: outside of a collection no mark is left and the   *)
(* worklist is empty.                                                      *)
(***************************************************************************)
MarksClear ==
  phase \in {"mutator", "construct"} => marked = {} /\ reachable = {}

(***************************************************************************)
(* The marking invariant: a cell that is marked and no longer queued has   *)
(* all its pointers marked, every callback that has run has its roots      *)
(* marked, and nothing but what the roots reach is ever marked.            *)
(***************************************************************************)
MarkingSound ==
  phase \in {"roots", "trace"} =>
    /\ reachable \subseteq marked
    /\ \A c \in marked \ reachable : refs[c] \subseteq marked
    /\ \A i \in DOMAIN root_marking_callbacks :
          i < next => roots[root_marking_callbacks[i]] \subseteq marked
    /\ phase = "trace" => next > Len(root_marking_callbacks)
    /\ marked \subseteq Reach(refs, AllRoots)

(* The heap's promise: a collection frees all of the garbage, and only that. *)
Activity == IF phase \in {"roots", "trace"} THEN "collecting" ELSE "idle"
H == INSTANCE Heap WITH activity <- Activity
HeapPromise == H!Spec

(* Every call of make() returns, however the object graph is shaped. *)
MakeReturns == (phase # "mutator") ~> (phase = "mutator")

=============================================================================
