---------------------------- MODULE GCHeapProofs ----------------------------
(***************************************************************************)
(* Proofs about gc_heap for any set of cells, any owners, any object graph *)
(* and any threshold: the marking invariant, that no gc_ptr dangles when   *)
(* clients root what they keep, and that collections keep the promise of   *)
(* module Heap.                                                            *)
(***************************************************************************)
EXTENDS GCHeap, TLAPS

-----------------------------------------------------------------------------
(* Reach is the least closed set above its roots. *)

(* Roots are reached. *)
LEMMA ReachContains ==
  ASSUME NEW rs, NEW R \in SUBSET Cell
  PROVE  R \subseteq Reach(rs, R)
BY DEF Reach

(* Pointers out of reached cells lead to reached cells. *)
LEMMA ReachClosed ==
  ASSUME NEW rs \in [Cell -> SUBSET Cell], NEW R \in SUBSET Cell
  PROVE  Closed(rs, Reach(rs, R))
<1> SUFFICES ASSUME NEW c \in Reach(rs, R), NEW d \in rs[c]
             PROVE  d \in Reach(rs, R)
  BY DEF Closed
<1>1. c \in Cell /\ d \in Cell
  BY DEF Reach
<1>2. ASSUME NEW S \in SUBSET Cell, R \subseteq S, Closed(rs, S)
      PROVE  d \in S
  <2>1. c \in S
    BY <1>2 DEF Reach
  <2> QED
    BY <2>1, <1>2 DEF Closed
<1> QED
  BY <1>1, <1>2 DEF Reach

(* A closed set that contains the roots contains all they reach. *)
LEMMA ReachLeast ==
  ASSUME NEW rs, NEW R, NEW S \in SUBSET Cell, R \subseteq S, Closed(rs, S)
  PROVE  Reach(rs, R) \subseteq S
BY DEF Reach

(* Adding roots that are reached already reaches nothing new. *)
LEMMA ReachAbsorbs ==
  ASSUME NEW rs \in [Cell -> SUBSET Cell], NEW R \in SUBSET Cell,
         NEW T \in SUBSET Cell, T \subseteq Reach(rs, R)
  PROVE  Reach(rs, R \cup T) = Reach(rs, R)
<1>0. Reach(rs, R) \in SUBSET Cell /\ Reach(rs, R \cup T) \in SUBSET Cell
  BY DEF Reach
<1>1. Reach(rs, R \cup T) \subseteq Reach(rs, R)
  <2>1. R \cup T \subseteq Reach(rs, R)
    BY ReachContains
  <2> QED
    BY <1>0, <2>1, ReachClosed, ReachLeast
<1>2. Reach(rs, R) \subseteq Reach(rs, R \cup T)
  <2>1. R \subseteq Reach(rs, R \cup T)
    BY ReachContains
  <2>2. Closed(rs, Reach(rs, R \cup T))
    BY ReachClosed
  <2> QED
    BY <1>0, <2>1, <2>2, ReachLeast
<1> QED
  BY <1>1, <1>2

-----------------------------------------------------------------------------
(* Types *)

(* gc_heap's fields and its clients' pointers always have their types. *)
THEOREM TypeCorrect == Spec => []TypeOK
<1>1. Init => TypeOK
  BY DEF Init, FirstCallback, TypeOK, Phase
<1>2. TypeOK /\ [Next]_vars => TypeOK'
  <2> SUFFICES ASSUME TypeOK, [Next]_vars PROVE TypeOK'
    OBVIOUS
  <2> USE DEF TypeOK, Phase, collector, mutator
  <2>1. ASSUME NEW o \in Owner, RegisterCallback(o) PROVE TypeOK'
    BY <2>1 DEF RegisterCallback
  <2>2. CASE DeregisterCallback
    <3>1. root_marking_callbacks' \in Seq(Owner)
      BY <2>2 DEF DeregisterCallback
    <3>2. root_marking_callbacks[Len(root_marking_callbacks)] \in Owner
      BY <2>2 DEF DeregisterCallback
    <3> QED
      BY <2>2, <3>1, <3>2 DEF DeregisterCallback
  <2>3. ASSUME NEW o \in Owner, NEW c \in Cell, AddRoot(o, c) \/ DropRoot(o, c)
        PROVE  TypeOK'
    BY <2>3 DEF AddRoot, DropRoot
  <2>4. ASSUME NEW c \in Cell, Load(c) \/ Release(c) PROVE TypeOK'
    BY <2>4 DEF Load, Release
  <2>5. ASSUME NEW c \in Cell, NEW d \in Cell, Link(c, d) \/ Unlink(c, d)
        PROVE  TypeOK'
    BY <2>5 DEF Link, Unlink, SetRefs
  <2>6. ASSUME NEW as \in SUBSET held, Make(as) PROVE TypeOK'
    BY <2>6 DEF Make
  <2>7. CASE InvokeCallback
    <3>1. roots[root_marking_callbacks[next]] \subseteq Cell
      BY <2>7 DEF InvokeCallback
    <3> QED
      BY <2>7, <3>1 DEF InvokeCallback, Mark
  <2>8. CASE StartTrace
    BY <2>8 DEF StartTrace
  <2>9. CASE Trace
    BY <2>9 DEF Trace, TraceCell
  <2>10. CASE Sweep
    BY <2>10 DEF Sweep, FirstCallback, Survivors, MarksAfter
  <2>11. ASSUME NEW c \in Cell, Construct(c) PROVE TypeOK'
    BY <2>11 DEF Construct
  <2>12. CASE UNCHANGED vars
    BY <2>12 DEF vars
  <2> QED
    BY <2>1, <2>2, <2>3, <2>4, <2>5, <2>6, <2>7, <2>8, <2>9, <2>10, <2>11, <2>12
       DEF Next, Client, Collector
<1> QED
  BY <1>1, <1>2, PTL DEF Spec

-----------------------------------------------------------------------------
(* The inductive invariant *)

(* Only registered owners hold roots. *)
RootsRegistered == \A o \in Owner : roots[o] # {} => o \in Registered

(***************************************************************************)
(* While a collection runs, the caller of make() still has its pointers,   *)
(* all of them rooted.                                                     *)
(***************************************************************************)
CallerRooted ==
  phase \in {"roots", "trace"} => held \subseteq Reach(refs, AllRoots)

(* make()'s arguments are pointers the caller has; between calls are none. *)
ArgsHeld == args \subseteq held /\ (phase = "mutator" => args = {})

(* Each collection starts with the first callback. *)
StartsAtFirst == phase \in {"mutator", "construct"} => next = 1

IInv ==
  /\ TypeOK
  /\ NoDangling
  /\ MarksClear
  /\ MarkingSound
  /\ RootsRegistered
  /\ CallerRooted
  /\ ArgsHeld
  /\ StartsAtFirst

(* Nothing that is not allocated can be reached. *)
LEMMA ReachAllocated ==
  ASSUME TypeOK, NoDangling
  PROVE  Reach(refs, AllRoots) \subseteq cells
BY ReachLeast DEF TypeOK, NoDangling, AllRoots

(***************************************************************************)
(* When the worklist has drained, the marked cells are those that can be   *)
(* reached.                                                                *)
(***************************************************************************)
LEMMA DrainedMeansReached ==
  ASSUME IInv, phase = "trace", reachable = {}
  PROVE  marked = Reach(refs, AllRoots)
<1>1. marked \subseteq Reach(refs, AllRoots)
  BY DEF IInv, MarkingSound
<1>2. AllRoots \subseteq marked
  <2> SUFFICES ASSUME NEW o \in Owner, NEW c \in roots[o] PROVE c \in marked
    BY DEF AllRoots
  <2>1. o \in Registered
    BY DEF IInv, RootsRegistered
  <2>2. PICK i \in DOMAIN root_marking_callbacks : root_marking_callbacks[i] = o
    BY <2>1 DEF Registered
  <2>3. i < next
    BY DEF IInv, TypeOK, MarkingSound
  <2> QED
    BY <2>2, <2>3 DEF IInv, MarkingSound
<1>3. Closed(refs, marked)
  BY DEF IInv, MarkingSound, Closed
<1>4. Reach(refs, AllRoots) \subseteq marked
  BY <1>2, <1>3, ReachLeast DEF IInv, TypeOK
<1> QED
  BY <1>1, <1>4

(* A collection keeps what can be reached: the marked cells are allocated. *)
LEMMA SurvivorsReached ==
  ASSUME IInv, phase = "trace", reachable = {}
  PROVE  Survivors = Reach(refs, AllRoots) /\ MarksAfter = {}
<1>1. marked = Reach(refs, AllRoots)
  BY DrainedMeansReached
<1>2. marked \subseteq cells
  BY <1>1, ReachAllocated DEF IInv
<1> QED
  BY <1>1, <1>2 DEF Survivors, MarksAfter

(* A fresh heap, without cells and callbacks, satisfies the invariant. *)
LEMMA IInvInit == Init => IInv
BY DEF Init, FirstCallback, IInv, TypeOK, Phase, NoDangling, Closed, AllRoots, MarksClear,
       MarkingSound, RootsRegistered, CallerRooted, ArgsHeld, StartsAtFirst

(***************************************************************************)
(* Between two calls of make(), clients only copy and drop pointers that   *)
(* are good.                                                               *)
(***************************************************************************)
LEMMA ClientMoves ==
  ASSUME IInv, TypeOK', phase = "mutator", phase' = "mutator",
         UNCHANGED <<cells, next, marked, reachable, args>>,
         RootsRegistered', AllRoots' \subseteq AllRoots \cup held,
         held' \subseteq cells, Closed(refs', cells)
  PROVE  IInv'
<1>1. NoDangling'
  BY DEF IInv, NoDangling, Closed
<1> QED
  BY <1>1 DEF IInv, MarksClear, MarkingSound, CallerRooted, ArgsHeld, StartsAtFirst

(* No step of a client breaks the invariant, the call of make() included. *)
LEMMA IInvClient ==
  ASSUME IInv, Rooted, Client, TypeOK'
  PROVE  IInv'
<1> USE DEF collector, mutator
<1>t. TypeOK /\ NoDangling /\ RootsRegistered
  BY DEF IInv
<1>1. ASSUME NEW o \in Owner, RegisterCallback(o) PROVE IInv'
  <2>1. Registered' = Registered \cup {o}
    BY <1>t, <1>1 DEF RegisterCallback, Registered, TypeOK
  <2>2. RootsRegistered'
    BY <1>t, <1>1, <2>1 DEF RegisterCallback, RootsRegistered
  <2>3. AllRoots' = AllRoots
    BY <1>1 DEF RegisterCallback, AllRoots
  <2> QED
    BY <1>t, <1>1, <2>2, <2>3, ClientMoves DEF RegisterCallback, NoDangling, Closed
<1>2. CASE DeregisterCallback
  <2> DEFINE n == Len(root_marking_callbacks)
  <2>1. n \in Nat \ {0} /\ root_marking_callbacks[n] \in Owner
    BY <1>t, <1>2 DEF DeregisterCallback, TypeOK
  <2>2. /\ roots' = [roots EXCEPT ![root_marking_callbacks[n]] = {}]
        /\ root_marking_callbacks' = SubSeq(root_marking_callbacks, 1, n - 1)
    BY <1>2 DEF DeregisterCallback
  <2>3. ASSUME NEW o \in Registered, o # root_marking_callbacks[n]
        PROVE  o \in Registered'
    <3>1. PICK i \in 1 .. n : root_marking_callbacks[i] = o
      BY <1>t DEF Registered, TypeOK
    <3>2. i \in 1 .. n - 1
      BY <2>1, <2>3, <3>1
    <3>3. i \in DOMAIN root_marking_callbacks' /\ root_marking_callbacks'[i] = o
      <4>1. DOMAIN root_marking_callbacks' = 1 .. n - 1
        BY <1>t, <2>1, <2>2 DEF TypeOK
      <4>2. root_marking_callbacks'[i] = root_marking_callbacks[i]
        BY <1>t, <2>1, <2>2, <3>2 DEF TypeOK
      <4> QED
        BY <3>1, <3>2, <4>1, <4>2
    <3> QED
      BY <3>3 DEF Registered
  <2>4. RootsRegistered'
    BY <1>t, <2>1, <2>2, <2>3 DEF RootsRegistered, TypeOK
  <2>5. AllRoots' \subseteq AllRoots
    BY <1>t, <2>1, <2>2 DEF AllRoots, TypeOK
  <2> QED
    BY <1>t, <1>2, <2>4, <2>5, ClientMoves DEF DeregisterCallback, NoDangling, Closed
<1>3. ASSUME NEW o \in Owner, NEW c \in Cell, AddRoot(o, c) \/ DropRoot(o, c)
      PROVE  IInv'
  <2>1. AllRoots' \subseteq AllRoots \cup held
    BY <1>t, <1>3 DEF AddRoot, DropRoot, AllRoots, TypeOK
  <2>2. Registered' = Registered
    BY <1>3 DEF AddRoot, DropRoot, Registered
  <2>3. RootsRegistered'
    BY <1>t, <1>3, <2>2 DEF AddRoot, DropRoot, RootsRegistered, TypeOK
  <2> QED
    BY <1>t, <1>3, <2>1, <2>3, ClientMoves DEF AddRoot, DropRoot, NoDangling, Closed
<1>4. ASSUME NEW c \in Cell, Load(c) \/ Release(c) PROVE IInv'
  <2>1. held' \subseteq cells
    BY <1>t, <1>4 DEF Load, Release, NoDangling, Closed
  <2>2. RootsRegistered' /\ AllRoots' = AllRoots
    BY <1>t, <1>4 DEF Load, Release, RootsRegistered, Registered, AllRoots
  <2> QED
    BY <1>t, <1>4, <2>1, <2>2, ClientMoves DEF Load, Release, NoDangling, Closed
<1>5. ASSUME NEW c \in Cell, NEW d \in Cell, Link(c, d) \/ Unlink(c, d)
      PROVE  IInv'
  <2>1. Closed(refs', cells)
    BY <1>t, <1>5 DEF Link, Unlink, SetRefs, NoDangling, Closed, TypeOK
  <2>2. RootsRegistered' /\ AllRoots' = AllRoots
    BY <1>t, <1>5 DEF Link, Unlink, SetRefs, RootsRegistered, Registered, AllRoots
  <2> QED
    BY <1>t, <1>5, <2>1, <2>2, ClientMoves
       DEF Link, Unlink, SetRefs, NoDangling, IInv
<1>6. ASSUME NEW as \in SUBSET held, Make(as) PROVE IInv'
  <2>1. marked = {} /\ reachable = {} /\ next = 1
    BY <1>6 DEF IInv, MarksClear, StartsAtFirst, Make
  <2>2. NoDangling' /\ RootsRegistered' /\ AllRoots' = AllRoots
    BY <1>t, <1>6 DEF Make, NoDangling, RootsRegistered, Registered, AllRoots, Closed
  <2>3. MarksClear' /\ MarkingSound'
    <3>1. \A i \in DOMAIN root_marking_callbacks : ~(i < next)
      BY <1>t, <2>1 DEF TypeOK
    <3> QED
      BY <2>1, <3>1, <1>6 DEF Make, MarksClear, MarkingSound
  <2>4. CallerRooted' /\ ArgsHeld' /\ StartsAtFirst'
    BY <1>6, <2>1, <2>2 DEF Make, CallerRooted, ArgsHeld, StartsAtFirst
  <2> QED
    BY <2>2, <2>3, <2>4 DEF IInv
<1> QED
  BY <1>1, <1>2, <1>3, <1>4, <1>5, <1>6 DEF Client

(***************************************************************************)
(* The steps of a collection, and the construction that ends make().       *)
(***************************************************************************)
LEMMA IInvCollector ==
  ASSUME IInv, Collector, TypeOK'
  PROVE  IInv'
<1> USE DEF collector, mutator
<1>t. TypeOK /\ NoDangling /\ RootsRegistered
  BY DEF IInv
<1>1. CASE InvokeCallback
  <2> DEFINE o == root_marking_callbacks[next]
  <2>1. next \in DOMAIN root_marking_callbacks /\ o \in Owner
    BY <1>t, <1>1 DEF InvokeCallback, TypeOK
  <2>2. roots[o] \subseteq AllRoots /\ AllRoots \in SUBSET Cell
    BY <1>t, <2>1 DEF AllRoots, TypeOK
  <2>3. roots[o] \subseteq Reach(refs, AllRoots)
    BY <2>2, ReachContains
  <2>4. MarkingSound'
    <3>1. UNCHANGED <<refs, root_marking_callbacks, roots, phase, AllRoots>> /\ next' = next + 1
      BY <1>1 DEF InvokeCallback, AllRoots
    <3>2. /\ marked' = marked \cup roots[o]
          /\ reachable' = reachable \cup (roots[o] \ marked)
          /\ phase = "roots"
      BY <1>1 DEF InvokeCallback, Mark
    <3>3. MarkingSound /\ next \in Nat
      BY <1>t DEF IInv, TypeOK
    <3>4. \A i \in DOMAIN root_marking_callbacks : i < next + 1 => i < next \/ i = next
      BY <1>t, <3>3 DEF TypeOK
    <3> QED
      BY <2>3, <3>1, <3>2, <3>3, <3>4 DEF MarkingSound
  <2> QED
    BY <1>t, <1>1, <2>4
       DEF InvokeCallback, IInv, NoDangling, Closed, AllRoots, MarksClear,
           RootsRegistered, Registered, CallerRooted, ArgsHeld, StartsAtFirst
<1>2. CASE StartTrace
  BY <1>t, <1>2
     DEF StartTrace, IInv, NoDangling, Closed, AllRoots, MarksClear, MarkingSound,
         RootsRegistered, Registered, CallerRooted, ArgsHeld, StartsAtFirst
<1>3. CASE Trace
  <2>1. PICK c \in reachable : TraceCell(c)
    BY <1>3 DEF Trace
  <2>2. refs[c] \subseteq Reach(refs, AllRoots)
    <3>1. c \in Reach(refs, AllRoots)
      BY <1>3 DEF Trace, IInv, MarkingSound
    <3>2. AllRoots \in SUBSET Cell
      BY <1>t DEF AllRoots, TypeOK
    <3> QED
      BY <1>t, <3>1, <3>2, ReachClosed DEF Closed, TypeOK
  <2>3. MarkingSound'
    <3>1. UNCHANGED <<refs, root_marking_callbacks, roots, phase, next, AllRoots>>
      BY <1>3 DEF Trace, AllRoots
    <3>2. /\ marked' = marked \cup refs[c]
          /\ reachable' = (reachable \ {c}) \cup (refs[c] \ marked)
          /\ phase = "trace"
      BY <1>3, <2>1 DEF Trace, TraceCell
    <3>3. MarkingSound
      BY DEF IInv
    <3> QED
      BY <2>2, <3>1, <3>2, <3>3 DEF MarkingSound
  <2> QED
    BY <1>t, <1>3, <2>3
       DEF Trace, IInv, NoDangling, Closed, AllRoots, MarksClear,
           RootsRegistered, Registered, CallerRooted, ArgsHeld, StartsAtFirst
<1>4. CASE Sweep
  <2>1. Survivors = Reach(refs, AllRoots) /\ MarksAfter = {}
    BY <1>4, SurvivorsReached DEF Sweep
  <2>2. AllRoots \in SUBSET Cell /\ AllRoots' = AllRoots
    BY <1>t, <1>4 DEF Sweep, AllRoots, TypeOK
  <2>3. cells' = Reach(refs, AllRoots)
    BY <1>4, <2>1 DEF Sweep
  <2>4. NoDangling'
    <3>1. held \cup AllRoots \cup args \subseteq cells'
      <4>1. AllRoots \subseteq cells'
        BY <2>2, <2>3, ReachContains
      <4>2. held \subseteq cells' /\ args \subseteq held
        BY <1>4, <2>3 DEF Sweep, IInv, CallerRooted, ArgsHeld
      <4> QED
        BY <4>1, <4>2
    <3>2. Closed(refs, cells')
      BY <1>t, <2>2, <2>3, ReachClosed DEF TypeOK
    <3>3. Closed(refs', cells')
      BY <1>t, <1>4, <3>2 DEF Sweep, Closed, TypeOK
    <3> QED
      BY <1>4, <2>2, <3>1, <3>3 DEF Sweep, NoDangling
  <2>5. MarksClear' /\ MarkingSound' /\ CallerRooted' /\ ArgsHeld' /\ StartsAtFirst'
    BY <1>4, <2>1 DEF Sweep, FirstCallback, IInv, MarksClear, MarkingSound, CallerRooted,
                      ArgsHeld, StartsAtFirst
  <2>6. RootsRegistered'
    BY <1>t, <1>4 DEF Sweep, RootsRegistered, Registered
  <2> QED
    BY <2>4, <2>5, <2>6 DEF IInv
<1>5. ASSUME NEW c \in Cell, Construct(c) PROVE IInv'
  <2>1. NoDangling'
    <3>1. AllRoots' = AllRoots
      BY <1>5 DEF Construct, AllRoots
    <3> QED
      BY <1>t, <1>5, <3>1 DEF Construct, NoDangling, Closed, TypeOK
  <2>2. RootsRegistered'
    BY <1>t, <1>5 DEF Construct, RootsRegistered, Registered
  <2>3. MarksClear' /\ MarkingSound' /\ CallerRooted' /\ ArgsHeld' /\ StartsAtFirst'
    BY <1>5
       DEF Construct, IInv, MarksClear, MarkingSound, CallerRooted, ArgsHeld, StartsAtFirst
  <2> QED
    BY <2>1, <2>2, <2>3 DEF IInv
<1> QED
  BY <1>1, <1>2, <1>3, <1>4, <1>5 DEF Collector

(* Nor does a step that changes nothing. *)
LEMMA IInvStutter ==
  ASSUME IInv, UNCHANGED vars
  PROVE  IInv'
BY DEF vars, mutator, collector, IInv, TypeOK, NoDangling, Closed, AllRoots, MarksClear,
       MarkingSound, RootsRegistered, Registered, CallerRooted, ArgsHeld, StartsAtFirst

(* The inductive invariant holds when clients root what they keep. *)
LEMMA Invariance ==
  ASSUME Rooted
  PROVE  Spec => []IInv
<1>1. IInv /\ TypeOK' /\ [Next]_vars => IInv'
  BY IInvClient, IInvCollector, IInvStutter DEF Next
<1> QED
  BY <1>1, IInvInit, TypeCorrect, PTL DEF Spec

(***************************************************************************)
(* As long as clients root what they keep across make(), no gc_ptr of      *)
(* theirs and no pointer inside a live object ever dangles.                *)
(***************************************************************************)
THEOREM NoPointerDangles ==
  ASSUME Rooted
  PROVE  Spec => []NoDangling
<1>1. IInv => NoDangling
  BY DEF IInv
<1> QED
  BY <1>1, Invariance, PTL

(* Every collection begins with no mark set and no cell queued (GC.cpp:15). *)
THEOREM MarksAreReset ==
  ASSUME Rooted
  PROVE  Spec => []MarksClear
<1>1. IInv => MarksClear
  BY DEF IInv
<1> QED
  BY <1>1, Invariance, PTL

(* Marking never misses a pointer of a traced cell and never overshoots. *)
THEOREM MarkingIsSound ==
  ASSUME Rooted
  PROVE  Spec => []MarkingSound
<1>1. IInv => MarkingSound
  BY DEF IInv
<1> QED
  BY <1>1, Invariance, PTL

-----------------------------------------------------------------------------
(* Refinement: mark-and-sweep keeps the promise of module Heap. *)

(* What Heap calls accessible is what the roots and the C++ locals reach. *)
LEMMA AccessibleIsReach ==
  H!Accessible = Reach(refs, AllRoots \cup held)
BY DEF H!Accessible, H!AllRoots, H!Reach, H!Closed, AllRoots, Reach, Closed

(* What a client has at hand, in a local, a root or an object, is accessible. *)
LEMMA AtHand ==
  ASSUME TypeOK
  PROVE  /\ held \cup AllRoots \subseteq H!Accessible
         /\ \A d \in held : refs[d] \subseteq H!Accessible
         /\ \A o \in Owner : roots[o] \subseteq H!Accessible
<1> DEFINE R == AllRoots \cup held
<1>1. R \in SUBSET Cell
  BY DEF TypeOK, AllRoots
<1>2. R \subseteq Reach(refs, R)
  BY <1>1, ReachContains
<1>3. Closed(refs, Reach(refs, R))
  BY <1>1, ReachClosed DEF TypeOK
<1> QED
  BY <1>2, <1>3, AccessibleIsReach DEF Closed, AllRoots

(* Clients' moves are uses of pointers they have. *)
LEMMA ClientUses ==
  ASSUME TypeOK, Client
  PROVE  H!Use \/ H!Begin \/ UNCHANGED H!vars
<1> USE DEF mutator, collector, Activity
<1>1. ASSUME NEW o \in Owner, RegisterCallback(o) PROVE UNCHANGED H!vars
  BY <1>1 DEF RegisterCallback, H!vars
<1>2. CASE DeregisterCallback
  <2> DEFINE last == root_marking_callbacks[Len(root_marking_callbacks)]
  <2>0. last \in Owner
    BY <1>2 DEF DeregisterCallback, TypeOK
  <2>1. roots' = [roots EXCEPT ![last] = {}]
    BY <1>2 DEF DeregisterCallback
  <2>2. \A o2 \in Owner : roots'[o2] \subseteq H!Accessible
    BY <2>0, <2>1, AtHand DEF TypeOK
  <2> QED
    BY <1>2, <2>2, AtHand DEF DeregisterCallback, H!Use
<1>3. ASSUME NEW o \in Owner, NEW c \in Cell, AddRoot(o, c) \/ DropRoot(o, c)
      PROVE  H!Use
  <2>1. \A o2 \in Owner : roots'[o2] \subseteq H!Accessible
    BY <1>3, AtHand DEF AddRoot, DropRoot, TypeOK
  <2> QED
    BY <1>3, <2>1, AtHand DEF AddRoot, DropRoot, H!Use
<1>4. ASSUME NEW c \in Cell, Load(c) \/ Release(c) PROVE H!Use
  <2>1. held' \subseteq H!Accessible
    BY <1>4, AtHand DEF Load, Release
  <2> QED
    BY <1>4, <2>1, AtHand DEF Load, Release, H!Use
<1>5. ASSUME NEW c \in Cell, NEW d \in Cell, Link(c, d) \/ Unlink(c, d)
      PROVE  H!Use
  <2>1. \A c2 \in Cell : refs'[c2] \subseteq refs[c2] \cup H!Accessible
    BY <1>5, AtHand DEF Link, Unlink, SetRefs, TypeOK
  <2> QED
    BY <1>5, <2>1, AtHand DEF Link, Unlink, SetRefs, H!Use
<1>6. ASSUME NEW as \in SUBSET held, Make(as)
      PROVE  H!Begin \/ UNCHANGED H!vars
  BY <1>6 DEF Make, H!Begin, H!vars
<1> QED
  BY <1>1, <1>2, <1>3, <1>4, <1>5, <1>6 DEF Client

(* The sweep is where the abstract collection happens. *)
LEMMA SweepCollects ==
  ASSUME IInv, Sweep
  PROVE  H!Collect
<1>1. Survivors = Reach(refs, AllRoots)
  BY SurvivorsReached DEF Sweep
<1>2. held \subseteq Reach(refs, AllRoots)
  BY DEF Sweep, IInv, CallerRooted
<1>3. refs \in [Cell -> SUBSET Cell] /\ AllRoots \in SUBSET Cell /\ held \in SUBSET Cell
  BY DEF IInv, TypeOK, AllRoots
<1>4. Survivors = H!Accessible
  BY <1>1, <1>2, <1>3, ReachAbsorbs, AccessibleIsReach
<1>5. H!Accessible \subseteq Cell
  BY AccessibleIsReach DEF Reach
<1> QED
  BY <1>3, <1>4, <1>5 DEF Sweep, H!Collect, mutator, Activity

(***************************************************************************)
(* gc_heap implements the heap it promises: every step of its clients and  *)
(* of a collection is a use of accessible pointers, an allocation, the     *)
(* beginning of a collection, its end, which frees exactly the garbage, or *)
(* invisible.                                                              *)
(***************************************************************************)
THEOREM ImplementsHeap ==
  ASSUME Rooted
  PROVE  Spec => HeapPromise
<1>1. Init => H!Init
  BY DEF Init, H!Init, Activity
<1>2. IInv /\ [Next]_vars => [H!Next]_(H!vars)
  <2> SUFFICES ASSUME IInv, [Next]_vars PROVE H!Next \/ UNCHANGED H!vars
    OBVIOUS
  <2> USE DEF mutator, collector, Activity
  <2>1. CASE Client
    BY <2>1, ClientUses DEF IInv, H!Next
  <2>2. CASE InvokeCallback \/ StartTrace \/ Trace
    BY <2>2 DEF InvokeCallback, StartTrace, Trace, H!vars
  <2>3. CASE Sweep
    BY <2>3, SweepCollects DEF H!Next
  <2>4. ASSUME NEW c \in Cell, Construct(c) PROVE H!Next
    <3>1. refs' = [refs EXCEPT ![c] = args] /\ args \subseteq held
      BY <2>4 DEF Construct, IInv, ArgsHeld
    <3>2. H!Allocate(c)
      BY <2>4, <3>1 DEF Construct, H!Allocate, IInv, TypeOK
    <3> QED
      BY <3>2 DEF H!Next
  <2>5. CASE UNCHANGED vars
    BY <2>5 DEF vars, H!vars
  <2> QED
    BY <2>1, <2>2, <2>3, <2>4, <2>5 DEF Next, Collector
<1> QED
  BY <1>1, <1>2, Invariance, PTL DEF Spec, HeapPromise, H!Spec

=============================================================================
