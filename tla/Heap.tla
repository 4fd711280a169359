-------------------------------- MODULE Heap --------------------------------
(***************************************************************************)
(* What gc_heap promises to the compiler and to the virtual machine        *)
(* (include/cpplox/Bytecode/GC.h:36-48): a gc_ptr can be used for as long  *)
(* as its holder wants, and the memory of whatever nobody can get to any   *)
(* more is given back.  A collection takes a while, in which clients stand *)
(* still, and then frees everything that has to go in one step.            *)
(***************************************************************************)
EXTENDS PointerGraph

CONSTANT Owner   \* the compilers and virtual machines that hold roots

VARIABLES
  cells,   \* the cells that are allocated
  refs,    \* refs[c]: the cells that the object in cell c points to
  roots,   \* roots[o]: the cells that o's root marking callback would mark
  held,    \* the cells that gc_ptrs in C++ local variables point to
  activity \* "idle", or "collecting"

vars == <<cells, refs, roots, held, activity>>

AllRoots == UNION {roots[o] : o \in Owner}

(***************************************************************************)
(* The cells a client can still get to.                                    *)
(***************************************************************************)
Accessible == Reach(refs, AllRoots \cup held)

Init ==
  /\ cells = {}
  /\ refs = [c \in Cell |-> {}]
  /\ roots = [o \in Owner |-> {}]
  /\ held = {}
  /\ activity = "idle"

(***************************************************************************)
(* Clients move pointers around, but only pointers that they have.         *)
(***************************************************************************)
Use ==
  /\ activity = "idle"
  /\ held' \subseteq Accessible
  /\ \A o \in Owner : roots'[o] \subseteq Accessible
  /\ \A c \in Cell : refs'[c] \subseteq refs[c] \cup Accessible
  /\ UNCHANGED <<cells, activity>>

Allocate(c) ==
  /\ activity = "idle"
  /\ c \notin cells
  /\ cells' = cells \cup {c}
  /\ held' = held \cup {c}
  /\ refs'[c] \subseteq held
  /\ \A d \in Cell \ {c} : refs'[d] = refs[d]
  /\ UNCHANGED <<roots, activity>>

(* From here on clients wait. *)
Begin ==
  /\ activity = "idle"
  /\ activity' = "collecting"
  /\ UNCHANGED <<cells, refs, roots, held>>

(***************************************************************************)
(* A collection does not end without having freed exactly the cells that   *)
(* are not accessible.                                                     *)
(***************************************************************************)
Collect ==
  /\ activity = "collecting"
  /\ activity' = "idle"
  /\ cells' = Accessible
  /\ \A c \in Accessible : refs'[c] = refs[c]
  /\ UNCHANGED <<roots, held>>

Next == Use \/ Begin \/ Collect \/ \E c \in Cell : Allocate(c)

Spec == Init /\ [][Next]_vars

=============================================================================
