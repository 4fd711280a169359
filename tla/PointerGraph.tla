---------------------------- MODULE PointerGraph ----------------------------
(***************************************************************************)
(* The object graph of the interpreter's heap: cells, and the gc_ptrs each *)
(* cell's object holds to other cells.  Shared by the heap's promise       *)
(* (module Heap), by its mark-and-sweep implementation (module GCHeap) and *)
(* by the proofs.                                                          *)
(***************************************************************************)

CONSTANT Cell   \* the addresses a gc_cell may live at

(***************************************************************************)
(* S is closed when no pointer leads out of it.                            *)
(***************************************************************************)
Closed(refs, S) == \A c \in S : refs[c] \subseteq S

(***************************************************************************)
(* The cells a chain of pointers leads to from the cells of R: the least   *)
(* closed set that contains R.                                             *)
(***************************************************************************)
Reach(refs, R) ==
  {c \in Cell : \A S \in SUBSET Cell :
                   R \subseteq S /\ Closed(refs, S) => c \in S}

=============================================================================
