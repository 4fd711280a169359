------------------------------ MODULE MCGCHeap ------------------------------
(***************************************************************************)
(* GCHeap for TLC: a handful of cells and callback owners.  Cells are      *)
(* interchangeable, and so are owners.  Liveness checking allows no        *)
(* SYMMETRY: cells and owners are numbers instead, and a new one is always *)
(* the least of those that are free.                                       *)
(***************************************************************************)
EXTENDS GCHeap

LeastFirst ==
  /\ \A c \in cells' \ cells : \A d \in Cell \ cells : c <= d
  /\ \A o \in Owner :
       root_marking_callbacks' = Append(root_marking_callbacks, o) =>
         \A p \in Owner \ Registered : o <= p

=============================================================================
