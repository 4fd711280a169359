----------------------------- MODULE Variables -----------------------------
(***************************************************************************)
(* What closing over a variable means, whoever implements it: "closures    *)
(* close over variables, not values" (LoxObject.h:45-48).  A variable that *)
(* some closure has captured is one thing, shared by its scope and by all  *)
(* the closures that captured it, and outlives its scope unchanged.        *)
(***************************************************************************)
EXTENDS Integers, Sequences

VARIABLES
  variable,  \* the values of the variables that were captured so far
  in_scope,  \* those of them whose scope has not been left
  assigning  \* whether the instruction that comes next is an assignment

vars == <<variable, in_scope, assigning>>

Init == variable = <<>> /\ in_scope = {} /\ assigning = FALSE

(* A closure is made, and captures some variables for the first time. *)
Capture ==
  /\ ~assigning
  /\ Len(variable') > Len(variable)
  /\ \A i \in DOMAIN variable : variable'[i] = variable[i]
  /\ in_scope' = in_scope \cup (DOMAIN variable' \ DOMAIN variable)

(* One variable gets a value, through its scope or through any closure. *)
Assign ==
  /\ assigning
  /\ DOMAIN variable' = DOMAIN variable
  /\ \E i \in DOMAIN variable :
       \A j \in DOMAIN variable \ {i} : variable'[j] = variable[j]
  /\ UNCHANGED in_scope

(* Scopes are left; the variables live on. *)
Leave ==
  /\ ~assigning
  /\ in_scope' \subseteq in_scope
  /\ UNCHANGED variable

(* Whatever else the program does is nothing to its captured variables. *)
Other == UNCHANGED <<variable, in_scope>>

Next == Capture \/ Assign \/ Leave \/ Other

Spec == Init /\ [][Next]_vars

=============================================================================
