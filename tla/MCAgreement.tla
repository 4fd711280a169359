---------------------------- MODULE MCAgreement ----------------------------
(***************************************************************************)
(* Agreement for TLC: the sources of MCLox, and chains of operators.       *)
(***************************************************************************)
EXTENDS MCLox, Agreement

Operators == {"+", "-", "*", "<", ">=", "==", "!=", "and", "or"}

(* Two or three operators, and a prefix operator in front or none. *)
Chains ==
  {<<"print">> \o p \o <<"3", op, "2", oq, "4", ";">> :
     p \in {<<>>, <<"-">>, <<"!">>}, op \in Operators, oq \in Operators}
  \cup
  {<<"print", "3", op, "2", oq, "4", or, "1", ";">> :
     op \in Operators, oq \in Operators, or \in Operators}

AgreementSessions == Files(CodeSources \cup Chains) \cup PromptSessions

-----------------------------------------------------------------------------
(***************************************************************************)
(* FairBoth for TLC, which takes too long over ENABLED <<NextOfBoth>>_vars.*)
(* `beat' changes with every step, so that a step that changes nothing     *)
(* else counts as one and is not taken for stuttering: a loop that gets    *)
(* nowhere is fair.  CanStep says when there is a step; where it says so   *)
(* wrongly there is a deadlock, which TLC reports.                         *)
(***************************************************************************)
VARIABLE beat

CanStepFirst ==
  \/ ~C!Done /\ C!Bounded
  \/ C!Done /\ errors = {} /\ status = "ready"
  \/ Ended /\ lines # <<>>
  \/ status = "running" /\ (~V!Defined \/ V!Erroneous \/ V!Bounded)

CanStepSecond ==
  /\ Ended /\ lines = <<>>
  /\ tree_stage # "line"
  /\ tree_stage = "interpret" /\ todo # <<>> => T!Bounded /\ ~T!Undefined

CanStep == CanStepFirst \/ CanStepSecond

Beat == NextOfBoth /\ beat' = 1 - beat

Resting == ~CanStep /\ UNCHANGED <<vars, tree_vars, beat>>

PacedInit == InitBoth /\ beat = 0

Paced ==
  /\ PacedInit
  /\ [][Beat \/ Resting]_<<vars, tree_vars, beat>>
  /\ []<>(~CanStep) \/ []<><<Beat>>_<<vars, tree_vars, beat>>

=============================================================================
