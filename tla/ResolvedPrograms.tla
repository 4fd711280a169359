-------------------------- MODULE ResolvedPrograms --------------------------
(***************************************************************************)
(* Interpreter with programs that Parser and Resolver let pass.  It is     *)
(* kept from one program to the next, as Runner keeps it.                  *)
(***************************************************************************)
EXTENDS Interpreter, Scoping

CONSTANTS
  Programs,    \* statements, distances of variables, and visits that show them to be right
  MaxPrograms  \* bound on how many programs the interpreter is given

vars == <<errors, interpreter_vars>>

Init == errors = {} /\ InterpreterInit

(* Runner::run of the next program, whose nodes are at addresses of their own. *)
Begin_(p) ==
  /\ todo = <<>> /\ program < MaxPrograms
  /\ locals' = locals @@ p.locals
  /\ IsResolved(p.statements, locals', p.visits)
  /\ program' = program + 1
  /\ todo' = p.statements
  /\ errors' = {}
  /\ UNCHANGED <<environments, current_env, callables, values, val, output>>

Next == (\E p \in Programs : Begin_(p)) \/ Step

Spec == Init /\ [][Next]_vars

=============================================================================
