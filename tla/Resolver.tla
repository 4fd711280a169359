------------------------------ MODULE Resolver ------------------------------
(***************************************************************************)
(* Resolver: before a program runs, the distance between each use of a     *)
(* local variable and the scope that declares it (Treewalk/Resolver.cpp).  *)
(*                                                                         *)
(* A visit maps the resolver's state to the next: the scopes (from a name  *)
(* to whether it is defined), whether it is in a function, the distances   *)
(* it has told the interpreter, and the errors it has reported.            *)
(***************************************************************************)
EXTENDS Ast, TLC

NoScopes == <<>>

BeginScope(s) == [s EXCEPT !.scopes = Append(@, <<>>)]
EndScope(s)   == [s EXCEPT !.scopes = Front(@)]

(* map::insert does not replace, operator[] does. *)
Declare(s, name) ==
  IF s.scopes = NoScopes THEN s ELSE [s EXCEPT !.scopes[Len(s.scopes)] = @ @@ (name :> FALSE)]
Define(s, name) ==
  IF s.scopes = NoScopes THEN s ELSE [s EXCEPT !.scopes[Len(s.scopes)] = (name :> TRUE) @@ @]

Report(s, message) == [s EXCEPT !.errors = @ \cup {message}]

(***************************************************************************)
(* Every scope that has the name is told to the interpreter, from the      *)
(* innermost outwards; locals.insert keeps the first.  (Fault: the last.)  *)
(***************************************************************************)
ResolveToOutermost(s, node) ==
  LET found == {i \in DOMAIN s.scopes : node.name \in DOMAIN s.scopes[i]}
  IN  IF found = {} THEN s
      ELSE LET outermost == CHOOSE i \in found : \A j \in found : i <= j
           IN  [s EXCEPT !.locals = (node.id :> Len(s.scopes) - outermost) @@ @]

ResolveLocalVariable(s, node) ==
  LET found == {i \in DOMAIN s.scopes : node.name \in DOMAIN s.scopes[i]}
  IN  IF found = {} THEN s
      ELSE LET innermost == CHOOSE i \in found : \A j \in found : j <= i
           IN  [s EXCEPT !.locals = @ @@ (node.id :> Len(s.scopes) - innermost)]

NotReady(s, name) ==
  /\ s.scopes # NoScopes
  /\ name \in DOMAIN Last(s.scopes)
  /\ ~Last(s.scopes)[name]

RECURSIVE Visit(_, _)

VisitAll(s, nodes) == FoldLeft(Visit, s, nodes)

(* Fault: no scope of its own for a function. *)
ResolveFunctionInScope(s, function) ==
  LET declared == FoldLeft(LAMBDA t, name : Define(Declare(t, name), name),
                           [s EXCEPT !.in_function = TRUE], function.params)
  IN  [VisitAll(declared, function.body) EXCEPT !.in_function = s.in_function]

ResolveFunction(s, function) ==
  LET declared == FoldLeft(LAMBDA t, name : Define(Declare(t, name), name),
                           BeginScope([s EXCEPT !.in_function = TRUE]), function.params)
  IN  [EndScope(VisitAll(declared, function.body)) EXCEPT !.in_function = s.in_function]

(* The visitors, by the kind of node. *)
Visit(s, node) ==
  CASE node.kind = "Literal"  -> s
    [] node.kind = "Variable" ->
         ResolveLocalVariable(IF NotReady(s, node.name) THEN Report(s, "own initializer") ELSE s, node)
    [] node.kind = "Assign"   -> ResolveLocalVariable(Visit(s, node.value), node)
    [] node.kind = "Unary"    -> Visit(s, node.right)
    [] node.kind \in {"Binary", "Logical"}   -> VisitAll(s, <<node.left, node.right>>)
    [] node.kind \in {"Grouping", "Expression", "Print"} -> Visit(s, node.expr)
    [] node.kind = "Call"     -> VisitAll(s, <<node.callee>> \o node.arguments)
    [] node.kind = "Var"      ->
         Define(VisitAll(Declare(s, node.name), node.initializer), node.name)
    [] node.kind = "Block"    -> EndScope(VisitAll(BeginScope(s), node.statements))
    [] node.kind = "If"       -> VisitAll(s, <<node.condition, node.then>> \o node.else)
    [] node.kind = "While"    -> VisitAll(s, <<node.condition, node.body>>)
    [] node.kind = "Function" -> ResolveFunction(Define(Declare(s, node.name), node.name), node)
    [] node.kind = "Return"   ->
         VisitAll(IF s.in_function THEN s ELSE Report(s, "return at top level"), node.value)

(* Resolver::resolve of a program, for an interpreter with these locals. *)
Resolved(program, known) ==
  VisitAll([scopes |-> NoScopes, in_function |-> FALSE, locals |-> known, errors |-> {}], program)

=============================================================================
