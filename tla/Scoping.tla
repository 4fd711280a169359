------------------------------ MODULE Scoping ------------------------------
(***************************************************************************)
(* What Parser and Resolver promise Interpreter of a program: its nodes    *)
(* are put together as the grammar says, a return is in a function, and    *)
(* the use of a variable is told the distance to the innermost scope that  *)
(* has the name, or none if only the globals can have it.                  *)
(*                                                                         *)
(* This is said by rules instead of by a recursion: a program is resolved  *)
(* if there is a set of visits that has the visits of its statements and   *)
(* all that follow from its members, and each of them is as it should be.  *)
(***************************************************************************)
EXTENDS Ast

(* Expr.h, Stmt.h *)
Expressions  == {"Literal", "Grouping", "Unary", "Variable", "Assign", "Logical", "Binary", "Call"}
Declarations == {"Var", "Function"}
Statements_  == {"Expression", "Print", "Block", "If", "While", "Return"}

BinaryOperators ==
  {"EQUAL_EQUAL", "BANG_EQUAL", "GREATER", "GREATER_EQUAL", "LESS", "LESS_EQUAL",
   "MINUS", "STAR", "SLASH", "PLUS"}

Each(nodes, kinds) == nodes \in Seq(Range(nodes)) /\ \A i \in DOMAIN nodes : nodes[i].kind \in kinds

AtMostOne(nodes) == Len(nodes) <= 1

(* What the rules of Parser make of their parts. *)
WellBuilt(node) ==
  CASE node.kind = "Literal"    -> ~IsCallable(node.value)
    [] node.kind = "Variable"   -> TRUE
    [] node.kind \in {"Grouping", "Expression", "Print"} -> node.expr.kind \in Expressions
    [] node.kind = "Unary"      -> node.right.kind \in Expressions
    [] node.kind = "Assign"     -> node.value.kind \in Expressions
    [] node.kind = "Logical"    -> {node.left.kind, node.right.kind} \subseteq Expressions
    [] node.kind = "Binary"     -> /\ {node.left.kind, node.right.kind} \subseteq Expressions
                                   /\ node.operator \in BinaryOperators
    [] node.kind = "Call"       -> node.callee.kind \in Expressions /\ Each(node.arguments, Expressions)
    [] node.kind = "Var"        -> Each(node.initializer, Expressions) /\ AtMostOne(node.initializer)
    [] node.kind = "Return"     -> Each(node.value, Expressions) /\ AtMostOne(node.value)
    [] node.kind = "If"         -> /\ node.condition.kind \in Expressions /\ node.then.kind \in Statements_
                                   /\ Each(node.else, Statements_) /\ AtMostOne(node.else)
    [] node.kind = "While"      -> node.condition.kind \in Expressions /\ node.body.kind \in Statements_
    [] node.kind = "Block"      -> Each(node.statements, Statements_ \cup Declarations)
    [] node.kind = "Function"   -> /\ Each(node.body, Statements_ \cup Declarations)
                                   /\ node.params \in Seq(Range(node.params))
    [] OTHER                    -> FALSE

-----------------------------------------------------------------------------
(* Visits *)

(***************************************************************************)
(* A visit of a node: the names that the scopes around it have, innermost  *)
(* scope first; the name that the innermost one has, but which waits for   *)
(* its initializer; and whether the node is in a function.                 *)
(***************************************************************************)
VisitOf(node, scopes, waiting, in_function) ==
  [node |-> node, scopes |-> scopes, waiting |-> waiting, in_function |-> in_function]

(* declare and define: there is no scope for globals. *)
WithNames(scopes, names) == IF scopes = <<>> THEN <<>> ELSE <<scopes[1] \cup names>> \o Tail(scopes)

(* declare: a name that the scope has already stays defined. *)
Declared(scopes, name) == IF scopes = <<>> THEN {} ELSE {name} \ scopes[1]

DeclaredBefore(nodes, i) == {nodes[j].name : j \in {k \in 1 .. i - 1 : nodes[k].kind \in Declarations}}

(* Statements one after the other. *)
InSequence(nodes, scopes, in_function) ==
  {VisitOf(nodes[i], WithNames(scopes, DeclaredBefore(nodes, i)), {}, in_function) : i \in DOMAIN nodes}

ScopesOfBlock(v)    == <<{}>> \o v.scopes
ScopesOfFunction(v) == <<Range(v.node.params)>> \o WithNames(v.scopes, {v.node.name})

(* The visits that follow from one: those of the parts of its node. *)
Following(v) ==
  LET node == v.node
      Part(n)       == VisitOf(n, v.scopes, v.waiting, v.in_function)
      Initializer(n) == VisitOf(n, v.scopes, Declared(v.scopes, node.name), v.in_function)
  IN  CASE node.kind \in {"Grouping", "Expression", "Print"} -> {Part(node.expr)}
        [] node.kind = "Unary"  -> {Part(node.right)}
        [] node.kind = "Assign" -> {Part(node.value)}
        [] node.kind \in {"Binary", "Logical"} -> {Part(node.left), Part(node.right)}
        [] node.kind = "Call"   -> {Part(node.callee)} \cup {Part(n) : n \in Range(node.arguments)}
        [] node.kind = "Var"    -> {Initializer(n) : n \in Range(node.initializer)}
        [] node.kind = "Return" -> {Part(n) : n \in Range(node.value)}
        [] node.kind = "If"     -> {Part(node.condition), Part(node.then)} \cup {Part(n) : n \in Range(node.else)}
        [] node.kind = "While"  -> {Part(node.condition), Part(node.body)}
        [] node.kind = "Block"  -> InSequence(node.statements, ScopesOfBlock(v), v.in_function)
        [] node.kind = "Function" -> InSequence(node.body, ScopesOfFunction(v), TRUE)
        [] OTHER -> {}

-----------------------------------------------------------------------------
(* What Resolver finds out *)

NamesOf(v, k) == v.scopes[k] \cup (IF k = 1 THEN v.waiting ELSE {})

(* The distance to the innermost scope that has the name of the node. *)
DistanceFound(v, known) ==
  LET name == v.node.name
      Nowhere(n) == \A k \in 1 .. n : name \notin NamesOf(v, k)
  IN  IF v.node.id \in DOMAIN known
      THEN /\ known[v.node.id] \in 0 .. Len(v.scopes) - 1
           /\ name \in NamesOf(v, known[v.node.id] + 1)
           /\ Nowhere(known[v.node.id])
      ELSE Nowhere(Len(v.scopes))

(* (Fault: a return is accepted anywhere.) *)
AcceptedReturns(v, known) ==
  /\ v.node.kind \in {"Variable", "Assign"} => DistanceFound(v, known)
  /\ v.node.kind = "Variable" => v.node.name \notin v.waiting

Accepted(v, known) ==
  /\ v.node.kind \in {"Variable", "Assign"} => DistanceFound(v, known)
  /\ v.node.kind = "Variable" => v.node.name \notin v.waiting
  /\ v.node.kind = "Return" => v.in_function

(* The visits follow the rules, with the distances that are known. *)
FollowRules(visits, known) ==
  \A v \in visits : WellBuilt(v.node) /\ Accepted(v, known) /\ Following(v) \subseteq visits

(* The program is resolved, as the visits show. *)
IsResolved(program, known, visits) ==
  /\ Each(program, Statements_ \cup Declarations)
  /\ InSequence(program, <<>>, FALSE) \subseteq visits
  /\ FollowRules(visits, known)

=============================================================================
