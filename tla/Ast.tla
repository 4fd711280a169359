-------------------------------- MODULE Ast --------------------------------
(***************************************************************************)
(* The nodes that Parser builds and Resolver and Interpreter visit         *)
(* (Treewalk/Expr.h, Stmt.h), the values they are evaluated to, and the    *)
(* ErrorReporter that the whole tree-walking program shares.               *)
(*                                                                         *)
(* A node that Interpreter::locals may mention has an id, its address.     *)
(***************************************************************************)
EXTENDS Integers, Sequences, SequencesExt

VARIABLE errors  \* the messages that ErrorReporter has got

SetError(message) == errors' = errors \cup {message}
HasError == errors # {}

-----------------------------------------------------------------------------
(* Values *)

Nil         == [nil |-> TRUE]
Bool(b)     == [bool |-> b]
Num(n)      == [num |-> n]
Str(s)      == [str |-> s]
Callable(c) == [callable |-> c]

IsNum(v)      == DOMAIN v = {"num"}
IsStr(v)      == DOMAIN v = {"str"}
IsCallable(v) == DOMAIN v = {"callable"}

-----------------------------------------------------------------------------
(* Expressions *)

BinaryExpr(left, operator, right) ==
  [kind |-> "Binary", left |-> left, operator |-> operator, right |-> right]
GroupingExpr(expr)           == [kind |-> "Grouping", expr |-> expr]
LiteralExpr(value)           == [kind |-> "Literal", value |-> value]
UnaryExpr(operator, right)   == [kind |-> "Unary", operator |-> operator, right |-> right]
VariableExpr(name, id)       == [kind |-> "Variable", name |-> name, id |-> id]
AssignExpr(name, id, value)  == [kind |-> "Assign", name |-> name, id |-> id, value |-> value]
LogicalExpr(left, operator, right) ==
  [kind |-> "Logical", left |-> left, operator |-> operator, right |-> right]
CallExpr(callee, arguments) ==
  [kind |-> "Call", callee |-> callee, arguments |-> arguments]

(* Statements.  What may be missing is a sequence of at most one node. *)

ExpressionStmt(expr)         == [kind |-> "Expression", expr |-> expr]
PrintStmt(expr)              == [kind |-> "Print", expr |-> expr]
VarStmt(name, initializer)   == [kind |-> "Var", name |-> name, initializer |-> initializer]
BlockStmt(statements)        == [kind |-> "Block", statements |-> statements]
IfStmt(condition, then, else) ==
  [kind |-> "If", condition |-> condition, then |-> then, else |-> else]
WhileStmt(condition, body)   == [kind |-> "While", condition |-> condition, body |-> body]
FunctionStmt(name, params, body) ==
  [kind |-> "Function", name |-> name, params |-> params, body |-> body]
ReturnStmt(value)            == [kind |-> "Return", value |-> value]

=============================================================================
