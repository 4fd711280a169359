---------------------------- MODULE Interpreter ----------------------------
(***************************************************************************)
(* The tree-walking Interpreter (Treewalk/Interpreter.cpp).  What the C++  *)
(* stack holds in the code is data here: `todo' is what is left to do,     *)
(* nodes to visit and the rest of visits under way, first things first;    *)
(* `values' are the operands those visits have in local variables.         *)
(*                                                                         *)
(* An exception drops what is left to do up to the call that catches it:   *)
(* interpret catches RuntimeException in every block and function body,    *)
(* and records it; Return, which inherits from it privately, passes        *)
(* through and is caught in Function::call.                                *)
(***************************************************************************)
EXTENDS Ast, TLC

CONSTANTS
  Clock,            \* what clock() returns
  MaxEnvironments   \* bound on the environments a program creates

(* The clock does not return a function. *)
ASSUME ClockAssumption == ~IsCallable(Clock)

VARIABLES
  locals,        \* the distances that Resolver has found
  environments,  \* every Environment, and the one around it (0: none)
  current_env,
  callables,     \* every Callable: its declaration, environment and program
  program,       \* how many programs this interpreter was given
  todo, values,
  val,           \* the value of the last expression
  output

interpreter_vars ==
  <<locals, environments, current_env, callables, program, todo, values, val, output>>

Global == 1

InterpreterInit ==
  /\ locals = <<>>
  /\ environments = <<[values |-> [name \in {"clock"} |-> Callable(1)], enclosing |-> 0]>>
  /\ current_env = Global
  /\ callables = <<[name |-> "clock"]>>
  /\ program = 0
  /\ todo = <<>> /\ values = <<>>
  /\ val = Nil
  /\ output = <<>>

-----------------------------------------------------------------------------
(* Environments *)

ValuesOf(env) == environments[env].values

(* Walking outwards: all the environments from env on. *)
Outwards(es, env) ==
  LET from[e \in 0 .. Len(es)] == IF e = 0 THEN <<>> ELSE <<e>> \o from[es[e].enclosing]
  IN  from[env]

(* Where get and assign find a name: 0 if nowhere. *)
Holder(env, name) ==
  LET path == Outwards(environments, env)
      i    == SelectInSeq(path, LAMBDA e : name \in DOMAIN ValuesOf(e))
  IN  IF i = 0 THEN 0 ELSE path[i]

(* values[name] = v *)
Holding(vs, name, v) == [n \in DOMAIN vs \cup {name} |-> IF n = name THEN v ELSE vs[n]]

Defined_(env, name, v) == [environments EXCEPT ![env].values = Holding(@, name, v)]

(* Where the use of a variable starts to look for it. *)
IsLocal(node)  == node.id \in DOMAIN locals
StartOf(node) ==
  IF IsLocal(node) THEN Outwards(environments, current_env)[locals[node.id] + 1] ELSE Global

(* A distance beyond the outermost environment: a null pointer is read. *)
Astray(node) == IsLocal(node) /\ locals[node.id] >= Len(Outwards(environments, current_env))

-----------------------------------------------------------------------------
(* What is to be done next *)

Task == Head(todo)
Rest == Tail(todo)

Bounded == Len(environments) <= MaxEnvironments

Doing(kinds) == todo # <<>> /\ Task.kind \in kinds /\ Bounded

Continue(tasks) == todo' = tasks \o Rest

(* The rest of visits under way *)
Keep             == [kind |-> "keep"]                     \* val into a local variable
Apply(node)      == [kind |-> "apply", node |-> node]     \* the operator, or the call
Leave(kind)      == [kind |-> kind, env |-> current_env, depth |-> Len(values)]

Catches(kinds) == SelectInSeq(todo, LAMBDA task : task.kind \in kinds)

(* The stack is unwound to the i-th of the tasks. *)
Unwind(i) ==
  /\ todo' = IF i = 0 THEN <<>> ELSE SubSeq(todo, i, Len(todo))
  /\ values' = IF i = 0 THEN <<>> ELSE SubSeq(values, 1, todo[i].depth)

(* interpret catches it, in a block as in a function. *)
Throw(message) ==
  /\ Unwind(Catches({"leave_block", "leave_call"}))
  /\ SetError(message)
  /\ UNCHANGED <<locals, environments, current_env, callables, program, val, output>>

(* Nothing but what is to be done, and val, changes. *)
Quiet == UNCHANGED <<locals, environments, current_env, callables, program, output, errors>>

IsTruthy(v) == v \notin {Nil, Bool(FALSE)}

Text(v) ==
  CASE DOMAIN v = {"bool"} -> IF v.bool THEN "true" ELSE "false"
    [] IsNum(v)            -> ToString(v.num)
    [] IsStr(v)            -> v.str
    [] DOMAIN v = {"nil"}  -> "nil"
    [] IsCallable(v)       -> "<fn " \o callables[v.callable].name \o ">"

-----------------------------------------------------------------------------
(* Expressions *)

VisitLiteral ==
  /\ Doing({"Literal"})
  /\ val' = Task.value
  /\ Continue(<<>>)
  /\ UNCHANGED values /\ Quiet

(* Callee and arguments are each kept in turn. *)
Kept(nodes) ==
  [i \in 1 .. 2 * Len(nodes) |-> IF i % 2 = 1 THEN nodes[(i + 1) \div 2] ELSE Keep]

(* What is evaluated before there is more to do, which Apply stands for. *)
Operands(node) ==
  CASE node.kind \in {"Grouping", "Expression"} -> <<node.expr>>
    [] node.kind = "Print"   -> <<node.expr, Apply(node)>>
    [] node.kind = "Unary"   -> <<node.right, Apply(node)>>
    [] node.kind = "Assign"  -> <<node.value, Apply(node)>>
    [] node.kind = "Logical" -> <<node.left, Apply(node)>>
    [] node.kind \in {"If", "While"} -> <<node.condition, Apply(node)>>
    [] node.kind = "Binary"  -> <<node.left, Keep, node.right, Apply(node)>>
    [] node.kind = "Call"    -> Kept(<<node.callee>> \o node.arguments) \o <<Apply(node)>>

Begin ==
  /\ Doing({"Grouping", "Unary", "Assign", "Logical", "Binary", "Call", "Expression", "Print",
            "If", "While"})
  /\ Continue(Operands(Task))
  /\ UNCHANGED <<values, val>> /\ Quiet

KeepValue ==
  /\ Doing({"keep"})
  /\ values' = Append(values, val)
  /\ Continue(<<>>)
  /\ UNCHANGED val /\ Quiet

(* lookup_variable *)
VisitVariable ==
  /\ Doing({"Variable"}) /\ ~Astray(Task)
  /\ LET holder == Holder(StartOf(Task), Task.name)
     IN  IF holder = 0 THEN Throw("undefined variable")
         ELSE /\ val' = ValuesOf(holder)[Task.name]
              /\ Continue(<<>>)
              /\ UNCHANGED values /\ Quiet

Applying(kind) == Doing({"apply"}) /\ Task.node.kind = kind

VisitAssign ==
  /\ Applying("Assign") /\ ~Astray(Task.node)
  /\ LET holder == Holder(StartOf(Task.node), Task.node.name)
     IN  IF holder = 0 THEN Throw("undefined variable")
         ELSE /\ environments' = Defined_(holder, Task.node.name, val)
              /\ Continue(<<>>)
              /\ UNCHANGED <<values, val, locals, current_env, callables, program, output, errors>>

VisitUnary ==
  /\ Applying("Unary")
  /\ IF Task.node.operator = "MINUS" /\ ~IsNum(val) THEN Throw("operand must be a number")
     ELSE /\ val' = IF Task.node.operator = "MINUS" THEN Num(-val.num) ELSE Bool(~IsTruthy(val))
          /\ Continue(<<>>)
          /\ UNCHANGED values /\ Quiet

Result(operator, lhs, rhs) ==
  CASE operator = "EQUAL_EQUAL"   -> Bool(lhs = rhs)
    [] operator = "BANG_EQUAL"    -> Bool(lhs # rhs)
    [] operator = "GREATER"       -> Bool(lhs.num > rhs.num)
    [] operator = "GREATER_EQUAL" -> Bool(lhs.num >= rhs.num)
    [] operator = "LESS"          -> Bool(lhs.num < rhs.num)
    [] operator = "LESS_EQUAL"    -> Bool(lhs.num <= rhs.num)
    [] operator = "MINUS"         -> Num(lhs.num - rhs.num)
    [] operator = "STAR"          -> Num(lhs.num * rhs.num)
    [] operator = "SLASH"         -> Num(lhs.num \div rhs.num)
    [] operator = "PLUS"          -> IF IsStr(lhs) THEN Str(lhs.str \o rhs.str) ELSE Num(lhs.num + rhs.num)

Operable(operator, lhs, rhs) ==
  \/ operator \in {"EQUAL_EQUAL", "BANG_EQUAL"}
  \/ IsNum(lhs) /\ IsNum(rhs)
  \/ operator = "PLUS" /\ IsStr(lhs) /\ IsStr(rhs)

VisitBinary ==
  /\ Applying("Binary")
  /\ IF ~Operable(Task.node.operator, Last(values), val) THEN Throw("operands must be numbers")
     ELSE /\ val' = Result(Task.node.operator, Last(values), val)
          /\ values' = Front(values)
          /\ Continue(<<>>)
          /\ Quiet

VisitLogical ==
  /\ Applying("Logical")
  /\ Continue(IF IsTruthy(val) = (Task.node.operator = "OR") THEN <<>> ELSE <<Task.node.right>>)
  /\ UNCHANGED <<values, val>> /\ Quiet

(* Callee and arguments, which are the last of the values. *)
Arity        == Len(Task.node.arguments)
Callee       == values[Len(values) - Arity]
Argument(i)  == values[Len(values) - Arity + i]
CalleeOf     == callables[Callee.callable]
IsNative     == Callee = Callable(1)
ParamsOf     == IF IsNative THEN <<>> ELSE CalleeOf.declaration.params

(* The declaration was destroyed with the program it is a part of. *)
Dangling == ~IsNative /\ CalleeOf.program # program

CallFails ==
  /\ Applying("Call")
  /\ IsCallable(Callee) => ~Dangling /\ Len(ParamsOf) # Arity
  /\ Throw("cannot be called")

CallNative ==
  /\ Applying("Call")
  /\ IsCallable(Callee) /\ IsNative /\ Arity = 0
  /\ val' = Clock
  /\ values' = Front(values)
  /\ Continue(<<>>)
  /\ Quiet

Enter(env) == environments' = Append(environments, env) /\ current_env' = Len(environments) + 1

(* Around a call is the environment of the declaration, not that of the caller. *)
DeclarationsEnvironment == CalleeOf.env

CallFunction ==
  /\ Applying("Call")
  /\ IsCallable(Callee) /\ ~IsNative /\ ~Dangling /\ Len(ParamsOf) = Arity
  /\ Enter([values    |-> [p \in ToSet(ParamsOf) |->
                             Argument(CHOOSE i \in 1 .. Arity :
                                        ParamsOf[i] = p /\ \A j \in i + 1 .. Arity : ParamsOf[j] # p)],
            enclosing |-> DeclarationsEnvironment])
  /\ values' = SubSeq(values, 1, Len(values) - Arity - 1)
  /\ Continue(CalleeOf.declaration.body \o <<[Leave("leave_call") EXCEPT !.depth = @ - Arity - 1]>>)
  /\ UNCHANGED <<locals, callables, program, val, output, errors>>

-----------------------------------------------------------------------------
(* Statements *)

VisitPrint ==
  /\ Applying("Print")
  /\ output' = Append(output, Text(val))
  /\ Continue(<<>>)
  /\ UNCHANGED <<values, val, locals, environments, current_env, callables, program, errors>>

Define_(name, v) ==
  /\ environments' = Defined_(current_env, name, v)
  /\ Continue(<<>>)
  /\ UNCHANGED <<locals, current_env, program, values, val, output, errors>>

VisitVar ==
  \/ /\ Doing({"Var"})
     /\ IF Task.initializer = <<>> THEN Define_(Task.name, Nil) /\ UNCHANGED callables
        ELSE Continue(<<Task.initializer[1], Apply(Task)>>) /\ UNCHANGED <<values, val>> /\ Quiet
  \/ /\ Applying("Var")
     /\ Define_(Task.node.name, val)
     /\ UNCHANGED callables

VisitFunction ==
  /\ Doing({"Function"})
  /\ callables' = Append(callables, [name |-> Task.name, declaration |-> Task,
                                     env |-> current_env, program |-> program])
  /\ Define_(Task.name, Callable(Len(callables) + 1))

VisitBlock ==
  /\ Doing({"Block"})
  /\ Enter([values |-> <<>>, enclosing |-> current_env])
  /\ Continue(Task.statements \o <<Leave("leave_block")>>)
  /\ UNCHANGED <<values, val, locals, callables, program, output, errors>>

VisitIf ==
  /\ Applying("If")
  /\ Continue(IF IsTruthy(val) THEN <<Task.node.then>> ELSE Task.node.else)
  /\ UNCHANGED <<values, val>> /\ Quiet

VisitWhile ==
  /\ Applying("While")
  /\ Continue(IF IsTruthy(val) THEN <<Task.node.body, Task.node>> ELSE <<>>)
  /\ UNCHANGED <<values, val>> /\ Quiet

(* The end of execute_block, with or without an error; a call yields nil. *)
LeaveBlock ==
  /\ Doing({"leave_block", "leave_call"})
  /\ current_env' = Task.env
  /\ val' = IF Task.kind = "leave_call" THEN Nil ELSE val
  /\ Continue(<<>>)
  /\ UNCHANGED <<values, locals, environments, callables, program, output, errors>>

(***************************************************************************)
(* Return unwinds the blocks up to the call, each of which restores the    *)
(* environment it began in, the one of the call last.  (Fault: only the    *)
(* innermost one restores it.)                                             *)
(***************************************************************************)
InnermostRestores(call) == todo[Catches({"leave_block", "leave_call"})].env
CallRestores(call)      == todo[call].env

VisitReturn ==
  \/ /\ Doing({"Return"})
     /\ Continue((IF Task.value = <<>> THEN <<LiteralExpr(Nil)>> ELSE Task.value) \o <<Apply(Task)>>)
     /\ UNCHANGED <<values, val>> /\ Quiet
  \/ /\ Applying("Return")
     /\ LET call == Catches({"leave_call"})
        IN  /\ current_env' = CallRestores(call)
            /\ todo' = SubSeq(todo, call + 1, Len(todo))
            /\ values' = SubSeq(values, 1, todo[call].depth)
     /\ UNCHANGED <<val, locals, environments, callables, program, output, errors>>

(* What has no defined effect. *)
Undefined ==
  \/ Doing({"Variable"}) /\ Astray(Task)
  \/ Applying("Assign") /\ Astray(Task.node)
  \/ Applying("Call") /\ IsCallable(Callee) /\ Dangling

Step ==
  \/ VisitLiteral \/ Begin \/ KeepValue \/ VisitVariable \/ VisitAssign \/ VisitUnary
  \/ VisitBinary \/ VisitLogical \/ CallFails \/ CallNative \/ CallFunction
  \/ VisitPrint \/ VisitVar \/ VisitFunction \/ VisitBlock \/ VisitIf \/ VisitWhile
  \/ LeaveBlock \/ VisitReturn

-----------------------------------------------------------------------------
(* Properties *)

(* A declaration of the name, in the block at hand, has still to get its value. *)
Waits(name) ==
  \E i \in DOMAIN todo :
    /\ todo[i].kind = "apply" /\ todo[i].node.kind = "Var" /\ todo[i].node.name = name
    /\ \A j \in 1 .. i : todo[j].kind \notin {"leave_block", "leave_call"}

Found(node) == IsLocal(node) => ~Astray(node) /\ node.name \in DOMAIN ValuesOf(StartOf(node))

(***************************************************************************)
(* The distance that Resolver computed for the use of a variable, on the   *)
(* syntax, leads from the environment in force at run time to one that     *)
(* has the variable, however calls, closures and returns led there.  An    *)
(* assignment in the initializer of its own variable, which Resolver lets  *)
(* be, is the exception: its variable is declared and not yet there.       *)
(***************************************************************************)
ResolvedNamesFound ==
  /\ Doing({"Variable"}) => Found(Task)
  /\ Applying("Assign") =>
       \/ Found(Task.node)
       \/ ~Astray(Task.node) /\ locals[Task.node.id] = 0 /\ Waits(Task.node.name)

(***************************************************************************)
(* Whether blocks and calls end, return or fail, the environment they      *)
(* began in is in force after them: the one in force is that of the        *)
(* innermost block, and the globals' outside of all of them.               *)
(***************************************************************************)
EnvironmentRestored ==
  LET innermost == Catches({"leave_block", "leave_call"})
  IN  /\ innermost = 0 => current_env = Global
      /\ innermost # 0 /\ todo[innermost].kind = "leave_block" =>
           environments[current_env].enclosing = todo[innermost].env

(***************************************************************************)
(* A Return that is thrown is caught by a call (Function::call): nothing   *)
(* above Interpreter catches it, as it is no RuntimeException to others.   *)
(***************************************************************************)
ReturnsCaught == Applying("Return") => Catches({"leave_call"}) # 0

=============================================================================
