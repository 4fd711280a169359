----------------------------- MODULE TreeParser -----------------------------
(***************************************************************************)
(* Parser: tokens to statements, by recursive descent (Treewalk/Parser.cpp)*)
(* One action is one turn of the loop in parse.                            *)
(*                                                                         *)
(* A function of the parser maps the index of the token it starts at to a  *)
(* result: the index it stops at, the nodes it returns and what it throws. *)
(***************************************************************************)
EXTENDS Scanner

CONSTANT MAX_PARAMETERS  \* 255 in the code

VARIABLES
  next,        \* Parser::current, which counts from 1 here
  statements,  \* the statements parsed so far
  base         \* what the allocator adds to a token's index: the node's address

parser_vars == <<next, statements, base>>

TypeAt(i)    == tokens[i].type
Check(i, t)  == TypeAt(i) = t /\ t # "LOX_EOF"
AtEnd(i)     == TypeAt(i) = "LOX_EOF"

Returns(i, nodes)  == [next |-> i, nodes |-> nodes, throws |-> ""]
Throws(i, message) == [next |-> i, nodes |-> <<>>, throws |-> message]
Ok(r)              == r.throws = ""

(* The result with its nodes put together, unless it throws. *)
Made(r, node) == IF Ok(r) THEN [r EXCEPT !.nodes = <<node>>] ELSE r

Named_(i) == [name |-> tokens[i].lexeme, id |-> base + i]

(* consume; an identifier is the only token whose text is of use later. *)
Consume(i, type) ==
  IF Check(i, type) THEN Returns(i + 1, IF type = "IDENTIFIER" THEN <<Named_(i)>> ELSE <<>>)
  ELSE Throws(i, "bad syntax")

RECURSIVE Parse(_, _), MoreOperands(_, _, _, _), Statements(_), Arguments(_), Parameters(_, _)

(* One part of a rule after the other, as long as none throws. *)
Rule(i, parts) ==
  FoldLeft(LAMBDA r, part :
             IF ~Ok(r) THEN r
             ELSE LET s == Parse(part, r.next) IN [s EXCEPT !.nodes = r.nodes \o @],
           Returns(i, <<>>), parts)

(* A part that is there unless the token says it is not. *)
Unless(i, type, part) == IF Check(i, type) THEN Returns(i, <<>>) ELSE Rule(i, <<part>>)

(* The result of a second rule, which starts where the first ended. *)
Then(r, Second(_)) == IF Ok(r) THEN Second(r) ELSE r

-----------------------------------------------------------------------------
(* Expressions *)

(* The `while (match(...))' of the binary levels. *)
MoreOperands(left, operators, operand, kind) ==
  IF ~Ok(left) \/ TypeAt(left.next) \notin operators THEN left
  ELSE LET op    == TypeAt(left.next)
           right == Parse(operand, left.next + 1)
       IN  MoreOperands(
             Made(right, IF kind = "logical" THEN LogicalExpr(left.nodes[1], op, right.nodes[1])
                         ELSE BinaryExpr(left.nodes[1], op, right.nodes[1])),
             operators, operand, kind)

Assignment(i) ==
  Then(Parse("logical_or", i), LAMBDA target :
    IF ~Check(target.next, "EQUAL") THEN target
    ELSE LET value == Parse("expression", target.next + 1)
         IN  IF Ok(value) /\ target.nodes[1].kind # "Variable"
             THEN Throws(value.next, "invalid assignment target")
             ELSE Made(value, AssignExpr(target.nodes[1].name, target.nodes[1].id, value.nodes[1])))

LogicalOr(i)  == MoreOperands(Parse("logical_and", i), {"OR"}, "logical_and", "logical")
LogicalAnd(i) == MoreOperands(Parse("equality", i), {"AND"}, "logical_and", "logical")
Equality(i)   == MoreOperands(Parse("comparison", i), {"BANG_EQUAL", "EQUAL_EQUAL"}, "comparison", "binary")
Comparison(i) == MoreOperands(Parse("term", i), {"GREATER", "GREATER_EQUAL", "LESS", "LESS_EQUAL"}, "term", "binary")

(* Fault: the right operand takes what comes after it. *)
TermToTheRight(i) == MoreOperands(Parse("factor", i), {"MINUS", "PLUS"}, "term", "binary")

Term(i)       == MoreOperands(Parse("factor", i), {"MINUS", "PLUS"}, "factor", "binary")
Factor(i)     == MoreOperands(Parse("unary", i), {"SLASH", "STAR"}, "unary", "binary")

Unary(i) ==
  IF TypeAt(i) \in {"BANG", "MINUS"}
  THEN LET right == Parse("unary", i + 1) IN Made(right, UnaryExpr(TypeAt(i), right.nodes[1]))
  ELSE Parse("call", i)

(* finish_call: the exception for a 256th argument is built, not thrown. *)
Arguments(i) ==
  Then(Parse("expression", i), LAMBDA argument :
    IF ~Check(argument.next, "COMMA") THEN argument
    ELSE LET rest == Arguments(argument.next + 1)
         IN  [rest EXCEPT !.nodes = argument.nodes \o @])

RECURSIVE MoreCalls(_)
MoreCalls(callee) ==
  IF ~Ok(callee) \/ ~Check(callee.next, "LEFT_PAREN") THEN callee
  ELSE LET arguments == Unless(callee.next + 1, "RIGHT_PAREN", "arguments")
       IN  MoreCalls(Then(arguments, LAMBDA a :
             Made(Consume(a.next, "RIGHT_PAREN"), CallExpr(callee.nodes[1], a.nodes))))

Call(i) == MoreCalls(Parse("primary", i))

Primary(i) ==
  CASE TypeAt(i) \in {"FALSE", "TRUE"} -> Returns(i + 1, <<LiteralExpr(Bool(TypeAt(i) = "TRUE"))>>)
    [] TypeAt(i) = "NIL"        -> Returns(i + 1, <<LiteralExpr(Nil)>>)
    [] TypeAt(i) = "NUMBER"     -> Returns(i + 1, <<LiteralExpr(Num(NumberValue[tokens[i].lexeme]))>>)
    [] TypeAt(i) = "STRING"     ->
         Returns(i + 1, <<LiteralExpr(Str(SubSeq(tokens[i].lexeme, 2, Len(tokens[i].lexeme) - 1)))>>)
    [] TypeAt(i) = "IDENTIFIER" -> Returns(i + 1, <<VariableExpr(tokens[i].lexeme, base + i)>>)
    [] TypeAt(i) = "LEFT_PAREN" ->
         LET r == Rule(i + 1, <<"expression", "RIGHT_PAREN">>) IN Made(r, GroupingExpr(r.nodes[1]))
    [] OTHER                    -> Throws(i, "expected expression")

-----------------------------------------------------------------------------
(* Statements *)

(* The parameters, n of which have been read. *)
Parameters(i, n) ==
  Then(IF n >= MAX_PARAMETERS THEN Throws(i, "too many parameters") ELSE Consume(i, "IDENTIFIER"),
    LAMBDA parameter :
      IF ~Check(parameter.next, "COMMA") THEN parameter
      ELSE LET rest == Parameters(parameter.next + 1, n + 1)
           IN  [rest EXCEPT !.nodes = parameter.nodes \o @])

FunctionDeclaration(i) ==
  Then(Rule(i, <<"IDENTIFIER", "LEFT_PAREN">>), LAMBDA name :
    Then(Unless(name.next, "RIGHT_PAREN", "parameters"), LAMBDA params :
      LET body == Rule(params.next, <<"RIGHT_PAREN", "LEFT_BRACE", "block">>)
      IN  Made(body, FunctionStmt(name.nodes[1].name,
                                  [p \in DOMAIN params.nodes |-> params.nodes[p].name],
                                  body.nodes[1].statements))))

VarDeclaration(i) ==
  Then(Consume(i, "IDENTIFIER"), LAMBDA name :
    Then(IF Check(name.next, "EQUAL") THEN Parse("expression", name.next + 1)
         ELSE Returns(name.next, <<>>), LAMBDA initializer :
      Made(Consume(initializer.next, "SEMICOLON"), VarStmt(name.nodes[1].name, initializer.nodes))))

ReturnStatement(i) ==
  Then(Unless(i, "SEMICOLON", "expression"), LAMBDA value :
    Made(Consume(value.next, "SEMICOLON"), ReturnStmt(value.nodes)))

(* The loop as a `while', its clauses in blocks around and in the body.  (Fault: no increment.) *)
DesugaredWithoutIncrement(initializer, condition, increment, body) ==
  LET loop == WhileStmt(IF condition = <<>> THEN LiteralExpr(Bool(TRUE)) ELSE condition[1], body)
  IN  IF initializer = <<>> THEN loop ELSE BlockStmt(<<initializer[1], loop>>)

Desugared(initializer, condition, increment, body) ==
  LET step == IF increment = <<>> THEN body ELSE BlockStmt(<<body, ExpressionStmt(increment[1])>>)
      loop == WhileStmt(IF condition = <<>> THEN LiteralExpr(Bool(TRUE)) ELSE condition[1], step)
  IN  IF initializer = <<>> THEN loop ELSE BlockStmt(<<initializer[1], loop>>)

ForStatement(i) ==
  Then(Rule(i, <<"LEFT_PAREN", "for_initializer">>), LAMBDA initializer :
    Then(Unless(initializer.next, "SEMICOLON", "expression"), LAMBDA condition :
      Then(Consume(condition.next, "SEMICOLON"), LAMBDA semicolon :
        Then(Unless(semicolon.next, "RIGHT_PAREN", "expression"), LAMBDA increment :
          LET body == Rule(increment.next, <<"RIGHT_PAREN", "statement">>)
          IN  Made(body, Desugared(initializer.nodes, condition.nodes, increment.nodes,
                                   body.nodes[1]))))))

ForInitializer(i) ==
  CASE Check(i, "VAR")       -> VarDeclaration(i + 1)
    [] Check(i, "SEMICOLON") -> Returns(i + 1, <<>>)
    [] OTHER                 -> Parse("expression_statement", i)

IfStatement(i) ==
  Then(Rule(i, <<"LEFT_PAREN", "expression", "RIGHT_PAREN", "statement">>), LAMBDA then :
    Then(IF Check(then.next, "ELSE") THEN Parse("statement", then.next + 1)
         ELSE Returns(then.next, <<>>), LAMBDA else :
      Made(else, IfStmt(then.nodes[1], then.nodes[2], else.nodes))))

PrintStatement(i) ==
  LET r == Rule(i, <<"expression", "SEMICOLON">>) IN Made(r, PrintStmt(r.nodes[1]))

WhileStatement(i) ==
  LET r == Rule(i, <<"LEFT_PAREN", "expression", "RIGHT_PAREN", "statement">>)
  IN  Made(r, WhileStmt(r.nodes[1], r.nodes[2]))

(* block_statement, which does not catch what a declaration throws. *)
Statements(i) ==
  IF Check(i, "RIGHT_BRACE") \/ AtEnd(i) THEN Returns(i, <<>>)
  ELSE Then(Parse("declaration", i), LAMBDA first :
         LET rest == Statements(first.next) IN [rest EXCEPT !.nodes = first.nodes \o @])

BlockStatement(i) ==
  Then(Statements(i), LAMBDA r : Made(Consume(r.next, "RIGHT_BRACE"), BlockStmt(r.nodes)))

ExpressionStatement(i) ==
  LET r == Rule(i, <<"expression", "SEMICOLON">>) IN Made(r, ExpressionStmt(r.nodes[1]))

Statement(i) ==
  CASE Check(i, "IF")         -> IfStatement(i + 1)
    [] Check(i, "FOR")        -> ForStatement(i + 1)
    [] Check(i, "PRINT")      -> PrintStatement(i + 1)
    [] Check(i, "WHILE")      -> WhileStatement(i + 1)
    [] Check(i, "RETURN")     -> ReturnStatement(i + 1)
    [] Check(i, "LEFT_BRACE") -> BlockStatement(i + 1)
    [] OTHER                  -> ExpressionStatement(i)

Declaration(i) ==
  CASE Check(i, "FUN") -> FunctionDeclaration(i + 1)
    [] Check(i, "VAR") -> VarDeclaration(i + 1)
    [] OTHER           -> Statement(i)

Parse(part, i) ==
  CASE part = "declaration"          -> Declaration(i)
    [] part = "statement"            -> Statement(i)
    [] part = "block"                -> BlockStatement(i)
    [] part = "expression_statement" -> ExpressionStatement(i)
    [] part = "for_initializer"      -> ForInitializer(i)
    [] part = "parameters"           -> Parameters(i, 0)
    [] part = "arguments"            -> Arguments(i)
    [] part = "expression"           -> Assignment(i)
    [] part = "logical_or"           -> LogicalOr(i)
    [] part = "logical_and"          -> LogicalAnd(i)
    [] part = "equality"             -> Equality(i)
    [] part = "comparison"           -> Comparison(i)
    [] part = "term"                 -> Term(i)
    [] part = "factor"               -> Factor(i)
    [] part = "unary"                -> Unary(i)
    [] part = "call"                 -> Call(i)
    [] part = "primary"              -> Primary(i)
    [] OTHER                         -> Consume(i, part)

-----------------------------------------------------------------------------
(***************************************************************************)
(* synchronize: at least one token is dropped, up to a place to go on at.  *)
(* (Fault: none is dropped where the parser can go on at once.)            *)
(***************************************************************************)
ResumesAt(j) ==
  \/ j > 1 /\ TypeAt(j - 1) = "SEMICOLON"
  \/ TypeAt(j) \in {"CLASS", "FUN", "VAR", "FOR", "IF", "WHILE", "PRINT", "RETURN"}

ResumedFrom(i) ==
  LET resume == {j \in i .. Len(tokens) : ResumesAt(j)}
  IN  IF resume = {} THEN Len(tokens) ELSE CHOOSE j \in resume : \A k \in resume : j <= k

SynchronizedInPlace(i) == ResumedFrom(i)

Synchronized(i) == ResumedFrom(i + 1)

ParserInit(b) == next = 1 /\ statements = <<>> /\ base = b

Parsed == AtEnd(next)

ParseDeclaration ==
  /\ ~Parsed
  /\ LET r == Parse("declaration", next)
     IN  /\ Ok(r)
         /\ next' = r.next
         /\ statements' = statements \o r.nodes
  /\ UNCHANGED <<base, errors>>

(* The exception ends the whole declaration, however deep it was thrown. *)
Recover ==
  /\ ~Parsed
  /\ LET r == Parse("declaration", next)
     IN  /\ ~Ok(r)
         /\ next' = Synchronized(r.next)
         /\ SetError(r.throws)
  /\ UNCHANGED <<statements, base>>

=============================================================================
