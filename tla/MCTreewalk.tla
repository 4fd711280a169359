----------------------------- MODULE MCTreewalk -----------------------------
(***************************************************************************)
(* Treewalk for TLC: the repository's tests, sources that are not          *)
(* programs, and sessions of several lines; and ResolvedPrograms.          *)
(***************************************************************************)
EXTENDS Treewalk, LoxPrograms

SomeTime == Num(7)

(* A source with these lexemes. *)
Spelled(lexemes) == FoldLeft(LAMBDA s, lexeme : s \o lexeme \o " ", "", lexemes)

(* All concatenations of at most n of the strings. *)
Concatenations(strings, n) ==
  {FoldLeft(LAMBDA s, t : s \o t, "", seq) : seq \in UNION {[1 .. k -> strings] : k \in 0 .. n}}

(* Characters that go together in more than one way. *)
Characters == Concatenations({"a", "1", ".", "=", "/", "\"", "\n"}, 4)

(* How many braces a sequence of fragments leaves open. *)
OpenBraces(seq) ==
  Len(SelectSeq(seq, LAMBDA s : s \in {"{ ", "fun f(a) { "})) - Len(SelectSeq(seq, LAMBDA s : s = "} "))

(* Functions that are called, and return or fail in blocks, with all braces closed. *)
Nestings ==
  LET fragments == {"var a = 1; ", "{ ", "} ", "fun f(a) { ", "{ return a; } ", "f(1); ", "{ x; } ", "a = f; "}
  IN  {FoldLeft(LAMBDA s, t : s \o t, "", seq \o [i \in 1 .. OpenBraces(seq) |-> "} "]) :
         seq \in {q \in UNION {[1 .. k -> fragments] : k \in 0 .. 4} :
                   \A n \in DOMAIN q : OpenBraces(SubSeq(q, 1, n)) >= 0}}

(* The numerals that these contain. *)
TreeNumbers ==
  Numbers @@ "11" :> 11 @@ "111" :> 111 @@ "1111" :> 1111 @@ "1.1" :> 1 @@ "1.11" :> 1 @@ "11.1" :> 11

(* The tests in which a scope declares a name twice: Resolver lets it be. *)
Redeclaring == {
  <<"{", "var", "a", "=", "\"value\"", ";", "var", "a", "=", "\"other\"", ";", "}">>,
  <<"fun", "foo", "(", "a", ")", "{", "var", "a", ";", "}">>}

AsOutcome(test) ==
  CASE test.source \in Redeclaring   -> "ok"
    [] test.ends = "runtime_error" -> "runtime error"
    [] OTHER                       -> test.ends

(***************************************************************************)
(* Sessions with what they print and how each line ends.  An error ends    *)
(* the innermost block or call, and a call that it ends yields nil.        *)
(***************************************************************************)
FurtherSessions == {
  [lines |-> <<"{ print 1; { x = 1; print 2; } print 3; } print 4;">>,
   prints |-> <<"1", "3", "4">>, ends |-> <<"runtime error">>],
  [lines |-> <<"fun f() { { x; } while (true) { { return 1; } } } print 1 + f(); fun g() { x; return 1; } print g();">>,
   prints |-> <<"2", "nil">>, ends |-> <<"runtime error">>],
  [lines |-> <<"var i = 0; while (i < 2) { i = i + 1; 1 + x(i); } print -\"a\"; print i;">>,
   prints |-> <<>>, ends |-> <<"runtime error">>],
  [lines |-> <<"fun f(a, a) { return a; } print f(1, 2); print clock; print clock() >= 0; f(1);">>,
   prints |-> <<"2", "<fn clock>", "true">>, ends |-> <<"runtime error">>],
  [lines |-> <<"{ var a = 1; var a = a + 1; print a; fun a() {} print a; }">>,
   prints |-> <<"2", "<fn a>">>, ends |-> <<"ok">>],
  [lines |-> <<"fun f(a, b, c, d, e, f, g, h, i, j) {} print 1;">>,
   prints |-> <<>>, ends |-> <<"parsing error">>],
  [lines |-> <<"var a = 0; { var a = a = 1; print a; } print a; { var b = b = 1; }">>,
   prints |-> <<"1", "1">>, ends |-> <<"runtime error">>],
  [lines |-> <<"for (var i = 0; i < 2; i = i + 1) i; print 1;">>, prints |-> <<"1">>, ends |-> <<"ok">>],
  [lines |-> <<"print 1;; ; print 2;">>, prints |-> <<>>, ends |-> <<"parsing error">>],
  [lines |-> <<"1 = 2; { fun ( ) { } } var = 3; print;">>, prints |-> <<>>, ends |-> <<"parsing error">>],
  \* Variables outlive the line, errors do not.
  [lines |-> <<"var a = 1;", "{ a = 2; print b; print a; }", "print a;">>,
   prints |-> <<"2">>, ends |-> <<"ok", "runtime error", "ok">>],
  [lines |-> <<"@", "print a", "return 1;", "var a = 3; // a\n print a /* 1 */;", "print a + clock();">>,
   prints |-> <<>>,
   ends |-> <<"scanning error", "parsing error", "resolving error", "parsing error", "runtime error">>],
  [lines |-> <<"fun f() { return 1; } print f() / 1 != 1 and 2 <= 1;", "print f; { var a = f; }">>,
   prints |-> <<"false", "<fn f>">>, ends |-> <<"ok", "ok">>]
}

TreeSessions ==
  {<<Spelled(test.source)>> : test \in ToSet(TestPrograms)}
    \cup {s.lines : s \in FurtherSessions} \cup {<<s>> : s \in Characters \cup Nestings}
    \cup {<<>>}

(* A function of one line is called in the next. *)
ReplSessions == {<<"fun f() { return 1; }", "f();">>}

(* The sources that are short enough for the patterns to be tried. *)
ScannedByPatterns == stage = "scan" /\ Len(source) <= 24 => CutsLongestLexemes

AsSaid(outcome, said) ==
  outcome = said \/ (said = "compile_error" /\ outcome \in {"parsing error", "resolving error"})

(***************************************************************************)
(* The tests print what their "expect" comments say, and end as they say,  *)
(* with the tree-walking interpreter too, but for the two that redeclare a *)
(* name; and Scanner gives their lexemes the types that Tokens says.       *)
(***************************************************************************)
TreeTestsPass ==
  Ended /\ session # <<>> =>
    /\ \A test \in ToSet(TestPrograms) :
         [i \in 1 .. Len(tokens) - 1 |-> tokens[i].lexeme] = test.source =>
           /\ [i \in DOMAIN tokens |-> tokens[i].type]
                = [i \in DOMAIN tokens |-> Tokenize(test.source)[i].type]
           /\ output = test.prints
           /\ AsSaid(outcomes[1], AsOutcome(test))
    /\ \A s \in FurtherSessions :
         session = s.lines => output = s.prints /\ outcomes = s.ends

-----------------------------------------------------------------------------
(***************************************************************************)
(* ResolvedPrograms for TLC: programs of a simple statement, a function or *)
(* a block, and a call, all of it in a block or not, and the call again.   *)
(***************************************************************************)
One == LiteralExpr(Num(1))

(* Statements with a variable at the address. *)
Simple(id) == {
  VarStmt("a", <<One>>),
  VarStmt("a", <<AssignExpr("a", id, One)>>),
  PrintStmt(VariableExpr("a", id)),
  ExpressionStmt(CallExpr(VariableExpr("f", id), <<One>>)),
  ReturnStmt(<<VariableExpr("a", id)>>)}

(* Two statements, at the addresses behind id. *)
Bodies(id) == {<<s, t>> : s \in Simple(id + 1), t \in Simple(id + 2)}

Functions_(bodies) == {FunctionStmt("f", <<"a">>, b) : b \in bodies}

(* A block, and functions that have their statements in a block or not. *)
Compound(id) ==
  LET blocks == {BlockStmt(b) : b \in Bodies(id)}
  IN  blocks \cup Functions_(Bodies(id)) \cup Functions_({<<b>> : b \in blocks})

Call_ == ExpressionStmt(CallExpr(VariableExpr("f", 99), <<BinaryExpr(One, "PLUS", One)>>))

(* The distances by the definition. *)
Distances(visits) ==
  LET At(v)   == {k \in DOMAIN v.scopes : v.node.name \in NamesOf(v, k)}
      inner   == {v \in visits : v.node.kind \in {"Variable", "Assign"} /\ At(v) # {}}
      Of(v)   == CHOOSE k \in At(v) : \A j \in At(v) : k <= j
  IN  FoldSet(LAMBDA v, known : known @@ (v.node.id :> Of(v) - 1), <<>>, inner)

(* Visits, and those that follow from them: the nodes are no deeper than this. *)
VisitsOf(nodes) ==
  FoldLeft(LAMBDA visits, depth : visits \cup UNION {Following(v) : v \in visits},
           InSequence(nodes, <<>>, FALSE), [depth \in 1 .. 6 |-> depth])

AsProgram(nodes) ==
  LET visits == VisitsOf(nodes)
  IN  [statements |-> nodes, locals |-> Distances(visits), visits |-> visits]

SmallPrograms ==
  {p \in {AsProgram(nodes) :
            nodes \in {<<BlockStmt(<<s, t, Call_>>)>> : s \in Simple(1), t \in Compound(10)}
                        \cup {<<s, t, Call_>> : s \in Compound(10), t \in Simple(20)}
                        \cup {<<Call_>>}} :
     IsResolved(p.statements, p.locals, p.visits)}

CONSTANT Programs

P == INSTANCE ResolvedPrograms WITH MaxPrograms <- 2, MaxEnvironments <- 8

(* These programs are run in a session without lines, each before the call. *)
RunPrograms ==
  /\ session = <<>>
  /\ IF todo # <<>> THEN P!Step
     ELSE \E p \in Programs : (program = 0 \/ p.statements = <<Call_>>) /\ P!Begin_(p)
  /\ UNCHANGED <<scanner_vars, parser_vars, runner_vars>>

-----------------------------------------------------------------------------
(***************************************************************************)
(* FairSpec for TLC, which takes too long over ENABLED <<Next>>_vars.      *)
(* `beat' changes with every step, so that a step that changes nothing     *)
(* else counts as one and is not taken for stuttering: a loop that gets    *)
(* nowhere is fair.  CanStep says when there is a step; where it says so   *)
(* wrongly there is a deadlock, which TLC reports.  (It says nothing of    *)
(* RunPrograms: of those no end is asked.)                                 *)
(***************************************************************************)
VARIABLE beat

CanStep ==
  IF stage = "line" THEN program < Len(session)
  ELSE stage = "interpret" /\ todo # <<>> => Bounded /\ ~Undefined

Beat == (Next \/ RunPrograms) /\ beat' = 1 - beat

Resting == ~CanStep /\ UNCHANGED <<vars, beat>>

PacedInit == Init /\ beat = 0

Paced ==
  /\ PacedInit
  /\ [][Beat \/ Resting]_<<vars, beat>>
  /\ []<>(~CanStep) \/ []<><<Beat>>_<<vars, beat>>

=============================================================================
