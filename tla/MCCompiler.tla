----------------------------- MODULE MCCompiler -----------------------------
(***************************************************************************)
(* Compiler for TLC: the programs it is given.                             *)
(***************************************************************************)
EXTENDS Compiler, LoxPrograms

(* All concatenations of at most n of the fragments, in any order. *)
Concatenations(fragments, n) ==
  {FlattenSeq(s) : s \in UNION {[1 .. k -> fragments] : k \in 0 .. n}}

Repeated(fragment, n) == FlattenSeq([i \in 1 .. n |-> fragment])

(* How many braces are open after the first n lexemes. *)
OpenBraces(source, n) ==
  Cardinality({i \in 1 .. n : source[i] = "{"}) - Cardinality({i \in 1 .. n : source[i] = "}"})

(* Those of the sources that close no brace they have not opened, completed. *)
Balanced(sources) ==
  {s \o Repeated(<<"}">>, OpenBraces(s, Len(s))) :
     s \in {t \in sources : \A n \in DOMAIN t : OpenBraces(t, n) >= 0}}

TestSources == {TestPrograms[i].source : i \in DOMAIN TestPrograms}

(* Blocks, functions and variables nested in every way. *)
Nestings == Balanced(Concatenations({
  <<"var", "a", "=", "1", ";">>,
  <<"{">>,
  <<"}">>,
  <<"fun", "f", "(", ")", "{">>,
  <<"fun", "g", "(", "a", ")", "{">>,
  <<"return", "a", ";">>,
  <<"a", "=", "a", ";">>}, 5))

CodeSources == TestSources \cup Nestings

(* What follows the beginning of a construct, most of it not a program. *)
Beginnings == {
  <<>>, <<"fun", "f", "(">>, <<"for", "(", "a">>, <<"a", "(", "1">>, <<"{", "var", "a">>,
  <<"if", "(", "a", ")", "{", "a">>}

BrokenSources ==
  {b \o s : b \in Beginnings,
            s \in Concatenations({<<"fun">>, <<"a">>, <<"(">>, <<")">>, <<"{">>, <<"}">>,
                                  <<";">>, <<",">>, <<"for">>, <<"=">>, <<"var">>}, 2)}

AllSources == CodeSources \cup BrokenSources

(* Programs around the limits of a chunk, for small UINT8_MAX. *)
Statements == {
  <<"print", "1", ";">>,
  <<"{", "var", "a", ";", "var", "b", ";", "var", "c", ";", "}">>,
  <<"while", "(", "a", ")", "a", ";">>,
  <<"if", "(", "a", ")", "a", "(", "1", ",", "2", ")", ";">>,
  <<"a", "(", "a", ",", "a", ",", "a", ",", "a", ")", ";">>,
  <<"fun", "f", "(", "a", ",", "b", ",", "c", ")", "{">>,
  <<"fun", "f", "(", "a", ",", "b", ",", "c", ",", "d", ")", "{">>,
  <<"var", "d", ";">>,
  <<"a", ";", "b", ";", "c", ";", "d", ";">>,
  <<"{">>,
  <<"while", "(", "true", ")", "{">>}

(* h captures the first n of the variables of f and g. *)
Capturing(n) ==
  LET Named_(i) == <<"a", "b", "c", "d", "e">>[i]
      Declared(from, to) == FlattenSeq([i \in 1 .. to - from + 1 |->
                                          <<"var", Named_(from + i - 1), ";">>])
  IN  <<"fun", "f", "(", ")", "{">> \o Declared(1, 3) \o
      <<"fun", "g", "(", ")", "{">> \o Declared(4, 5) \o
      <<"fun", "h", "(", ")", "{">> \o FlattenSeq([i \in 1 .. n |-> <<Named_(i), ";">>]) \o
      <<"}", "}", "}">>

LimitSources ==
  Balanced({prefix \o Repeated(s, n) :
              prefix \in Concatenations(Statements, 2), s \in Statements, n \in {1, 2, 4, 5}})
    \cup {Capturing(n) : n \in 0 .. 5}

(* Single programs. *)
Unimplemented == {<<"print", "1", ";", "class", "A", "{", "}">>}
ForLoop       == {<<"for", "(", ";", ";", ")", "1", ";">>}

-----------------------------------------------------------------------------
(***************************************************************************)
(* FairSpec for TLC, which takes too long over ENABLED <<Next>>_vars.      *)
(* `beat' changes with every step, so that a step that changes nothing     *)
(* else counts as one and is not taken for stuttering: a loop that gets    *)
(* nowhere is fair.  CanStep says when there is a step; where it says so   *)
(* wrongly there is a deadlock, which TLC reports.                         *)
(***************************************************************************)
VARIABLE beat

CanStep == ~Done /\ Bounded

Beat == Next /\ beat' = 1 - beat

Resting == ~CanStep /\ UNCHANGED <<vars, beat>>

PacedInit == Init /\ beat = 0

Paced ==
  /\ PacedInit
  /\ [][Beat \/ Resting]_<<vars, beat>>
  /\ []<>(~CanStep) \/ []<><<Beat>>_<<vars, beat>>

=============================================================================
