------------------------------- MODULE MCLox -------------------------------
(***************************************************************************)
(* Lox for TLC: the repository's tests and programs made of fragments.     *)
(***************************************************************************)
EXTENDS Lox, LoxPrograms

Concatenations(fragments, n) ==
  {FlattenSeq(s) : s \in UNION {[1 .. k -> fragments] : k \in 0 .. n}}

Repeated(fragment, n) == FlattenSeq([i \in 1 .. n |-> fragment])

(* How many braces are open after the first n lexemes. *)
OpenBraces(source, n) ==
  Cardinality({i \in 1 .. n : source[i] = "{"}) - Cardinality({i \in 1 .. n : source[i] = "}"})

(* Those of the sources that close no brace they have not opened, completed. *)
Balanced(sources) ==
  {s \o Repeated(<<"}">>, OpenBraces(s, Len(s))) :
     s \in {t \in sources : \A n \in DOMAIN t : OpenBraces(t, n) >= 0}}

(***************************************************************************)
(* What the tests leave out: closures that share a variable which has left *)
(* its scope, a native function, a call too deep, an error in front of a   *)
(* function without one, and an assignment to what is not initialized yet. *)
(***************************************************************************)
FurtherPrograms == <<
  [source |-> <<
     "var", "f", ";", "var", "g", ";",
     "{", "var", "a", "=", "1", ";",
       "fun", "set", "(", ")", "{", "a", "=", "2", ";", "}",
       "fun", "get", "(", ")", "{", "return", "a", ";", "}",
       "f", "=", "set", ";", "g", "=", "get", ";", "}",
     "f", "(", ")", ";", "print", "g", "(", ")", ";">>,
   prints |-> <<"2">>, ends |-> "ok"],
  [source |-> <<"print", "clock", ";", "print", "clock", "(", "1", ")", "==", "0", ";">>,
   prints |-> <<"<native fn>", "false">>, ends |-> "ok"],
  [source |-> <<
     "fun", "f", "(", "a", ")", "{",
       "if", "(", "a", ">=", "123", ")", "print", "a", ";", "f", "(", "a", "+", "1", ")", ";", "}",
     "f", "(", "0", ")", ";">>,
   prints |-> [i \in 1 .. MAX_CALLSTACK_DEPTH - 124 |-> ToString(122 + i)],
   ends |-> "runtime_error"],
  [source |-> <<
     "print", "1", ";",
     "{", "var", "a", ";", "var", "a", ";", "fun", "f", "(", ")", "{", "}", "}">>,
   prints |-> <<>>, ends |-> "compile_error"],
  [source |-> <<"{", "var", "a", "=", "a", "=", "1", ";", "print", "a", ";", "}">>,
   prints |-> <<>>, ends |-> "compile_error"]
>>

AllPrograms == TestPrograms \o FurtherPrograms

TestSources == {AllPrograms[i].source : i \in DOMAIN AllPrograms}

(* Functions that are defined and called in blocks and in each other. *)
Nestings == Balanced(Concatenations({
  <<"var", "a", "=", "1", ";">>,
  <<"{">>,
  <<"}">>,
  <<"fun", "f", "(", ")", "{">>,
  <<"print", "a", ";", "a", "=", "a", "+", "1", ";">>,
  <<"f", "(", ")", ";">>}, 5))

(***************************************************************************)
(* Runtime errors behind a loop: the message looks up a line behind the    *)
(* end of the line table, or finds one in it.                              *)
(***************************************************************************)
LateErrors ==
  LET loop  == <<"while", "(", "false", ")", "1", ";">>
      error == <<"-", "\"c\"", ";">>
  IN  {loop \o error, loop \o loop \o error, loop \o loop \o error \o <<"print", "1", ";">>,
       <<"fun", "f", "(", ")", "{">> \o loop \o loop \o error \o <<"}", "f", "(", ")", ";">>}

CodeSources == TestSources \cup Nestings \cup LateErrors

(* A file each, and the same text typed at the prompt, with a line break anywhere. *)
Files(sources) == {<<s>> : s \in sources}

Broken(source) == {<<SubSeq(source, 1, n), SubSeq(source, n + 1, Len(source))>> :
                     n \in 1 .. Len(source) - 1}

TestFiles == Files(TestSources)

Short == {s \in TestSources : Len(s) \in 2 .. 20}

PromptSessions == UNION {Broken(s) : s \in Short}

TestSessions == Files(TestSources \ Short) \cup PromptSessions

(* h captures four variables: as many as upvalues fit into a byte of two bits. *)
FourUpvalues == {<<<<
  "fun", "f", "(", ")", "{", "var", "a", ";", "var", "b", ";",
    "fun", "g", "(", ")", "{", "var", "c", ";", "var", "d", ";",
      "fun", "h", "(", ")", "{", "a", ";", "b", ";", "c", ";", "d", ";", "}",
    "}", "g", "(", ")", ";",
  "}", "f", "(", ")", ";">>>>}

(* What the tests say of a program of theirs. *)
AsExpected(program) == output = program.prints /\ Outcome = program.ends

(***************************************************************************)
(* Every test prints what its "expect" comments say, and ends as they say: *)
(* a program with an error is not run at all.                              *)
(***************************************************************************)
TestsPass ==
  Ended => LET source == Lexemes
           IN  \A i \in DOMAIN AllPrograms :
                 source = AllPrograms[i].source => AsExpected(AllPrograms[i])

(***************************************************************************)
(* The limits of a chunk never change what a program does: it is rejected  *)
(* before it has printed anything, or it does what it does without them.   *)
(***************************************************************************)
LimitsOnlyReject ==
  Ended => LET source == Lexemes
           IN  \A i \in DOMAIN AllPrograms :
                 source = AllPrograms[i].source =>
                   \/ AsExpected(AllPrograms[i])
                   \/ Outcome = "compile_error" /\ output = <<>>

(***************************************************************************)
(* "locals, upvalues.size() can be 256 at most" (Compiler.h:246-247): a    *)
(* function with no more upvalues than that can be closed over.            *)
(***************************************************************************)
AllowedUpvaluesWork ==
  (\A f \in DOMAIN functions : functions[f].upvalue_count <= UINT8_MAX + 1) => InstructionsDefined

=============================================================================
