--------------------------- MODULE CompilerProofs ---------------------------
(***************************************************************************)
(* What the procedures of Compiler do to its state, one lemma or two for   *)
(* each.  Base is the part of the inductive invariant that every procedure *)
(* keeps, at every point between two calls of others: the types, the       *)
(* limits of one byte, the chain of compilers and the upvalues that        *)
(* resolve.  A procedure that Keeps a state also leaves all scopes and     *)
(* locals, and stays within the text.                                      *)
(***************************************************************************)
EXTENDS Compiler, SequenceFacts

-----------------------------------------------------------------------------
(* Types *)

(* The attributes of Compiler, Local, Upvalue and Function (Bytecode/Compiler.h, Function.h). *)
LocalType == [name : Lexeme, depth : Int, ready : BOOLEAN, is_captured : BOOLEAN]

UpvalueType == [index : 0 .. UINT8_MAX, is_local : BOOLEAN]

CompilerType ==
  [function : Nat, locals : Seq(LocalType), upvalues : Seq(UpvalueType),
   current : Nat, previous : Nat, had_error : BOOLEAN, panic_mode : BOOLEAN,
   scope_depth : Nat]

(* What a chunk contains. *)
Byte == 0 .. UINT8_MAX \cup {Code[op] : op \in OpCode}

(* The constants of a chunk: literals, names of globals, and functions. *)
ConstantType ==
  {Num(NumberValue[l]) : l \in DOMAIN NumberValue}
    \cup {Str(x) : x \in Lexeme \cup {StringValue[l] : l \in DOMAIN StringValue}}
    \cup [fun : Nat]

FunctionType ==
  [name : Lexeme \cup {"script"}, arity : 0 .. UINT8_MAX, upvalue_count : Nat, code : Seq(Byte),
   lines : Nat, constants : Seq(ConstantType)]

-----------------------------------------------------------------------------
(* What may wait in `work'. *)

(* Calls that make expressions, and do not touch scopes. *)
ExpressionCall ==
  [do : {"parse_precedence", "infix"}, precedence : ASSIGNMENT .. CALL + 1]
    \cup [do : {"argument", "next_argument", "end_call"}, count : 0 .. UINT8_MAX]
    \cup [do : {"patch_jump"}, jump : Nat]
    \cup [do : {"emit"}, bytes : Seq(Byte)]
    \cup [do : {"consume"}, type : {"SEMICOLON", "LEFT_PAREN", "RIGHT_PAREN"}]

(* The jump out of a loop, if there is one. *)
Exits == {exit \in Seq(Nat) : Len(exit) <= 1}

(* Calls that leave scopes as they have found them. *)
StatementCall ==
  [do : {"declaration", "var_declaration", "parameter", "function_body", "statement",
         "expression_statement", "block", "if_then", "for_statement", "return_statement"}]
    \cup [do : {"synchronize"}, from : Nat]
    \cup [do : {"if_else"}, jump : Nat]
    \cup [do : {"while_body"}, start : Nat]
    \cup [do : {"end_loop"}, start : Nat, exit : Exits]

(* Calls that leave a scope, or will call end_scope. *)
ClosingCall ==
  [do : {"end_scope", "for_condition"}]
    \cup [do : {"for_exit"}, start : Nat]
    \cup [do : {"for_increment", "for_body"}, start : Nat, exit : Exits]
    \cup [do : {"for_resume"}, start : Nat, exit : Exits, jump : Nat, increment : Nat]

(* The calls that make a function: the last restores the enclosing compiler. *)
BeginFunction == [do : {"function_declaration"}]
EndFunction   == [do : {"end_function"}, index : 0 .. UINT8_MAX]
(* The call that ends the declaration of a variable. *)
Define        == [do : {"define_variable"}, index : 0 .. UINT8_MAX]
(* The loop of compile(), and its end. *)
Outermost     == [do : {"compile", "end_compiler"}]

(* All calls. *)
CallType ==
  ExpressionCall \cup StatementCall \cup ClosingCall \cup BeginFunction \cup EndFunction
    \cup Define \cup Outermost

(* The state as the procedures of Compiler take and return it. *)
IsState(s) ==
  s \in [compilers : Seq(CompilerType), functions : Seq(FunctionType),
         errors : {s.errors}, work : Seq(CallType)]

(* The state with another function or compiler in the place of one. *)
WithFunction(s, f, g) == [s EXCEPT !.functions = [s.functions EXCEPT ![f] = g]]

WithCompiler(s, k, c) == [s EXCEPT !.compilers = [s.compilers EXCEPT ![k] = c]]

(* Another object for one function changes that function only. *)
LEMMA WithFunctionFacts ==
  ASSUME NEW s, IsState(s), NEW f \in DOMAIN s.functions, NEW g \in FunctionType
  PROVE  /\ IsState(WithFunction(s, f, g))
         /\ WithFunction(s, f, g).compilers = s.compilers
         /\ WithFunction(s, f, g).errors = s.errors
         /\ WithFunction(s, f, g).work = s.work
         /\ Len(WithFunction(s, f, g).functions) = Len(s.functions)
         /\ DOMAIN WithFunction(s, f, g).functions = DOMAIN s.functions
         /\ \A j \in DOMAIN s.functions :
              WithFunction(s, f, g).functions[j] = IF j = f THEN g ELSE s.functions[j]
<1>1. s.functions \in Seq(FunctionType) /\ DOMAIN s.functions = 1 .. Len(s.functions)
  BY DEF IsState
<1> DEFINE new == [s.functions EXCEPT ![f] = g]
<1>2. /\ new \in Seq(FunctionType) /\ Len(new) = Len(s.functions)
      /\ \A j \in 1 .. Len(s.functions) : new[j] = IF j = f THEN g ELSE s.functions[j]
  BY <1>1, ExceptSeq
<1>3. DOMAIN new = DOMAIN s.functions
  OBVIOUS
<1> HIDE DEF new
<1>4. WithFunction(s, f, g) = [s EXCEPT !.functions = new]
  BY DEF WithFunction, new
<1> QED
  BY <1>1, <1>2, <1>3, <1>4 DEF IsState

(* Another object for one compiler changes that compiler only. *)
LEMMA WithCompilerFacts ==
  ASSUME NEW s, IsState(s), NEW k \in DOMAIN s.compilers, NEW c \in CompilerType
  PROVE  /\ IsState(WithCompiler(s, k, c))
         /\ WithCompiler(s, k, c).functions = s.functions
         /\ WithCompiler(s, k, c).errors = s.errors
         /\ WithCompiler(s, k, c).work = s.work
         /\ Len(WithCompiler(s, k, c).compilers) = Len(s.compilers)
         /\ DOMAIN WithCompiler(s, k, c).compilers = DOMAIN s.compilers
         /\ \A j \in DOMAIN s.compilers :
              WithCompiler(s, k, c).compilers[j] = IF j = k THEN c ELSE s.compilers[j]
<1>1. s.compilers \in Seq(CompilerType) /\ DOMAIN s.compilers = 1 .. Len(s.compilers)
  BY DEF IsState
<1> DEFINE new == [s.compilers EXCEPT ![k] = c]
<1>2. /\ new \in Seq(CompilerType) /\ Len(new) = Len(s.compilers)
      /\ \A j \in 1 .. Len(s.compilers) : new[j] = IF j = k THEN c ELSE s.compilers[j]
  BY <1>1, ExceptSeq
<1>3. DOMAIN new = DOMAIN s.compilers
  OBVIOUS
<1> HIDE DEF new
<1>4. WithCompiler(s, k, c) = [s EXCEPT !.compilers = new]
  BY DEF WithCompiler, new
<1> QED
  BY <1>1, <1>2, <1>3, <1>4 DEF IsState

-----------------------------------------------------------------------------
(* An upvalue is a captured local of the next function out, or one of its upvalues. *)
UpvalueResolves(outer, uv) ==
  IF uv.is_local THEN uv.index < Len(outer.locals) /\ outer.locals[uv.index + 1].is_captured
  ELSE uv.index < Len(outer.upvalues)

(* Only the local that nobody can name is at depth 0; one that is not defined yet is at depth
   -1. *)
DepthOk(i, depth) == IF i = 1 THEN depth = 0 ELSE depth >= 1 \/ depth = -1

(* In a scope, a variable has been declared. *)
Declared(c) == c.scope_depth > 0 => Len(c.locals) >= 2

(* A compiler agrees with its function, stays within the limits and knows of its errors. *)
CompilerOk(s, k) ==
  LET c == s.compilers[k]
  IN  /\ c.function \in DOMAIN s.functions
      /\ Len(c.upvalues) = s.functions[c.function].upvalue_count
      /\ Len(c.locals) \in 1 .. UINT8_MAX + 1
      /\ \A i \in DOMAIN c.locals : DepthOk(i, c.locals[i].depth)
      /\ c.scope_depth = 0 => Len(c.locals) = 1
      /\ c.panic_mode \/ c.had_error => s.errors # {}
      /\ k < Len(s.compilers) => Declared(c)
      /\ \A j \in 1 .. k - 1 : s.compilers[j].function < c.function

(* A function stays within the limits unless an error is reported, and its constants exist. *)
FunctionOk(s, f) ==
  /\ s.errors = {} => /\ Len(s.functions[f].constants) <= UINT8_MAX + 1
                      /\ s.functions[f].upvalue_count <= UINT8_MAX + 1
  /\ \A i \in DOMAIN s.functions[f].constants :
       IsConstant(s.functions, s.functions[f].constants[i])

(* All upvalues resolve, unless an error is reported. *)
Resolved(s) ==
  s.errors = {} =>
    \A k \in 2 .. Len(s.compilers) : \A i \in DOMAIN s.compilers[k].upvalues :
      UpvalueResolves(s.compilers[k - 1], s.compilers[k].upvalues[i])

(* What every procedure keeps. *)
Base(s) ==
  /\ IsState(s)
  /\ s.compilers # <<>>
  /\ \A k \in DOMAIN s.compilers : CompilerOk(s, k)
  /\ \A f \in DOMAIN s.functions : FunctionOk(s, f)
  /\ Resolved(s)

(* The same compilers, with the same scopes and locals. *)
SameScopes(s, t) ==
  /\ Len(t.compilers) = Len(s.compilers)
  /\ \A k \in DOMAIN s.compilers :
       /\ t.compilers[k].scope_depth = s.compilers[k].scope_depth
       /\ Len(t.compilers[k].locals) = Len(s.compilers[k].locals)
       /\ \A i \in DOMAIN s.compilers[k].locals :
            t.compilers[k].locals[i].depth = s.compilers[k].locals[i].depth

(* The compiler stands at a token. *)
InText(s) ==
  /\ This(s).current \in 1 .. Len(tokens)
  /\ This(s).previous \in 1 .. Len(tokens)

(* What a procedure does that neither enters or leaves scopes nor declares variables. *)
Keeps(s, t) ==
  /\ Base(t)
  /\ t.work = s.work
  /\ SameScopes(s, t)
  /\ InText(s) => InText(t)
  /\ This(s).current <= This(t).current

(* The types that Base says of the innermost compiler, its function and the others. *)
LEMMA BaseFacts ==
  ASSUME NEW s, Base(s)
  PROVE  /\ IsState(s)
         /\ s.compilers \in Seq(CompilerType) /\ s.functions \in Seq(FunctionType)
         /\ DOMAIN s.compilers = 1 .. Len(s.compilers)
         /\ DOMAIN s.functions = 1 .. Len(s.functions)
         /\ Len(s.functions) \in Nat
         /\ Me(s) = Len(s.compilers)
         /\ Me(s) \in Nat \ {0}
         /\ Me(s) \in DOMAIN s.compilers
         /\ This(s) = s.compilers[Me(s)]
         /\ \A k \in DOMAIN s.compilers :
              /\ s.compilers[k] \in CompilerType
              /\ s.compilers[k].function \in DOMAIN s.functions
              /\ s.functions[s.compilers[k].function] \in FunctionType
         /\ This(s) \in CompilerType
         /\ This(s).function \in DOMAIN s.functions
         /\ Function(s) = s.functions[This(s).function]
         /\ Function(s) \in FunctionType
<1>1. /\ IsState(s)
      /\ s.compilers \in Seq(CompilerType) /\ s.functions \in Seq(FunctionType)
  BY DEF Base, IsState
<1>2. /\ DOMAIN s.compilers = 1 .. Len(s.compilers)
      /\ DOMAIN s.functions = 1 .. Len(s.functions)
      /\ Len(s.functions) \in Nat /\ Len(s.compilers) \in Nat
  BY <1>1
<1>3. Len(s.compilers) # 0
  BY <1>1, EmptySeq DEF Base
<1>4. Me(s) \in Nat \ {0} /\ Me(s) \in DOMAIN s.compilers /\ This(s) = s.compilers[Me(s)] /\ Me(s) = Len(s.compilers)
  BY <1>2, <1>3 DEF Me, This
<1>5. \A k \in DOMAIN s.compilers :
              /\ s.compilers[k] \in CompilerType
              /\ s.compilers[k].function \in DOMAIN s.functions
              /\ s.functions[s.compilers[k].function] \in FunctionType
  BY <1>1, <1>2 DEF Base, CompilerOk
<1> QED
  BY <1>1, <1>2, <1>4, <1>5 DEF Function

(* A procedure that does nothing keeps everything. *)
LEMMA KeepsReflexive ==
  ASSUME NEW s, Base(s)
  PROVE  Keeps(s, s)
<1>1. This(s).current \in Nat
  BY BaseFacts DEF CompilerType
<1> QED
  BY <1>1 DEF Keeps, SameScopes

(* What two procedures keep, their sequence keeps. *)
LEMMA KeepsTransitive ==
  ASSUME NEW s, Base(s), NEW t, NEW u, Keeps(s, t), Keeps(t, u)
  PROVE  Keeps(s, u)
<1>1. Base(t) /\ Base(u)
  BY DEF Keeps
<1>2. /\ This(s).current \in Nat /\ This(t).current \in Nat /\ This(u).current \in Nat
  BY <1>1, BaseFacts DEF CompilerType
<1>3. DOMAIN s.compilers = 1 .. Len(s.compilers) /\ DOMAIN t.compilers = 1 .. Len(t.compilers)
  BY <1>1, BaseFacts
<1>4. SameScopes(s, u)
  <2>1. Len(t.compilers) = Len(s.compilers) /\ Len(u.compilers) = Len(t.compilers)
    BY DEF Keeps, SameScopes
  <2>2. ASSUME NEW k \in DOMAIN s.compilers
        PROVE  /\ u.compilers[k].scope_depth = s.compilers[k].scope_depth
               /\ Len(u.compilers[k].locals) = Len(s.compilers[k].locals)
               /\ \A i \in DOMAIN s.compilers[k].locals :
                    u.compilers[k].locals[i].depth = s.compilers[k].locals[i].depth
    <3>1. k \in DOMAIN t.compilers
      BY <1>3, <2>1
    <3>2. s.compilers[k].locals \in Seq(LocalType) /\ t.compilers[k].locals \in Seq(LocalType)
      BY <1>1, <3>1, BaseFacts DEF CompilerType
    <3>3. DOMAIN s.compilers[k].locals = DOMAIN t.compilers[k].locals
      BY <3>1, <3>2 DEF Keeps, SameScopes
    <3> QED
      BY <3>1, <3>3 DEF Keeps, SameScopes
  <2> QED
    BY <2>1, <2>2 DEF SameScopes
<1> QED
  BY <1>1, <1>2, <1>4 DEF Keeps

(* A constant remains one when functions are added. *)
LEMMA ConstantsStay ==
  ASSUME NEW fs, NEW gs, DOMAIN fs \subseteq DOMAIN gs, NEW v, IsConstant(fs, v)
  PROVE  IsConstant(gs, v)
BY DEF IsConstant

(* A function changes its code, or gets another constant. *)
LEMMA FunctionChange ==
  ASSUME NEW s, Base(s), NEW f \in DOMAIN s.functions, NEW g \in FunctionType,
         g.upvalue_count = s.functions[f].upvalue_count,
         s.errors = {} => Len(g.constants) <= UINT8_MAX + 1,
         \A i \in DOMAIN g.constants : IsConstant(s.functions, g.constants[i])
  PROVE  Keeps(s, WithFunction(s, f, g)) /\ This(WithFunction(s, f, g)) = This(s)
<1> DEFINE t == WithFunction(s, f, g)
<1>1. /\ IsState(t)
      /\ t.compilers = s.compilers
      /\ t.errors = s.errors
      /\ t.work = s.work
      /\ DOMAIN t.functions = DOMAIN s.functions
      /\ \A j \in DOMAIN s.functions : t.functions[j] = IF j = f THEN g ELSE s.functions[j]
  BY BaseFacts, WithFunctionFacts
<1> HIDE DEF t
<1>2. \A j \in DOMAIN s.functions : t.functions[j].upvalue_count = s.functions[j].upvalue_count
  BY <1>1
<1>3. ASSUME NEW k \in DOMAIN t.compilers PROVE CompilerOk(t, k)
  BY <1>1, <1>2 DEF Base, CompilerOk
<1>4. ASSUME NEW j \in DOMAIN t.functions PROVE FunctionOk(t, j)
  <2>1. FunctionOk(s, j)
    BY <1>1 DEF Base
  <2>2. CASE j = f
    <3>1. t.functions[j] = g
      BY <1>1, <2>2
    <3>2. \A i \in DOMAIN g.constants : IsConstant(t.functions, g.constants[i])
      BY <1>1, ConstantsStay
    <3>3. s.errors = {} => g.upvalue_count <= UINT8_MAX + 1
      BY <2>1, <2>2 DEF FunctionOk
    <3> QED
      BY <1>1, <3>1, <3>2, <3>3 DEF FunctionOk
  <2>3. CASE j # f
    <3>1. t.functions[j] = s.functions[j]
      BY <1>1, <2>3
    <3>2. \A i \in DOMAIN s.functions[j].constants : IsConstant(t.functions, s.functions[j].constants[i])
      BY <1>1, <2>1, ConstantsStay DEF FunctionOk
    <3> QED
      BY <1>1, <2>1, <3>1, <3>2 DEF FunctionOk
  <2> QED
    BY <2>2, <2>3
<1>5. Resolved(t)
  BY <1>1 DEF Base, Resolved
<1>6. This(t) = This(s)
  BY <1>1 DEF This, Me
<1>7. Base(t)
  BY <1>1, <1>3, <1>4, <1>5 DEF Base
<1>8. This(s).current \in Nat
  BY BaseFacts DEF CompilerType
<1>9. SameScopes(s, t)
  BY <1>1 DEF SameScopes
<1>10. Keeps(s, t)
  BY <1>1, <1>6, <1>7, <1>8, <1>9 DEF Keeps, InText
<1> QED
  BY <1>6, <1>10 DEF t

(* A compiler changes its place, its flags or what is known of its locals. *)
LEMMA CompilerChange ==
  ASSUME NEW s, Base(s), NEW k \in DOMAIN s.compilers, NEW c \in CompilerType,
         c.function = s.compilers[k].function,
         c.scope_depth = s.compilers[k].scope_depth,
         c.upvalues = s.compilers[k].upvalues,
         Len(c.locals) = Len(s.compilers[k].locals),
         \A i \in DOMAIN c.locals : /\ c.locals[i].depth = s.compilers[k].locals[i].depth
                                    /\ s.compilers[k].locals[i].is_captured => c.locals[i].is_captured,
         c.panic_mode \/ c.had_error => s.errors # {}
  PROVE  /\ Base(WithCompiler(s, k, c))
         /\ WithCompiler(s, k, c).work = s.work
         /\ SameScopes(s, WithCompiler(s, k, c))
         /\ This(WithCompiler(s, k, c)) = IF k = Me(s) THEN c ELSE This(s)
<1> DEFINE t == WithCompiler(s, k, c)
<1>1. /\ IsState(t)
      /\ t.functions = s.functions
      /\ t.errors = s.errors
      /\ t.work = s.work
      /\ Len(t.compilers) = Len(s.compilers)
      /\ DOMAIN t.compilers = DOMAIN s.compilers
      /\ \A j \in DOMAIN s.compilers : t.compilers[j] = IF j = k THEN c ELSE s.compilers[j]
  BY BaseFacts, WithCompilerFacts
<1> HIDE DEF t
<1>0. /\ DOMAIN s.compilers = 1 .. Len(s.compilers) /\ Len(s.compilers) \in Nat
      /\ DOMAIN s.compilers[k].locals = DOMAIN c.locals
  <2>1. s.compilers[k] \in CompilerType
    BY BaseFacts
  <2>2. DOMAIN s.compilers[k].locals = 1 .. Len(s.compilers[k].locals) /\ DOMAIN c.locals = 1 .. Len(c.locals)
    BY <2>1 DEF CompilerType
  <2> QED
    BY <2>2, BaseFacts
<1>2. \A j \in DOMAIN s.compilers : t.compilers[j].function = s.compilers[j].function
  BY <1>1
<1>3. ASSUME NEW j \in DOMAIN t.compilers PROVE CompilerOk(t, j)
  <2>1. CompilerOk(s, j) /\ j \in DOMAIN s.compilers
    BY <1>1 DEF Base
  <2>2. \A i \in 1 .. j - 1 : t.compilers[i].function < t.compilers[j].function
    <3> TAKE i \in 1 .. j - 1
    <3>1. i \in DOMAIN s.compilers
      BY <1>0, <2>1
    <3> QED
      BY <1>2, <2>1, <3>1 DEF CompilerOk
  <2>3. CASE j = k
    <3>1. t.compilers[j] = c
      BY <1>1, <2>3
    <3> QED
      BY <1>0, <1>1, <2>1, <2>2, <2>3, <3>1 DEF CompilerOk, Declared
  <2>4. CASE j # k
    <3>1. t.compilers[j] = s.compilers[j]
      BY <1>1, <2>1, <2>4
    <3> QED
      BY <1>1, <2>1, <2>2, <3>1 DEF CompilerOk
  <2> QED
    BY <2>3, <2>4
<1>4. ASSUME NEW j \in DOMAIN t.functions PROVE FunctionOk(t, j)
  BY <1>1 DEF Base, FunctionOk
<1>5. Resolved(t)
  <2> SUFFICES ASSUME s.errors = {}, NEW j \in 2 .. Len(s.compilers), NEW i \in DOMAIN t.compilers[j].upvalues
               PROVE  UpvalueResolves(t.compilers[j - 1], t.compilers[j].upvalues[i])
    BY <1>1 DEF Resolved
  <2>1. j \in DOMAIN s.compilers /\ j - 1 \in DOMAIN s.compilers
    BY <1>0
  <2>2. t.compilers[j].upvalues = s.compilers[j].upvalues
    BY <1>1, <2>1
  <2> DEFINE uv == s.compilers[j].upvalues[i]
  <2>3. UpvalueResolves(s.compilers[j - 1], uv)
    BY <2>2 DEF Base, Resolved
  <2>4. CASE j - 1 # k
    BY <1>1, <2>1, <2>2, <2>3, <2>4
  <2>5. CASE j - 1 = k
    <3>1. t.compilers[j - 1] = c
      BY <1>1, <2>1, <2>5
    <3>2. ~uv.is_local => UpvalueResolves(c, uv)
      BY <2>3, <2>5 DEF UpvalueResolves
    <3>3. ASSUME uv.is_local PROVE UpvalueResolves(c, uv)
      <4>1. uv.index < Len(s.compilers[k].locals) /\ s.compilers[k].locals[uv.index + 1].is_captured
        BY <2>3, <2>5, <3>3 DEF UpvalueResolves
      <4>2. uv \in UpvalueType
        <5>1. s.compilers[j].upvalues \in Seq(UpvalueType)
          BY <2>1, BaseFacts DEF CompilerType
        <5> QED
          BY <2>2, <5>1
      <4>3. uv.index + 1 \in DOMAIN c.locals
        <5>1. uv.index \in Nat
          BY <4>2 DEF UpvalueType
        <5>2. DOMAIN c.locals = 1 .. Len(c.locals) /\ Len(c.locals) \in Nat
          BY DEF CompilerType
        <5> HIDE DEF uv
        <5> QED
          BY <4>1, <5>1, <5>2
      <4>4. c.locals[uv.index + 1].is_captured
        BY <4>1, <4>3
      <4> QED
        BY <3>3, <4>1, <4>4 DEF UpvalueResolves
    <3> QED
      BY <2>2, <3>1, <3>2, <3>3
  <2> QED
    BY <2>4, <2>5
<1>6. Base(t)
  <2>1. t.compilers # <<>>
    BY <1>0, <1>1 DEF Base
  <2> QED
    BY <1>1, <1>3, <1>4, <1>5, <2>1 DEF Base
<1>7. This(t) = IF k = Me(s) THEN c ELSE This(s)
  BY <1>1, BaseFacts DEF This, Me
<1>8. SameScopes(s, t)
  BY <1>0, <1>1 DEF SameScopes
<1>9. Base(t) /\ t.work = s.work /\ SameScopes(s, t) /\ This(t) = IF k = Me(s) THEN c ELSE This(s)
  BY <1>1, <1>6, <1>7, <1>8
<1> QED
  BY <1>9 DEF t

(* The same, when the place stays or advances within the text. *)
LEMMA CompilerKeeps ==
  ASSUME NEW s, Base(s), NEW k \in DOMAIN s.compilers, NEW c \in CompilerType,
         c.function = s.compilers[k].function,
         c.scope_depth = s.compilers[k].scope_depth,
         c.upvalues = s.compilers[k].upvalues,
         Len(c.locals) = Len(s.compilers[k].locals),
         \A i \in DOMAIN c.locals : /\ c.locals[i].depth = s.compilers[k].locals[i].depth
                                    /\ s.compilers[k].locals[i].is_captured => c.locals[i].is_captured,
         c.panic_mode \/ c.had_error => s.errors # {},
         \/ /\ c.current = s.compilers[k].current
            /\ c.previous = s.compilers[k].previous
         \/ /\ s.compilers[k].current <= c.current
            /\ c.current \in 1 .. Len(tokens)
            /\ c.previous \in 1 .. Len(tokens)
  PROVE  Keeps(s, WithCompiler(s, k, c))
<1> DEFINE t == WithCompiler(s, k, c)
<1>1. /\ Base(t)
      /\ t.work = s.work
      /\ SameScopes(s, t)
      /\ This(t) = IF k = Me(s) THEN c ELSE This(s)
  BY CompilerChange
<1> HIDE DEF t
<1>2. This(s).current \in Nat /\ This(s) = s.compilers[Me(s)]
  BY BaseFacts DEF CompilerType
<1>3. InText(s) => InText(t)
  BY <1>1, <1>2 DEF InText
<1>4. This(s).current <= This(t).current
  BY <1>1, <1>2
<1>5. Keeps(s, t)
  BY <1>1, <1>3, <1>4 DEF Keeps
<1> QED
  BY <1>5 DEF t

(* Another error is reported. *)
LEMMA ErrorsChange ==
  ASSUME NEW s, Base(s), NEW E, E # {}
  PROVE  Keeps(s, [s EXCEPT !.errors = E])
<1> DEFINE t == [s EXCEPT !.errors = E]
<1>1. /\ IsState(t)
      /\ t.compilers = s.compilers /\ t.functions = s.functions /\ t.errors = E /\ t.work = s.work
  <2>0. IsState(s)
    BY BaseFacts
  <2>1. /\ t.compilers = s.compilers /\ t.functions = s.functions /\ t.errors = E /\ t.work = s.work
    BY <2>0 DEF IsState
  <2>2. t \in [compilers : Seq(CompilerType), functions : Seq(FunctionType),
               errors : {E}, work : Seq(CallType)]
    BY <2>0 DEF IsState
  <2> HIDE DEF t
  <2> QED
    BY <2>1, <2>2 DEF IsState
<1> HIDE DEF t
<1>2. ASSUME NEW k \in DOMAIN t.compilers PROVE CompilerOk(t, k)
  BY <1>1 DEF Base, CompilerOk
<1>3. ASSUME NEW j \in DOMAIN t.functions PROVE FunctionOk(t, j)
  BY <1>1 DEF Base, FunctionOk
<1>4. Base(t)
  BY <1>1, <1>2, <1>3 DEF Base, Resolved
<1>5. This(t) = This(s)
  BY <1>1 DEF This, Me
<1>6. This(s).current \in Nat
  BY BaseFacts DEF CompilerType
<1>7. SameScopes(s, t)
  BY <1>1 DEF SameScopes
<1>8. Keeps(s, t)
  BY <1>1, <1>4, <1>5, <1>6, <1>7 DEF Keeps, InText
<1> QED
  BY <1>8 DEF t

(* What reporting an error leaves alone. *)
OnlyFlags(s, t) ==
  /\ t.functions = s.functions
  /\ \A j \in DOMAIN s.compilers :
       /\ t.compilers[j].function = s.compilers[j].function
       /\ t.compilers[j].locals = s.compilers[j].locals
       /\ t.compilers[j].upvalues = s.compilers[j].upvalues
       /\ t.compilers[j].current = s.compilers[j].current
       /\ t.compilers[j].previous = s.compilers[j].previous
       /\ t.compilers[j].scope_depth = s.compilers[j].scope_depth

(* error_at leaves a state in which an error is known. *)
LEMMA ErrorAtFacts ==
  ASSUME NEW s, Base(s), NEW k \in DOMAIN s.compilers, NEW at, NEW msg
  PROVE  /\ Keeps(s, ErrorAt(s, k, at, msg))
         /\ ErrorAt(s, k, at, msg).errors # {}
         /\ OnlyFlags(s, ErrorAt(s, k, at, msg))
<1>0. IsState(s) /\ CompilerOk(s, k) /\ s.compilers[k] \in CompilerType
  BY BaseFacts DEF Base
<1>1. CASE s.compilers[k].panic_mode
  <2>1. ErrorAt(s, k, at, msg) = s
    BY <1>1 DEF ErrorAt
  <2>2. s.errors # {}
    BY <1>0, <1>1 DEF CompilerOk
  <2>3. OnlyFlags(s, s)
    BY DEF OnlyFlags
  <2> QED
    BY <2>1, <2>2, <2>3, KeepsReflexive
<1>2. CASE ~s.compilers[k].panic_mode
  <2> DEFINE E == s.errors \cup {[at |-> at, msg |-> msg]}
             c == [s.compilers[k] EXCEPT !.panic_mode = TRUE, !.had_error = TRUE]
             r == [s EXCEPT !.errors = E]
             t == WithCompiler(r, k, c)
  <2>1. ErrorAt(s, k, at, msg) = t
    <3>1. ErrorAt(s, k, at, msg) = [s EXCEPT !.compilers = [s.compilers EXCEPT ![k] = c], !.errors = E]
      BY <1>0, <1>2 DEF ErrorAt, IsState
    <3> HIDE DEF c, E
    <3>2. t = [s EXCEPT !.compilers = [s.compilers EXCEPT ![k] = c], !.errors = E]
      BY <1>0 DEF IsState, WithCompiler
    <3> QED
      BY <3>1, <3>2
  <2>2. c \in CompilerType
    BY <1>0 DEF CompilerType
  <2>3. /\ c.function = s.compilers[k].function
        /\ c.scope_depth = s.compilers[k].scope_depth
        /\ c.upvalues = s.compilers[k].upvalues
        /\ c.locals = s.compilers[k].locals
        /\ c.current = s.compilers[k].current
        /\ c.previous = s.compilers[k].previous
        /\ c.current \in Nat
    BY <1>0 DEF CompilerType
  <2> HIDE DEF c
  <2>4. E # {}
    OBVIOUS
  <2> HIDE DEF E
  <2>5. /\ Keeps(s, r)
        /\ r.errors = E /\ r.compilers = s.compilers /\ r.functions = s.functions
    BY <1>0, <2>4, ErrorsChange DEF IsState
  <2>6. Base(r)
    BY <2>5 DEF Keeps
  <2> HIDE DEF r
  <2>7. Keeps(r, t)
    BY <2>2, <2>3, <2>4, <2>5, <2>6, CompilerKeeps
  <2>8. Keeps(s, t)
    BY <2>5, <2>7, KeepsTransitive
  <2>9. t.errors # {} /\ OnlyFlags(s, t)
    <3>1. /\ t.functions = r.functions /\ t.errors = r.errors
          /\ \A j \in DOMAIN r.compilers : t.compilers[j] = IF j = k THEN c ELSE r.compilers[j]
      BY <2>2, <2>5, <2>6, BaseFacts, WithCompilerFacts
    <3> HIDE DEF t
    <3> QED
      BY <2>3, <2>4, <2>5, <3>1 DEF OnlyFlags
  <2> QED
    BY <2>1, <2>8, <2>9
<1> QED
  BY <1>1, <1>2, <1>0 DEF CompilerType

(* An error that is reported leaves the innermost compiler where it is. *)
LEMMA OnlyFlagsFacts ==
  ASSUME NEW s, Base(s), NEW t, OnlyFlags(s, t), Keeps(s, t)
  PROVE  /\ Me(t) = Me(s)
         /\ DOMAIN t.compilers = DOMAIN s.compilers
         /\ This(t).function = This(s).function
         /\ This(t).locals = This(s).locals
         /\ This(t).upvalues = This(s).upvalues
         /\ This(t).current = This(s).current
         /\ This(t).previous = This(s).previous
         /\ This(t).scope_depth = This(s).scope_depth
         /\ Function(t) = Function(s)
         /\ Current(t) = Current(s)
         /\ Previous(t) = Previous(s)
<1>1. Len(t.compilers) = Len(s.compilers)
  BY DEF Keeps, SameScopes
<1>2. Me(t) = Me(s) /\ Me(s) \in DOMAIN s.compilers /\ This(t) = t.compilers[Me(s)] /\ This(s) = s.compilers[Me(s)]
       /\ DOMAIN t.compilers = DOMAIN s.compilers
  BY <1>1, BaseFacts DEF Keeps
<1>3. /\ This(t).function = This(s).function
      /\ This(t).locals = This(s).locals
      /\ This(t).upvalues = This(s).upvalues
      /\ This(t).current = This(s).current
      /\ This(t).previous = This(s).previous
      /\ This(t).scope_depth = This(s).scope_depth
  BY <1>2 DEF OnlyFlags
<1>4. Function(t) = Function(s)
  BY <1>3 DEF Function, OnlyFlags
<1> QED
  BY <1>2, <1>3, <1>4 DEF Current, Previous

(* error_at_current and error_at_previous *)
LEMMA ErrorFacts ==
  ASSUME NEW s, Base(s), NEW msg
  PROVE  /\ Keeps(s, ErrorAtCurrent(s, msg)) /\ ErrorAtCurrent(s, msg).errors # {}
         /\ OnlyFlags(s, ErrorAtCurrent(s, msg))
         /\ Keeps(s, ErrorAtPrevious(s, msg)) /\ ErrorAtPrevious(s, msg).errors # {}
         /\ OnlyFlags(s, ErrorAtPrevious(s, msg))
<1>1. Me(s) \in DOMAIN s.compilers /\ This(s).current \in Nat /\ This(s).previous \in Nat
  BY BaseFacts DEF CompilerType
<1> QED
  BY <1>1, ErrorAtFacts DEF ErrorAtCurrent, ErrorAtPrevious

-----------------------------------------------------------------------------
(* Bytes. *)

(* What is converted to a byte is one, and so is every operation code. *)
LEMMA ByteFacts ==
  /\ \A n \in Int : AsByte(n) \in 0 .. UINT8_MAX
  /\ \A n \in Int : UpperByte(n) \in 0 .. UINT8_MAX
  /\ \A n \in 0 .. UINT8_MAX : AsByte(n) = n
  /\ \A n \in Nat : AsUint16(n) \in Nat
  /\ 0 .. UINT8_MAX \subseteq Byte
  /\ \A op \in OpCode : Code[op] \in Byte
<1>1. \A n \in Int : AsByte(n) \in 0 .. UINT8_MAX
  BY ByteAssumption DEF AsByte
<1>2. \A n \in Int : UpperByte(n) \in 0 .. UINT8_MAX
  <2>1. \A n \in Int : n \div (UINT8_MAX + 1) \in Int
    BY ByteAssumption
  <2> QED
    BY <1>1, <2>1 DEF UpperByte
<1>3. \A n \in 0 .. UINT8_MAX : AsByte(n) = n
  BY ByteAssumption DEF AsByte
<1>4. \A n \in Nat : AsUint16(n) \in Nat
  <2>1. UINT16_MAX + 1 \in Nat \ {0}
    <3>1. \A m \in Nat \ {0} : m * m - 1 + 1 \in Nat \ {0}
      OBVIOUS
    <3>2. UINT8_MAX + 1 \in Nat \ {0}
      BY ByteAssumption
    <3> QED
      BY <3>1, <3>2 DEF UINT16_MAX
  <2> QED
    BY <2>1 DEF AsUint16
<1> QED
  BY <1>1, <1>2, <1>3, <1>4 DEF Byte

(* EmitBytes *)
LEMMA EmitBytesFacts ==
  ASSUME NEW s, Base(s), NEW bytes \in Seq(Byte)
  PROVE  /\ Keeps(s, EmitBytes(s, bytes))
         /\ EmitBytes(s, bytes).compilers = s.compilers
         /\ This(EmitBytes(s, bytes)) = This(s)
         /\ Function(EmitBytes(s, bytes)).constants = Function(s).constants
         /\ Len(EmitBytes(s, bytes).functions) = Len(s.functions)
<1> DEFINE f == This(s).function
           code == Function(s).code \o bytes
           lines == Function(s).lines + Len(bytes)
           g == [Function(s) EXCEPT !.code = code, !.lines = lines]
<1>1. /\ IsState(s) /\ f \in DOMAIN s.functions /\ Function(s) \in FunctionType /\ Function(s) = s.functions[f]
  BY BaseFacts
<1>2. EmitBytes(s, bytes) = WithFunction(s, f, g)
  BY <1>1 DEF EmitBytes, IsState, WithFunction
<1>3. code \in Seq(Byte) /\ lines \in Nat
  BY <1>1 DEF FunctionType
<1> HIDE DEF code, lines
<1>4. g \in FunctionType /\ g.upvalue_count = s.functions[f].upvalue_count /\ g.constants = s.functions[f].constants
  BY <1>1, <1>3 DEF FunctionType
<1> HIDE DEF g
<1>5. FunctionOk(s, f)
  BY <1>1 DEF Base
<1>6. Keeps(s, WithFunction(s, f, g)) /\ This(WithFunction(s, f, g)) = This(s)
  BY <1>1, <1>4, <1>5, FunctionChange DEF FunctionOk
<1>7. /\ WithFunction(s, f, g).compilers = s.compilers /\ WithFunction(s, f, g).functions[f] = g
      /\ Len(WithFunction(s, f, g).functions) = Len(s.functions)
  BY <1>1, <1>4, WithFunctionFacts
<1>8. Function(WithFunction(s, f, g)) = g
  BY <1>6, <1>7 DEF Function
<1> QED
  BY <1>1, <1>2, <1>4, <1>6, <1>7, <1>8

(* Emitting an operation, with or without operands, keeps Base and all scopes. *)
LEMMA EmitFacts ==
  ASSUME NEW s, Base(s), NEW op \in OpCode, NEW a \in Byte, NEW b \in Byte
  PROVE  /\ Keeps(s, Emit(s, op)) /\ Emit(s, op).compilers = s.compilers
         /\ Keeps(s, EmitWith(s, op, a)) /\ EmitWith(s, op, a).compilers = s.compilers
         /\ Keeps(s, EmitBytes(s, <<Code[op], a, b>>))
<1>1. Code[op] \in Byte
  BY ByteFacts
<1>2. /\ <<Code[op]>> \in Seq(Byte)
      /\ <<Code[op], a>> \in Seq(Byte)
      /\ <<Code[op], a, b>> \in Seq(Byte)
  BY <1>1
<1> QED
  BY <1>2, EmitBytesFacts DEF Emit, EmitWith

(* The code that a sequence of opcodes stands for. *)
LEMMA OpcodesFacts ==
  ASSUME NEW ops \in Seq(OpCode)
  PROVE  [i \in DOMAIN ops |-> Code[ops[i]]] \in Seq(Byte)
<1>1. DOMAIN ops = 1 .. Len(ops) /\ Len(ops) \in Nat /\ \A i \in DOMAIN ops : Code[ops[i]] \in Byte
  <2>1. DOMAIN ops = 1 .. Len(ops) /\ Len(ops) \in Nat /\ \A i \in DOMAIN ops : ops[i] \in OpCode
    OBVIOUS
  <2> QED
    BY <2>1, ByteFacts
<1> DEFINE bytes == [i \in DOMAIN ops |-> Code[ops[i]]]
<1>2. IsSeq(bytes) /\ Len(bytes) = Len(ops)
  BY <1>1, FunctionIsSeq
<1> QED
  BY <1>1, <1>2, SeqOfType

(* So does emitting several operations, *)
LEMMA EmitAllFacts ==
  ASSUME NEW s, Base(s), NEW ops \in Seq(OpCode)
  PROVE  Keeps(s, EmitAll(s, ops)) /\ EmitAll(s, ops).compilers = s.compilers
BY OpcodesFacts, EmitBytesFacts DEF EmitAll

(* the return at the end of a function among them. *)
LEMMA EmitReturnFacts ==
  ASSUME NEW s, Base(s)
  PROVE  /\ Keeps(s, EmitReturn(s)) /\ EmitReturn(s).compilers = s.compilers
<1>1. <<"OP_NIL", "OP_RETURN">> \in Seq(OpCode)
  <2>1. OpCodes[3] = "OP_NIL" /\ OpCodes[1] = "OP_RETURN" /\ 3 \in DOMAIN OpCodes /\ 1 \in DOMAIN OpCodes
    BY DEF OpCodes
  <2>2. "OP_NIL" \in OpCode /\ "OP_RETURN" \in OpCode
    BY <2>1 DEF OpCode
  <2> QED
    BY <2>2
<1> QED
  BY <1>1, EmitAllFacts DEF EmitReturn

(* The places that jumps are made from and to. *)
LEMMA CodeSizeFacts ==
  ASSUME NEW s, Base(s)
  PROVE  /\ CodeSize(s) \in Nat
         /\ JumpAddress(s) \in Nat
         /\ AsUint16(CodeSize(s)) \in Nat
<1>1. Function(s) \in FunctionType
  BY BaseFacts
<1>2. CodeSize(s) \in Nat
  BY <1>1 DEF CodeSize, FunctionType
<1> QED
  BY <1>2, ByteFacts DEF JumpAddress

(* emit_jump *)
LEMMA EmitJumpFacts ==
  ASSUME NEW s, Base(s), NEW op \in OpCode
  PROVE  Keeps(s, EmitJump(s, op))
<1>1. 0 \in Byte
  BY ByteAssumption DEF Byte
<1> QED
  BY <1>1, EmitFacts DEF EmitJump

(* Bytes of a function's code are overwritten. *)
LEMMA CodeChange ==
  ASSUME NEW s, Base(s), NEW code \in Seq(Byte)
  PROVE  LET t == WithFunction(s, This(s).function, [Function(s) EXCEPT !.code = code])
         IN  Keeps(s, t) /\ This(t) = This(s)
<1> DEFINE f == This(s).function
           g == [Function(s) EXCEPT !.code = code]
<1>1. f \in DOMAIN s.functions /\ Function(s) \in FunctionType /\ Function(s) = s.functions[f]
  BY BaseFacts
<1>2. /\ g \in FunctionType /\ g.upvalue_count = s.functions[f].upvalue_count
      /\ g.constants = s.functions[f].constants
  BY <1>1 DEF FunctionType
<1> HIDE DEF g
<1>3. FunctionOk(s, f)
  BY <1>1 DEF Base
<1>4. Keeps(s, WithFunction(s, f, g)) /\ This(WithFunction(s, f, g)) = This(s)
  BY <1>1, <1>2, <1>3, FunctionChange DEF FunctionOk
<1> QED
  BY <1>4 DEF g

(* Code in which a byte is overwritten is code. *)
LEMMA OverwriteFacts ==
  ASSUME NEW code \in Seq(Byte), NEW i, NEW b \in Byte
  PROVE  [code EXCEPT ![i] = b] \in Seq(Byte)
<1>1. CASE i \in 1 .. Len(code)
  BY <1>1, ExceptSeq
<1>2. CASE i \notin 1 .. Len(code)
  <2>1. i \notin DOMAIN code
    BY <1>2
  <2>2. [code EXCEPT ![i] = b] = code
    BY <2>1
  <2> QED
    BY <2>2
<1> QED
  BY <1>1, <1>2

(* Overwriting one byte of the innermost function's code keeps Base and all scopes. *)
LEMMA ByteChange ==
  ASSUME NEW s, Base(s), NEW i, NEW b \in Byte
  PROVE  /\ Keeps(s, [s EXCEPT !.functions[This(s).function].code[i] = b])
         /\ This([s EXCEPT !.functions[This(s).function].code[i] = b]) = This(s)
<1> DEFINE f == This(s).function
           code == [Function(s).code EXCEPT ![i] = b]
<1>1. IsState(s) /\ f \in DOMAIN s.functions /\ Function(s) \in FunctionType /\ Function(s) = s.functions[f]
  BY BaseFacts
<1>2. code \in Seq(Byte)
  BY <1>1, OverwriteFacts DEF FunctionType
<1>3. [s EXCEPT !.functions[f].code[i] = b] = WithFunction(s, f, [Function(s) EXCEPT !.code = code])
  BY <1>1 DEF IsState, WithFunction, FunctionType
<1> HIDE DEF code
<1> QED
  BY <1>2, <1>3, CodeChange

(* patch_jump *)
LEMMA PatchJumpFacts ==
  ASSUME NEW s, Base(s), NEW jump \in Nat
  PROVE  Keeps(s, PatchJump(s, jump))
<1> DEFINE dist == CodeSize(s) - 3 - jump
           t == IF dist > UINT16_MAX THEN ErrorAtCurrent(s, "Too much code to jump over.") ELSE s
           u == [t EXCEPT !.functions[This(t).function].code[jump + 2] = UpperByte(dist)]
           v == [u EXCEPT !.functions[This(u).function].code[jump + 3] = AsByte(dist)]
<1>1. UpperByte(dist) \in Byte /\ AsByte(dist) \in Byte
  BY CodeSizeFacts, ByteFacts
<1>2. Keeps(s, t) /\ This(t).function = This(s).function
  <2>1. CASE dist > UINT16_MAX
    <3>1. t = ErrorAtCurrent(s, "Too much code to jump over.")
      BY <2>1
    <3> HIDE DEF t, dist
    <3>3. Keeps(s, t) /\ OnlyFlags(s, t)
      BY <3>1, ErrorFacts
    <3> QED
      BY <3>3, OnlyFlagsFacts
  <2>2. CASE ~(dist > UINT16_MAX)
    <3>1. t = s
      BY <2>2
    <3> QED
      BY <3>1, KeepsReflexive
  <2> QED
    BY <2>1, <2>2
<1>3. Base(t)
  BY <1>2 DEF Keeps
<1>4. PatchJump(s, jump) =
        [[t EXCEPT !.functions[This(s).function].code[jump + 2] = UpperByte(dist)]
           EXCEPT !.functions[This(s).function].code[jump + 3] = AsByte(dist)]
  BY DEF PatchJump
<1> HIDE DEF t, dist
<1>5. Keeps(t, u) /\ This(u) = This(t)
  BY <1>1, <1>3, ByteChange
<1>6. PatchJump(s, jump) = v
  BY <1>2, <1>4, <1>5
<1>7. Base(u)
  BY <1>5 DEF Keeps
<1> HIDE DEF u
<1>8. Keeps(u, v)
  BY <1>1, <1>7, ByteChange
<1> QED
  BY <1>2, <1>3, <1>5, <1>6, <1>7, <1>8, KeepsTransitive

(* emit_loop *)
LEMMA EmitLoopFacts ==
  ASSUME NEW s, Base(s), NEW start \in Nat
  PROVE  Keeps(s, EmitLoop(s, start))
<1> DEFINE opcode == Emit(s, "OP_LOOP")
           dist == CodeSize(opcode) + 2 - start
           msg == "Loop body too large, too much code to jump over."
           t == IF dist > UINT16_MAX THEN ErrorAtPrevious(opcode, msg) ELSE opcode
           code == Function(t).code \o <<UpperByte(dist), AsByte(dist)>>
<1>1. Keeps(s, opcode) /\ opcode.compilers = s.compilers
  <2>1. "OP_LOOP" \in OpCode
    <3>1. 24 \in DOMAIN OpCodes /\ OpCodes[24] = "OP_LOOP"
      BY DEF OpCodes
    <3> QED
      BY <3>1 DEF OpCode
  <2>2. 0 \in Byte
    BY ByteAssumption DEF Byte
  <2> QED
    BY <2>1, <2>2, EmitFacts
<1>2. Base(opcode) /\ This(opcode) = This(s)
  BY <1>1 DEF Keeps, This, Me
<1> HIDE DEF opcode
<1>3. UpperByte(dist) \in Byte /\ AsByte(dist) \in Byte
  BY <1>2, CodeSizeFacts, ByteFacts
<1>4. EmitLoop(s, start) = [t EXCEPT !.functions[This(s).function].code =
                              @ \o <<UpperByte(dist), AsByte(dist)>>]
  BY DEF EmitLoop, opcode
<1>5. Keeps(opcode, t) /\ This(t).function = This(s).function
  <2>1. CASE dist > UINT16_MAX
    <3>1. t = ErrorAtPrevious(opcode, msg)
      BY <2>1
    <3> HIDE DEF t, dist, msg
    <3>3. Keeps(opcode, t) /\ OnlyFlags(opcode, t)
      BY <1>2, <3>1, ErrorFacts
    <3> QED
      BY <1>2, <3>3, OnlyFlagsFacts
  <2>2. CASE ~(dist > UINT16_MAX)
    <3>1. t = opcode
      BY <2>2
    <3> QED
      BY <1>2, <3>1, KeepsReflexive
  <2> QED
    BY <2>1, <2>2
<1> HIDE DEF t, dist
<1>6. Base(t)
  BY <1>5 DEF Keeps
<1>7. IsState(t) /\ Function(t) \in FunctionType /\ Function(t) = t.functions[This(t).function]
      /\ This(t).function \in DOMAIN t.functions
  BY <1>6, BaseFacts
<1>8. code \in Seq(Byte)
  BY <1>3, <1>7 DEF FunctionType
<1>9. EmitLoop(s, start) = WithFunction(t, This(t).function, [Function(t) EXCEPT !.code = code])
  BY <1>4, <1>5, <1>7 DEF IsState, WithFunction, FunctionType
<1> HIDE DEF code
<1>10. Keeps(t, EmitLoop(s, start))
  BY <1>6, <1>8, <1>9, CodeChange
<1> QED
  BY <1>1, <1>2, <1>5, <1>6, <1>10, KeepsTransitive

(* An error is noted with the compiler and with the reporter. *)
ErrorNoted(s, k, at, msg) ==
  [s EXCEPT !.compilers = [[s.compilers EXCEPT ![k].panic_mode = TRUE] EXCEPT ![k].had_error = TRUE],
            !.errors = s.errors \cup {[at |-> at, msg |-> msg]}]

(* In panic mode nothing is reported; otherwise the error is, and panic mode begins. *)
LEMMA ErrorForm ==
  ASSUME NEW s, IsState(s), NEW k, NEW at, NEW msg
  PROVE  ErrorAt(s, k, at, msg) = IF s.compilers[k].panic_mode THEN s ELSE ErrorNoted(s, k, at, msg)
BY DEF ErrorAt, IsState, ErrorNoted

(* error_at does not look at functions. *)
LEMMA ErrorCommutes ==
  ASSUME NEW s, IsState(s), NEW f \in DOMAIN s.functions, NEW g \in FunctionType, NEW msg
  PROVE  ErrorAtPrevious(WithFunction(s, f, g), msg) = WithFunction(ErrorAtPrevious(s, msg), f, g)
<1> DEFINE k == Me(s)
           at == This(s).previous
           t == WithFunction(s, f, g)
<1>1. /\ IsState(t) /\ t.compilers = s.compilers /\ t.errors = s.errors
      /\ Me(t) = k /\ This(t) = This(s)
  BY WithFunctionFacts DEF Me, This
<1>2. ErrorAtPrevious(s, msg) = ErrorAt(s, k, at, msg) /\ ErrorAtPrevious(t, msg) = ErrorAt(t, k, at, msg)
  BY <1>1 DEF ErrorAtPrevious
<1> HIDE DEF k, at
<1>3. ErrorNoted(t, k, at, msg) = WithFunction(ErrorNoted(s, k, at, msg), f, g)
  <2> DEFINE E == s.errors \cup {[at |-> at, msg |-> msg]}
             c == [[s.compilers EXCEPT ![k].panic_mode = TRUE] EXCEPT ![k].had_error = TRUE]
  <2>1. ErrorNoted(s, k, at, msg) = [s EXCEPT !.compilers = c, !.errors = E]
    BY DEF ErrorNoted
  <2>2. ErrorNoted(t, k, at, msg) = [t EXCEPT !.compilers = c, !.errors = E]
    <3> HIDE DEF t
    <3> QED
      BY <1>1 DEF ErrorNoted
  <2> HIDE DEF c, E
  <2> QED
    BY <2>1, <2>2 DEF WithFunction, IsState
<1>4. ErrorAt(s, k, at, msg) = IF s.compilers[k].panic_mode THEN s ELSE ErrorNoted(s, k, at, msg)
  BY ErrorForm
<1>5. ErrorAt(t, k, at, msg) = IF s.compilers[k].panic_mode THEN t ELSE ErrorNoted(t, k, at, msg)
  <2> HIDE DEF t
  <2> QED
    BY <1>1, ErrorForm
<1> QED
  BY <1>2, <1>3, <1>4, <1>5

(* add_constant *)
LEMMA AddConstantFacts ==
  ASSUME NEW s, Base(s), NEW val \in ConstantType, IsConstant(s.functions, val)
  PROVE  Keeps(s, AddConstant(s, val)) /\ ConstantIndex(s) \in 0 .. UINT8_MAX
<1> DEFINE f == This(s).function
           constants == Append(Function(s).constants, val)
           g == [Function(s) EXCEPT !.constants = constants]
           msg == "Too many constants in code chunk."
           e == ErrorAtPrevious(s, msg)
<1>1. /\ IsState(s) /\ f \in DOMAIN s.functions
      /\ Function(s) \in FunctionType /\ Function(s) = s.functions[f] /\ FunctionOk(s, f)
  BY BaseFacts DEF Base
<1>2. Function(s).constants \in Seq(ConstantType)
  BY <1>1 DEF FunctionType
<1>3. ConstantIndex(s) \in 0 .. UINT8_MAX
  <2>1. \A n \in Nat : AsByte(n) \in 0 .. UINT8_MAX
    BY ByteFacts
  <2>2. Len(Function(s).constants) \in Nat
    BY <1>2
  <2>3. AsByte(Len(Function(s).constants)) \in 0 .. UINT8_MAX
    BY <2>1, <2>2, Zenon
  <2> QED
    BY <2>3 DEF ConstantIndex
<1>4. /\ constants \in Seq(ConstantType)
      /\ Len(constants) = Len(Function(s).constants) + 1
      /\ \A i \in DOMAIN constants : IsConstant(s.functions, constants[i])
  <2>1. /\ constants \in Seq(ConstantType)
        /\ Len(constants) = Len(Function(s).constants) + 1
        /\ \A i \in 1 .. Len(Function(s).constants) : constants[i] = Function(s).constants[i]
        /\ constants[Len(Function(s).constants) + 1] = val
    BY <1>2, AppendProperties
  <2>2. \A i \in DOMAIN Function(s).constants : IsConstant(s.functions, Function(s).constants[i])
    BY <1>1 DEF FunctionOk
  <2>3. DOMAIN Function(s).constants = 1 .. Len(Function(s).constants) /\ Len(Function(s).constants) \in Nat
    BY <1>2
  <2> HIDE DEF constants
  <2>4. DOMAIN constants = 1 .. Len(Function(s).constants) + 1
    BY <2>1
  <2> QED
    BY <2>1, <2>2, <2>3, <2>4
<1> HIDE DEF constants
<1>5. /\ g \in FunctionType /\ g.upvalue_count = Function(s).upvalue_count
      /\ g.constants = constants
  BY <1>1, <1>4 DEF FunctionType
<1>6. WithFunction(s, f, g) = [s EXCEPT !.functions[f].constants = Append(@, val)]
  BY <1>1 DEF IsState, WithFunction, constants
<1> HIDE DEF g
<1>7. CASE Len(Function(s).constants) > UINT8_MAX
  <2>1. AddConstant(s, val) = ErrorAtPrevious(WithFunction(s, f, g), msg)
    BY <1>6, <1>7 DEF AddConstant
  <2>2. AddConstant(s, val) = WithFunction(e, f, g)
    BY <1>1, <1>5, <2>1, ErrorCommutes
  <2>3. Keeps(s, e) /\ e.errors # {} /\ e.functions = s.functions
    BY ErrorFacts DEF OnlyFlags
  <2> HIDE DEF e
  <2>4. Base(e)
    BY <2>3 DEF Keeps
  <2>5. Keeps(e, WithFunction(e, f, g))
    BY <1>1, <1>4, <1>5, <2>3, <2>4, FunctionChange
  <2> QED
    BY <1>3, <2>2, <2>3, <2>4, <2>5, KeepsTransitive
<1>8. CASE ~(Len(Function(s).constants) > UINT8_MAX)
  <2>1. AddConstant(s, val) = WithFunction(s, f, g)
    BY <1>6, <1>8 DEF AddConstant
  <2>2. Len(g.constants) <= UINT8_MAX + 1
    BY <1>2, <1>4, <1>5, <1>8, ByteAssumption
  <2>3. Keeps(s, WithFunction(s, f, g))
    BY <1>1, <1>4, <1>5, <2>2, FunctionChange
  <2> QED
    BY <1>3, <2>1, <2>3
<1> QED
  BY <1>7, <1>8

(* emit_constant keeps Base and all scopes. *)
LEMMA EmitConstantFacts ==
  ASSUME NEW s, Base(s), NEW val \in ConstantType, IsConstant(s.functions, val)
  PROVE  Keeps(s, EmitConstant(s, val))
<1>1. Keeps(s, AddConstant(s, val)) /\ ConstantIndex(s) \in Byte
  BY AddConstantFacts, ByteFacts
<1>2. Base(AddConstant(s, val))
  BY <1>1 DEF Keeps
<1>3. "OP_CONSTANT" \in OpCode
  <2>1. 2 \in DOMAIN OpCodes /\ OpCodes[2] = "OP_CONSTANT"
    BY DEF OpCodes
  <2> QED
    BY <2>1 DEF OpCode
<1>4. Keeps(AddConstant(s, val), EmitConstant(s, val))
  BY <1>1, <1>2, <1>3, EmitFacts DEF EmitConstant
<1> QED
  BY <1>1, <1>2, <1>4, KeepsTransitive

-----------------------------------------------------------------------------
(* The place in the text. *)

(* A text: tokens of which the last marks the end, and literals that have a value. *)
TokensOk ==
  /\ tokens \in Seq([type : TokenType, lexeme : Lexeme])
  /\ Len(tokens) >= 1 /\ tokens[Len(tokens)].type = "LOX_EOF"
  /\ \A p \in DOMAIN tokens : /\ tokens[p].type = "NUMBER" => tokens[p].lexeme \in DOMAIN NumberValue
                              /\ tokens[p].type = "STRING" => tokens[p].lexeme \in DOMAIN StringValue

(* A compiler that has got to another place. *)
Placed(c, previous, current) == [c EXCEPT !.previous = previous, !.current = current]

(* Reading on changes the two places in the text, and nothing else. *)
LEMMA PlacedFacts ==
  ASSUME NEW c \in CompilerType, NEW p \in Nat, NEW q \in Nat
  PROVE  /\ Placed(c, p, q) \in CompilerType
         /\ Placed(c, p, q).function = c.function
         /\ Placed(c, p, q).scope_depth = c.scope_depth
         /\ Placed(c, p, q).upvalues = c.upvalues
         /\ Placed(c, p, q).locals = c.locals
         /\ Placed(c, p, q).current = q
         /\ Placed(c, p, q).previous = p
         /\ Placed(c, p, q).panic_mode = c.panic_mode
         /\ Placed(c, p, q).had_error = c.had_error
BY DEF CompilerType, Placed

(* advance, in front of a token that is not the last. *)
LEMMA AdvanceFacts ==
  ASSUME TokensOk, NEW s, Base(s), InText(s), ~Check(s, "LOX_EOF")
  PROVE  /\ Keeps(s, Advance(s)) /\ InText(Advance(s))
         /\ Advance(s).functions = s.functions /\ Advance(s).errors = s.errors
         /\ This(Advance(s)).current = This(s).current + 1
         /\ This(Advance(s)).previous = This(s).current
<1> DEFINE k == Me(s)
           c == Placed(This(s), This(s).current, This(s).current + 1)
<1>1. /\ IsState(s) /\ This(s) \in CompilerType /\ k \in DOMAIN s.compilers /\ This(s) = s.compilers[k]
      /\ CompilerOk(s, k)
  BY BaseFacts DEF Base
<1>2. This(s).current + 1 \in 1 .. Len(tokens) /\ This(s).current \in 1 .. Len(tokens)
  <2>1. This(s).current \in 1 .. Len(tokens) /\ Len(tokens) \in Nat
    BY DEF InText, TokensOk
  <2>2. This(s).current # Len(tokens)
    BY DEF Check, Current, TokensOk
  <2> QED
    BY <2>1, <2>2
<1>3. Advance(s) = WithCompiler(s, k, c)
  BY <1>1 DEF Advance, WithCompiler, IsState, CompilerType, Placed
<1>4. /\ c \in CompilerType
      /\ c.function = This(s).function
      /\ c.scope_depth = This(s).scope_depth
      /\ c.upvalues = This(s).upvalues
      /\ c.locals = This(s).locals
      /\ c.current = This(s).current + 1
      /\ c.previous = This(s).current
      /\ c.panic_mode = This(s).panic_mode
      /\ c.had_error = This(s).had_error
  <2>1. This(s).current \in Nat /\ This(s).current + 1 \in Nat
    BY <1>2
  <2> QED
    BY <1>1, <2>1, PlacedFacts
<1> HIDE DEF c
<1>5. c.panic_mode \/ c.had_error => s.errors # {}
  BY <1>1, <1>4 DEF CompilerOk
<1>6. Keeps(s, WithCompiler(s, k, c))
  BY <1>1, <1>2, <1>4, <1>5, CompilerKeeps
<1>7. This(WithCompiler(s, k, c)) = c
  BY <1>1, <1>4, <1>5, CompilerChange
<1>8. InText(WithCompiler(s, k, c))
  BY <1>2, <1>4, <1>7 DEF InText
<1>9. WithCompiler(s, k, c).functions = s.functions /\ WithCompiler(s, k, c).errors = s.errors
  BY <1>1, <1>4, WithCompilerFacts
<1> QED
  BY <1>3, <1>4, <1>6, <1>7, <1>8, <1>9

(* consume *)
LEMMA ConsumeFacts ==
  ASSUME TokensOk, NEW s, Base(s), InText(s), NEW type, type # "LOX_EOF"
  PROVE  /\ Keeps(s, Consume(s, type)) /\ InText(Consume(s, type))
         /\ Consume(s, type).functions = s.functions
<1>1. CASE Check(s, type)
  <2>1. ~Check(s, "LOX_EOF")
    BY <1>1 DEF Check
  <2> QED
    BY <1>1, <2>1, AdvanceFacts DEF Consume
<1>2. CASE ~Check(s, type)
  <2>1. Keeps(s, ErrorAtCurrent(s, type)) /\ OnlyFlags(s, ErrorAtCurrent(s, type))
    BY ErrorFacts
  <2> QED
    BY <1>2, <2>1 DEF Consume, Keeps, OnlyFlags
<1> QED
  BY <1>1, <1>2

(* No variable but the last one waits to be defined. *)
Nearly(s) ==
  \A k \in DOMAIN s.compilers : \A i \in DOMAIN s.compilers[k].locals :
    s.compilers[k].locals[i].depth = -1 => k = Me(s) /\ i = Len(s.compilers[k].locals)

(* No variable waits to be defined. *)
Settled(s) ==
  \A k \in DOMAIN s.compilers : \A i \in DOMAIN s.compilers[k].locals :
    s.compilers[k].locals[i].depth # -1

(* The same compilers, in scopes as deep. *)
SameDepths(s, t) ==
  /\ Len(t.compilers) = Len(s.compilers)
  /\ \A k \in DOMAIN s.compilers : t.compilers[k].scope_depth = s.compilers[k].scope_depth

(* What is known of the innermost compiler, put together again. *)
LEMMA OwnFacts ==
  ASSUME NEW s, Base(s)
  PROVE  /\ CompilerOk(s, Me(s))
         /\ This(s).function \in DOMAIN s.functions
         /\ Len(This(s).upvalues) = s.functions[This(s).function].upvalue_count
         /\ Len(This(s).locals) \in 1 .. UINT8_MAX + 1
         /\ This(s).locals \in Seq(LocalType)
         /\ DOMAIN This(s).locals = 1 .. Len(This(s).locals)
         /\ Len(This(s).locals) \in Nat
         /\ This(s).scope_depth \in Nat
         /\ \A i \in DOMAIN This(s).locals : DepthOk(i, This(s).locals[i].depth)
         /\ This(s).scope_depth = 0 => Len(This(s).locals) = 1
         /\ This(s).panic_mode \/ This(s).had_error => s.errors # {}
<1>1. /\ Me(s) \in DOMAIN s.compilers /\ This(s) = s.compilers[Me(s)] /\ This(s) \in CompilerType
  BY BaseFacts
<1>2. CompilerOk(s, Me(s))
  BY <1>1 DEF Base
<1>3. This(s).locals \in Seq(LocalType) /\ This(s).scope_depth \in Nat
  BY <1>1 DEF CompilerType
<1>4. DOMAIN This(s).locals = 1 .. Len(This(s).locals) /\ Len(This(s).locals) \in Nat
  BY <1>3
<1> QED
  BY <1>1, <1>2, <1>3, <1>4 DEF CompilerOk

(* The innermost compiler gets other locals, or another depth. *)
LEMMA LocalsChange ==
  ASSUME NEW s, Base(s), NEW c \in CompilerType,
         c.function = This(s).function,
         c.upvalues = This(s).upvalues,
         c.panic_mode = This(s).panic_mode,
         c.had_error = This(s).had_error,
         Len(c.locals) \in 1 .. UINT8_MAX + 1,
         \A i \in DOMAIN c.locals : DepthOk(i, c.locals[i].depth),
         c.scope_depth = 0 => Len(c.locals) = 1
  PROVE  LET t == WithCompiler(s, Me(s), c)
         IN  /\ Base(t)
             /\ t.work = s.work /\ t.functions = s.functions /\ t.errors = s.errors
             /\ Len(t.compilers) = Len(s.compilers)
             /\ DOMAIN t.compilers = DOMAIN s.compilers
             /\ Me(t) = Me(s)
             /\ This(t) = c
             /\ \A j \in DOMAIN s.compilers : t.compilers[j] = IF j = Me(s) THEN c ELSE s.compilers[j]
<1> DEFINE k == Me(s)
           t == WithCompiler(s, k, c)
<1>1. k \in DOMAIN s.compilers /\ k = Len(s.compilers) /\ k \in Nat \ {0}
      /\ DOMAIN s.compilers = 1 .. Len(s.compilers) /\ This(s) = s.compilers[k]
  BY BaseFacts
<1>2. /\ IsState(t)
      /\ t.functions = s.functions
      /\ t.errors = s.errors
      /\ t.work = s.work
      /\ Len(t.compilers) = Len(s.compilers)
      /\ DOMAIN t.compilers = DOMAIN s.compilers
      /\ \A j \in DOMAIN s.compilers : t.compilers[j] = IF j = k THEN c ELSE s.compilers[j]
  BY <1>1, BaseFacts, WithCompilerFacts
<1> HIDE DEF t, k
<1>3. \A j \in DOMAIN s.compilers : t.compilers[j].function = s.compilers[j].function
  BY <1>1, <1>2
<1>4. ASSUME NEW j \in DOMAIN t.compilers PROVE CompilerOk(t, j)
  <2>1. CompilerOk(s, j) /\ j \in DOMAIN s.compilers
    BY <1>2 DEF Base
  <2>2. \A i \in 1 .. j - 1 : t.compilers[i].function < t.compilers[j].function
    <3> TAKE i \in 1 .. j - 1
    <3>1. i \in DOMAIN s.compilers
      BY <1>1, <2>1
    <3> QED
      BY <1>3, <2>1, <3>1 DEF CompilerOk
  <2>3. CASE j = k
    <3>1. t.compilers[j] = c /\ ~(j < Len(t.compilers))
      BY <1>1, <1>2, <2>3
    <3> QED
      BY <1>1, <1>2, <2>1, <2>2, <2>3, <3>1 DEF CompilerOk
  <2>4. CASE j # k
    <3>1. t.compilers[j] = s.compilers[j]
      BY <1>2, <2>1, <2>4
    <3> QED
      BY <1>2, <2>1, <2>2, <3>1 DEF CompilerOk
  <2> QED
    BY <2>3, <2>4
<1>5. ASSUME NEW j \in DOMAIN t.functions PROVE FunctionOk(t, j)
  BY <1>2 DEF Base, FunctionOk
<1>6. Resolved(t)
  <2> SUFFICES ASSUME s.errors = {}, NEW j \in 2 .. Len(s.compilers), NEW i \in DOMAIN t.compilers[j].upvalues
               PROVE  UpvalueResolves(t.compilers[j - 1], t.compilers[j].upvalues[i])
    BY <1>2 DEF Resolved
  <2>1. j \in DOMAIN s.compilers /\ j - 1 \in DOMAIN s.compilers /\ j - 1 # k
    BY <1>1
  <2>2. t.compilers[j].upvalues = s.compilers[j].upvalues /\ t.compilers[j - 1] = s.compilers[j - 1]
    BY <1>1, <1>2, <2>1
  <2> QED
    BY <2>2 DEF Base, Resolved
<1>7. Base(t)
  <2>1. t.compilers # <<>>
    BY <1>1, <1>2
  <2> QED
    BY <1>2, <1>4, <1>5, <1>6, <2>1 DEF Base
<1>8. Me(t) = k /\ This(t) = c
  BY <1>1, <1>2 DEF This, Me
<1> QED
  BY <1>2, <1>7, <1>8 DEF t, k

-----------------------------------------------------------------------------
(* Declaring. *)

(* What declaring a variable does. *)
Declares(s, t) ==
  /\ Base(t)
  /\ t.work = s.work
  /\ SameDepths(s, t)
  /\ Settled(s) => Nearly(t)
  /\ Declared(This(t))
  /\ InText(s) => InText(t)
  /\ This(s).current <= This(t).current

(* When no variable at all waits to be defined, none but the last does. *)
LEMMA SettledIsNearly ==
  ASSUME NEW s, Settled(s)
  PROVE  Nearly(s)
BY DEF Settled, Nearly

(* Locals of the same depths. *)
LEMMA ScopesKept ==
  ASSUME NEW s, Base(s), NEW t, Base(t), SameScopes(s, t)
  PROVE  /\ SameDepths(s, t)
         /\ Settled(s) => Settled(t)
         /\ Nearly(s) => Nearly(t)
         /\ Declared(This(s)) => Declared(This(t))
<1>1. /\ DOMAIN s.compilers = 1 .. Len(s.compilers) /\ DOMAIN t.compilers = 1 .. Len(t.compilers)
      /\ Len(t.compilers) = Len(s.compilers)
      /\ This(s) = s.compilers[Me(s)] /\ This(t) = t.compilers[Me(t)]
      /\ Me(s) = Len(s.compilers) /\ Me(t) = Len(t.compilers) /\ Me(s) \in DOMAIN s.compilers
  BY BaseFacts DEF SameScopes
<1>2. ASSUME NEW k \in DOMAIN s.compilers
      PROVE  /\ DOMAIN t.compilers[k].locals = DOMAIN s.compilers[k].locals
             /\ Len(t.compilers[k].locals) = Len(s.compilers[k].locals)
  <2>1. s.compilers[k].locals \in Seq(LocalType) /\ t.compilers[k].locals \in Seq(LocalType)
    BY <1>1, BaseFacts DEF CompilerType
  <2>2. Len(t.compilers[k].locals) = Len(s.compilers[k].locals)
    BY DEF SameScopes
  <2> QED
    BY <2>1, <2>2
<1>3. SameDepths(s, t)
  BY DEF SameScopes, SameDepths
<1>4. Settled(s) => Settled(t)
  BY <1>1, <1>2 DEF SameScopes, Settled
<1>5. Nearly(s) => Nearly(t)
  BY <1>1, <1>2 DEF SameScopes, Nearly
<1>6. Declared(This(s)) => Declared(This(t))
  BY <1>1 DEF SameScopes, Declared
<1> QED
  BY <1>3, <1>4, <1>5, <1>6

(* Keeping everything and then declaring a variable declares it, *)
LEMMA DeclaresFirst ==
  ASSUME NEW s, Base(s), NEW t, Keeps(s, t), NEW u, Declares(t, u)
  PROVE  Declares(s, u)
<1>1. Base(t) /\ Base(u) /\ SameScopes(s, t)
  BY DEF Keeps, Declares
<1>2. SameDepths(s, t) /\ (Settled(s) => Settled(t))
  BY <1>1, ScopesKept
<1>3. DOMAIN s.compilers = DOMAIN t.compilers
  BY <1>1, BaseFacts DEF SameScopes
<1>4. SameDepths(s, u)
  BY <1>2, <1>3 DEF Declares, SameDepths
<1>5. This(s).current \in Nat /\ This(t).current \in Nat /\ This(u).current \in Nat
  BY <1>1, BaseFacts DEF CompilerType
<1> QED
  BY <1>1, <1>2, <1>4, <1>5 DEF Declares, Keeps

(* and so does declaring it and then keeping everything. *)
LEMMA DeclaresLast ==
  ASSUME NEW s, Base(s), NEW t, Declares(s, t), NEW u, Keeps(t, u)
  PROVE  Declares(s, u)
<1>1. Base(t) /\ Base(u) /\ SameScopes(t, u)
  BY DEF Keeps, Declares
<1>2. SameDepths(t, u) /\ (Nearly(t) => Nearly(u)) /\ (Declared(This(t)) => Declared(This(u)))
  BY <1>1, ScopesKept
<1>3. DOMAIN s.compilers = DOMAIN t.compilers
  BY <1>1, BaseFacts DEF Declares, SameDepths
<1>4. SameDepths(s, u)
  BY <1>2, <1>3 DEF Declares, SameDepths
<1>5. This(s).current \in Nat /\ This(t).current \in Nat /\ This(u).current \in Nat
  BY <1>1, BaseFacts DEF CompilerType
<1> QED
  BY <1>1, <1>2, <1>4, <1>5 DEF Declares, Keeps

(* Where a variable is declared already, keeping everything will do. *)
LEMMA KeptDeclared ==
  ASSUME NEW s, Base(s), NEW t, Keeps(s, t), Declared(This(s))
  PROVE  Declares(s, t)
<1>1. Base(t) /\ SameScopes(s, t)
  BY DEF Keeps
<1>2. SameDepths(s, t) /\ (Settled(s) => Settled(t)) /\ Declared(This(t))
  BY <1>1, ScopesKept
<1>3. Settled(s) => Nearly(t)
  BY <1>2, SettledIsNearly
<1> QED
  BY <1>1, <1>2, <1>3 DEF Declares, Keeps

(* The names in the text. *)
LEMMA LexemeFacts ==
  ASSUME TokensOk, NEW s, InText(s)
  PROVE  /\ Previous(s).lexeme \in Lexeme /\ Current(s).lexeme \in Lexeme
         /\ Previous(s) \in [type : TokenType, lexeme : Lexeme]
         /\ Current(s) \in [type : TokenType, lexeme : Lexeme]
<1>1. tokens \in Seq([type : TokenType, lexeme : Lexeme]) /\ DOMAIN tokens = 1 .. Len(tokens)
  BY DEF TokensOk
<1>2. \A p \in 1 .. Len(tokens) : /\ tokens[p] \in [type : TokenType, lexeme : Lexeme]
                                 /\ tokens[p].lexeme \in Lexeme
  <2> TAKE p \in 1 .. Len(tokens)
  <2>1. tokens[p] \in [type : TokenType, lexeme : Lexeme]
    <3> DEFINE T == [type : TokenType, lexeme : Lexeme]
    <3>1. tokens \in Seq(T)
      BY <1>1
    <3> HIDE DEF T
    <3>2. tokens[p] \in T
      BY <3>1
    <3> QED
      BY <3>2 DEF T
  <2> QED
    BY <2>1
<1> QED
  BY <1>2 DEF InText, Previous, Current

(* A compiler with other locals. *)
WithLocals(c, locals) == [c EXCEPT !.locals = locals]

(* Other locals leave the rest of a compiler as it is. *)
LEMMA WithLocalsFacts ==
  ASSUME NEW c \in CompilerType, NEW locals \in Seq(LocalType)
  PROVE  /\ WithLocals(c, locals) \in CompilerType
         /\ WithLocals(c, locals).function = c.function
         /\ WithLocals(c, locals).scope_depth = c.scope_depth
         /\ WithLocals(c, locals).upvalues = c.upvalues
         /\ WithLocals(c, locals).locals = locals
         /\ WithLocals(c, locals).current = c.current
         /\ WithLocals(c, locals).previous = c.previous
         /\ WithLocals(c, locals).panic_mode = c.panic_mode
         /\ WithLocals(c, locals).had_error = c.had_error
BY DEF CompilerType, WithLocals

(* A local is appended that is not ready. *)
LEMMA AppendLocal ==
  ASSUME NEW s, Base(s), NEW name \in Lexeme,
         This(s).scope_depth # 0, Len(This(s).locals) <= UINT8_MAX
  PROVE  LET t == [s EXCEPT !.compilers[Me(s)].locals = Append(@, NewLocal(name, -1))]
         IN  Declares(s, t) /\ t.functions = s.functions
<1> DEFINE k == Me(s)
           locals == Append(This(s).locals, NewLocal(name, -1))
           c == WithLocals(This(s), locals)
           t == WithCompiler(s, k, c)
           u == [s EXCEPT !.compilers[Me(s)].locals = Append(@, NewLocal(name, -1))]
<1>1. /\ IsState(s) /\ k \in DOMAIN s.compilers /\ k = Len(s.compilers) /\ This(s) \in CompilerType
      /\ This(s) = s.compilers[k]
  BY BaseFacts
<1>2. u = t
  BY <1>1 DEF IsState, WithCompiler, WithLocals, CompilerType
<1>3. /\ This(s).locals \in Seq(LocalType) /\ Len(This(s).locals) \in 1 .. UINT8_MAX + 1
      /\ DOMAIN This(s).locals = 1 .. Len(This(s).locals)
      /\ Len(This(s).locals) \in Nat /\ This(s).scope_depth \in Nat
      /\ \A i \in DOMAIN This(s).locals : DepthOk(i, This(s).locals[i].depth)
  BY OwnFacts
<1>4. NewLocal(name, -1) \in LocalType /\ NewLocal(name, -1).depth = -1
  BY DEF NewLocal, LocalType
<1>5. /\ locals \in Seq(LocalType)
      /\ Len(locals) = Len(This(s).locals) + 1
      /\ DOMAIN locals = 1 .. Len(This(s).locals) + 1
      /\ \A i \in 1 .. Len(This(s).locals) : locals[i] = This(s).locals[i]
      /\ locals[Len(This(s).locals) + 1] = NewLocal(name, -1)
  BY <1>3, <1>4, AppendProperties
<1> HIDE DEF locals
<1>6. ASSUME NEW i \in DOMAIN locals PROVE DepthOk(i, locals[i].depth)
  <2>1. CASE i \in 1 .. Len(This(s).locals)
    BY <1>3, <1>5, <2>1
  <2>2. CASE i = Len(This(s).locals) + 1
    BY <1>3, <1>4, <1>5, <2>2 DEF DepthOk
  <2> QED
    BY <1>3, <1>5, <2>1, <2>2
<1>7. /\ c \in CompilerType
      /\ c.function = This(s).function
      /\ c.scope_depth = This(s).scope_depth
      /\ c.upvalues = This(s).upvalues
      /\ c.locals = locals
      /\ c.current = This(s).current
      /\ c.previous = This(s).previous
      /\ c.panic_mode = This(s).panic_mode
      /\ c.had_error = This(s).had_error
  BY <1>1, <1>5, WithLocalsFacts
<1> HIDE DEF c
<1>8. Len(c.locals) \in 1 .. UINT8_MAX + 1
  BY <1>3, <1>5, <1>7, ByteAssumption
<1>9. /\ Base(t)
      /\ t.work = s.work /\ t.functions = s.functions
      /\ Len(t.compilers) = Len(s.compilers)
      /\ DOMAIN t.compilers = DOMAIN s.compilers
      /\ Me(t) = Me(s)
      /\ This(t) = c
      /\ \A j \in DOMAIN s.compilers : t.compilers[j] = IF j = Me(s) THEN c ELSE s.compilers[j]
  BY <1>6, <1>7, <1>8, LocalsChange
<1> HIDE DEF t
<1>10. SameDepths(s, t)
  BY <1>1, <1>7, <1>9 DEF SameDepths
<1>11. ASSUME Settled(s) PROVE Nearly(t)
  <2> SUFFICES ASSUME NEW j \in DOMAIN t.compilers, NEW i \in DOMAIN t.compilers[j].locals,
                      t.compilers[j].locals[i].depth = -1
               PROVE  j = Me(t) /\ i = Len(t.compilers[j].locals)
    BY DEF Nearly
  <2>1. j = k
    BY <1>9, <1>11 DEF Settled
  <2>2. i \in DOMAIN locals /\ locals[i].depth = -1 /\ t.compilers[j].locals = locals
    BY <1>7, <1>9, <2>1
  <2>3. \A n \in DOMAIN This(s).locals : This(s).locals[n].depth # -1
    BY <1>1, <1>11 DEF Settled
  <2>4. i = Len(locals)
    BY <1>3, <1>5, <2>2, <2>3
  <2> QED
    BY <1>9, <2>1, <2>2, <2>4
<1>12. Declared(This(t))
  BY <1>3, <1>5, <1>7, <1>9 DEF Declared
<1>13. (InText(s) => InText(t)) /\ This(s).current <= This(t).current
  <2>1. This(s).current \in Nat
    BY <1>1 DEF CompilerType
  <2> QED
    BY <1>7, <1>9, <2>1 DEF InText
<1>14. Declares(s, t)
  BY <1>9, <1>10, <1>11, <1>12, <1>13 DEF Declares
<1> QED
  BY <1>2, <1>9, <1>14

(* declare_variable *)
LEMMA DeclareVariableFacts ==
  ASSUME TokensOk, NEW s, Base(s), InText(s)
  PROVE  Declares(s, DeclareVariable(s)) /\ DeclareVariable(s).functions = s.functions
<1> DEFINE locals == This(s).locals
           depth  == This(s).scope_depth
           name   == Previous(s).lexeme
           clash  == \E i \in DOMAIN locals :
                       /\ locals[i].name = name
                       /\ \A j \in i .. Len(locals) : locals[j].depth >= depth
           t == IF clash THEN ErrorAtPrevious(s, "Variable with this name already in scope.") ELSE s
           e == ErrorAtPrevious(t, "Too many local variables.")
           a == [t EXCEPT !.compilers[Me(s)].locals = Append(@, NewLocal(name, -1))]
<1>1. DeclareVariable(s) = IF depth = 0 THEN s ELSE IF Len(locals) > UINT8_MAX THEN e ELSE a
  BY DEF DeclareVariable
<1>2. name \in Lexeme
  BY LexemeFacts
<1> HIDE DEF clash, name
<1>3. Keeps(s, t) /\ OnlyFlags(s, t)
  <2>1. CASE clash
    BY <2>1, ErrorFacts
  <2>2. CASE ~clash
    BY <2>2, KeepsReflexive DEF OnlyFlags
  <2> QED
    BY <2>1, <2>2
<1> HIDE DEF t
<1>4. Base(t) /\ Me(t) = Me(s) /\ This(t).locals = locals /\ This(t).scope_depth = depth
      /\ t.functions = s.functions
  BY <1>3, OnlyFlagsFacts DEF Keeps, OnlyFlags
<1>5. depth \in Nat /\ Len(locals) \in 1 .. UINT8_MAX + 1
  BY OwnFacts
<1>6. CASE depth = 0
  <2>1. Declared(This(s))
    BY <1>6 DEF Declared
  <2> QED
    BY <1>1, <1>6, <2>1, KeepsReflexive, KeptDeclared
<1>7. CASE depth # 0 /\ Len(locals) > UINT8_MAX
  <2>1. Keeps(t, e) /\ e.functions = s.functions
    BY <1>4, ErrorFacts, ZenonT(60) DEF OnlyFlags
  <2> HIDE DEF e
  <2>2. Keeps(s, e)
    BY <1>3, <1>4, <2>1, KeepsTransitive
  <2>3. Declared(This(s))
    BY <1>5, <1>7, ByteAssumption DEF Declared
  <2> QED
    BY <1>1, <1>7, <2>1, <2>2, <2>3, KeptDeclared
<1>8. CASE depth # 0 /\ ~(Len(locals) > UINT8_MAX)
  <2>1. Len(This(t).locals) <= UINT8_MAX
    BY <1>4, <1>5, <1>8, ByteAssumption
  <2>2. Declares(t, a) /\ a.functions = t.functions
    BY <1>2, <1>4, <1>8, <2>1, AppendLocal
  <2> HIDE DEF a
  <2> QED
    BY <1>1, <1>3, <1>4, <1>8, <2>2, DeclaresFirst
<1> QED
  BY <1>6, <1>7, <1>8

(* parse_variable *)
LEMMA ParseVariableFacts ==
  ASSUME TokensOk, NEW s, Base(s), InText(s)
  PROVE  Declares(s, ParseVariable(s)) /\ VariableIndex(s) \in 0 .. UINT8_MAX
<1> DEFINE r == Consume(s, "IDENTIFIER")
           t == DeclareVariable(r)
           val == Str(Previous(t).lexeme)
<1>1. Keeps(s, r) /\ InText(r)
  BY ConsumeFacts
<1> HIDE DEF r
<1>2. Base(r)
  BY <1>1 DEF Keeps
<1>3. Declares(r, t)
  BY <1>1, <1>2, DeclareVariableFacts
<1>4. Declares(s, t)
  BY <1>1, <1>3, DeclaresFirst
<1>5. Base(t) /\ InText(t)
  BY <1>1, <1>3 DEF Declares
<1>6. val \in ConstantType /\ IsConstant(t.functions, val)
  <2>1. Previous(t).lexeme \in Lexeme
    BY <1>5, LexemeFacts
  <2> HIDE DEF t
  <2>2. val \in ConstantType
    BY <2>1 DEF ConstantType
  <2>3. IsStr(val)
    BY DEF Str, IsStr
  <2> QED
    BY <2>2, <2>3 DEF IsConstant
<1>7. ParseVariable(s) = IF This(s).scope_depth = 0 THEN AddConstant(t, val) ELSE t
  BY DEF ParseVariable, r
<1> HIDE DEF t, val
<1>8. Keeps(t, AddConstant(t, val))
  BY <1>5, <1>6, AddConstantFacts
<1>9. Declares(s, AddConstant(t, val))
  BY <1>4, <1>8, DeclaresLast
<1>10. VariableIndex(s) \in 0 .. UINT8_MAX
  <2>1. Len(Function(s).constants) \in Nat
    BY BaseFacts DEF FunctionType
  <2>2. \A n \in Nat : AsByte(n) \in 0 .. UINT8_MAX
    BY ByteFacts
  <2>3. ConstantIndex(s) \in 0 .. UINT8_MAX
    BY <2>1, <2>2, Zenon DEF ConstantIndex
  <2> QED
    BY <2>3, ByteAssumption DEF VariableIndex
<1> QED
  BY <1>4, <1>7, <1>9, <1>10

(* The locals with one of them ready. *)
Readied(locals, n, depth) == [locals EXCEPT ![n] = [locals[n] EXCEPT !.depth = depth, !.ready = TRUE]]

(* Making a local ready gives it its depth, and leaves the others theirs. *)
LEMMA ReadiedFacts ==
  ASSUME NEW locals \in Seq(LocalType), NEW n \in 1 .. Len(locals), NEW depth \in Int
  PROVE  /\ Readied(locals, n, depth) \in Seq(LocalType)
         /\ Len(Readied(locals, n, depth)) = Len(locals)
         /\ \A i \in 1 .. Len(locals) :
              Readied(locals, n, depth)[i].depth = IF i = n THEN depth ELSE locals[i].depth
<1> DEFINE l == [locals[n] EXCEPT !.depth = depth, !.ready = TRUE]
<1>1. locals[n] \in LocalType
  OBVIOUS
<1>2. l \in LocalType /\ l.depth = depth
  BY <1>1 DEF LocalType
<1> HIDE DEF l
<1>3. Readied(locals, n, depth) = [locals EXCEPT ![n] = l]
  BY DEF Readied, l
<1>4. /\ [locals EXCEPT ![n] = l] \in Seq(LocalType)
      /\ Len([locals EXCEPT ![n] = l]) = Len(locals)
      /\ \A i \in 1 .. Len(locals) : [locals EXCEPT ![n] = l][i] = IF i = n THEN l ELSE locals[i]
  BY <1>2, ExceptSeq
<1> QED
  BY <1>2, <1>3, <1>4

(* Ends a declaration. *)
Defines(s, t) ==
  /\ Base(t)
  /\ t.work = s.work
  /\ SameDepths(s, t)
  /\ Nearly(s) => Settled(t)
  /\ Declared(This(t))
  /\ InText(s) => InText(t)
  /\ This(s).current <= This(t).current

(* mark_ready, when the innermost compiler has a local beside its own. *)
LEMMA MarkReadyFacts ==
  ASSUME NEW s, Base(s), Declared(This(s)), This(s).scope_depth > 0
  PROVE  Defines(s, MarkReady(s)) /\ MarkReady(s).functions = s.functions
<1> DEFINE k == Me(s)
           n == Len(This(s).locals)
           depth == This(s).scope_depth
           locals == Readied(This(s).locals, n, depth)
           c == WithLocals(This(s), locals)
           t == WithCompiler(s, k, c)
<1>1. /\ IsState(s) /\ k \in DOMAIN s.compilers /\ k = Len(s.compilers) /\ This(s) \in CompilerType
      /\ This(s) = s.compilers[k]
  BY BaseFacts
<1>2. /\ This(s).locals \in Seq(LocalType) /\ n \in 1 .. UINT8_MAX + 1
      /\ DOMAIN This(s).locals = 1 .. n
      /\ n \in Nat /\ depth \in Nat /\ n >= 2
      /\ \A i \in DOMAIN This(s).locals : DepthOk(i, This(s).locals[i].depth)
  BY OwnFacts DEF Declared
<1>3. MarkReady(s) = t
  BY <1>1 DEF MarkReady, IsState, WithCompiler, WithLocals, CompilerType, Readied
<1>4. /\ locals \in Seq(LocalType)
      /\ Len(locals) = n
      /\ \A i \in 1 .. n : locals[i].depth = IF i = n THEN depth ELSE This(s).locals[i].depth
  <2>1. n \in 1 .. Len(This(s).locals) /\ depth \in Int /\ n = Len(This(s).locals)
    BY <1>2
  <2> HIDE DEF n, depth
  <2> QED
    BY <1>2, <2>1, ReadiedFacts
<1> HIDE DEF locals
<1>5. DOMAIN locals = 1 .. n
  BY <1>4
<1>6. ASSUME NEW i \in DOMAIN locals PROVE DepthOk(i, locals[i].depth)
  BY <1>2, <1>4, <1>5 DEF DepthOk
<1>7. /\ c \in CompilerType
      /\ c.function = This(s).function
      /\ c.scope_depth = This(s).scope_depth
      /\ c.upvalues = This(s).upvalues
      /\ c.locals = locals
      /\ c.current = This(s).current
      /\ c.previous = This(s).previous
      /\ c.panic_mode = This(s).panic_mode
      /\ c.had_error = This(s).had_error
  BY <1>1, <1>4, WithLocalsFacts
<1> HIDE DEF c
<1>8. /\ Base(t)
      /\ t.work = s.work /\ t.functions = s.functions
      /\ Len(t.compilers) = Len(s.compilers)
      /\ DOMAIN t.compilers = DOMAIN s.compilers
      /\ Me(t) = Me(s)
      /\ This(t) = c
      /\ \A j \in DOMAIN s.compilers : t.compilers[j] = IF j = Me(s) THEN c ELSE s.compilers[j]
  <2>1. Len(c.locals) \in 1 .. UINT8_MAX + 1
    BY <1>2, <1>4, <1>7
  <2> QED
    BY <1>6, <1>7, <2>1, LocalsChange
<1> HIDE DEF t
<1>9. SameDepths(s, t)
  BY <1>1, <1>7, <1>8 DEF SameDepths
<1>10. ASSUME Nearly(s) PROVE Settled(t)
  <2> SUFFICES ASSUME NEW j \in DOMAIN t.compilers, NEW i \in DOMAIN t.compilers[j].locals
               PROVE  t.compilers[j].locals[i].depth # -1
    BY DEF Settled
  <2>1. CASE j # k
    BY <1>8, <1>10, <2>1 DEF Nearly
  <2>2. CASE j = k
    <3>1. t.compilers[j].locals = locals /\ i \in 1 .. n
      BY <1>5, <1>7, <1>8, <2>2
    <3>2. CASE i = n
      BY <1>2, <1>4, <3>1, <3>2
    <3>3. CASE i # n
      <4>1. This(s).locals[i].depth # -1
        BY <1>1, <1>2, <1>10, <3>1, <3>3 DEF Nearly
      <4> QED
        BY <1>4, <3>1, <3>3, <4>1
    <3> QED
      BY <3>2, <3>3
  <2> QED
    BY <2>1, <2>2
<1>11. Declared(This(t))
  BY <1>2, <1>4, <1>7, <1>8 DEF Declared
<1>12. (InText(s) => InText(t)) /\ This(s).current <= This(t).current
  <2>1. This(s).current \in Nat
    BY <1>1 DEF CompilerType
  <2> QED
    BY <1>7, <1>8, <2>1 DEF InText
<1>13. Defines(s, t)
  BY <1>8, <1>9, <1>10, <1>11, <1>12 DEF Defines
<1> QED
  BY <1>3, <1>8, <1>13

(* At the outermost level nothing waits to be ready. *)
LEMMA OutermostSettled ==
  ASSUME NEW s, Base(s), This(s).scope_depth = 0, Nearly(s)
  PROVE  Settled(s)
<1>1. This(s).locals = s.compilers[Me(s)].locals
  BY BaseFacts
<1>2. Len(This(s).locals) = 1 /\ DOMAIN This(s).locals = 1 .. Len(This(s).locals)
      /\ \A i \in DOMAIN This(s).locals : DepthOk(i, This(s).locals[i].depth)
  BY OwnFacts
<1>3. \A i \in DOMAIN This(s).locals : This(s).locals[i].depth # -1
  BY <1>2 DEF DepthOk
<1> QED
  BY <1>1, <1>3 DEF Nearly, Settled

(* define_variable *)
LEMMA DefineVariableFacts ==
  ASSUME NEW s, Base(s), Declared(This(s)), NEW index \in 0 .. UINT8_MAX
  PROVE  Defines(s, DefineVariable(s, index))
<1>1. CASE This(s).scope_depth > 0
  BY <1>1, MarkReadyFacts DEF DefineVariable
<1>2. CASE ~(This(s).scope_depth > 0)
  <2> DEFINE t == EmitWith(s, "OP_DEFINE_GLOBAL", index)
  <2>1. Keeps(s, t)
    <3>1. "OP_DEFINE_GLOBAL" \in OpCode
      <4>1. 10 \in DOMAIN OpCodes /\ OpCodes[10] = "OP_DEFINE_GLOBAL"
        BY DEF OpCodes
      <4> QED
        BY <4>1 DEF OpCode
    <3>2. index \in Byte
      BY ByteFacts
    <3> QED
      BY <3>1, <3>2, EmitFacts
  <2>2. DefineVariable(s, index) = t
    BY <1>2 DEF DefineVariable
  <2> HIDE DEF t
  <2>3. Base(t) /\ SameScopes(s, t)
    BY <2>1 DEF Keeps
  <2>4. SameDepths(s, t) /\ (Settled(s) => Settled(t)) /\ Declared(This(t))
    BY <2>3, ScopesKept
  <2>5. This(s).scope_depth = 0
    BY <1>2, OwnFacts
  <2>6. Nearly(s) => Settled(t)
    BY <2>4, <2>5, OutermostSettled
  <2>7. Defines(s, t)
    BY <2>1, <2>3, <2>4, <2>6 DEF Defines, Keeps
  <2> QED
    BY <2>2, <2>7
<1> QED
  BY <1>1, <1>2

(* begin_scope *)
LEMMA BeginScopeFacts ==
  ASSUME NEW s, Base(s)
  PROVE  LET t == BeginScope(s)
         IN  /\ Base(t)
             /\ t.work = s.work /\ t.functions = s.functions
             /\ Len(t.compilers) = Len(s.compilers)
             /\ \A j \in DOMAIN s.compilers :
                  t.compilers[j].scope_depth = s.compilers[j].scope_depth + IF j = Me(s) THEN 1 ELSE 0
             /\ Settled(s) => Settled(t)
             /\ InText(s) => InText(t)
             /\ This(t).current = This(s).current /\ This(t).previous = This(s).previous
             /\ This(t).function = This(s).function
<1> DEFINE k == Me(s)
           depth == This(s).scope_depth + 1
           c == [This(s) EXCEPT !.scope_depth = depth]
           t == WithCompiler(s, k, c)
<1>1. /\ IsState(s) /\ k \in DOMAIN s.compilers /\ k = Len(s.compilers) /\ This(s) \in CompilerType
      /\ This(s) = s.compilers[k]
  BY BaseFacts
<1>2. BeginScope(s) = t
  BY <1>1 DEF BeginScope, IsState, WithCompiler, CompilerType
<1>3. depth \in Nat /\ depth # 0
  BY OwnFacts
<1>4. /\ c \in CompilerType
      /\ c.function = This(s).function
      /\ c.scope_depth = depth
      /\ c.upvalues = This(s).upvalues
      /\ c.locals = This(s).locals
      /\ c.current = This(s).current
      /\ c.previous = This(s).previous
      /\ c.panic_mode = This(s).panic_mode
      /\ c.had_error = This(s).had_error
  <2> HIDE DEF depth
  <2> QED
    BY <1>1, <1>3 DEF CompilerType
<1> HIDE DEF c
<1>5. /\ Base(t)
      /\ t.work = s.work /\ t.functions = s.functions
      /\ Len(t.compilers) = Len(s.compilers)
      /\ DOMAIN t.compilers = DOMAIN s.compilers
      /\ Me(t) = Me(s)
      /\ This(t) = c
      /\ \A j \in DOMAIN s.compilers : t.compilers[j] = IF j = Me(s) THEN c ELSE s.compilers[j]
  BY <1>3, <1>4, OwnFacts, LocalsChange
<1> HIDE DEF t
<1>6. \A j \in DOMAIN s.compilers : t.compilers[j].locals = s.compilers[j].locals
  BY <1>1, <1>4, <1>5
<1>7. Settled(s) => Settled(t)
  BY <1>5, <1>6 DEF Settled
<1>8. ASSUME NEW j \in DOMAIN s.compilers
      PROVE  t.compilers[j].scope_depth = s.compilers[j].scope_depth + IF j = k THEN 1 ELSE 0
  <2>1. s.compilers[j].scope_depth \in Nat
    BY BaseFacts DEF CompilerType
  <2> QED
    BY <1>1, <1>4, <1>5, <2>1
<1>9. InText(s) => InText(t)
  BY <1>4, <1>5 DEF InText
<1> QED
  BY <1>2, <1>4, <1>5, <1>7, <1>8, <1>9

(* Leaving a scope emits one operation for each local that goes. *)
LEMMA ScopeExitFacts ==
  ASSUME NEW locals \in Seq(LocalType), NEW kept \in 1 .. Len(locals)
  PROVE  LET gone == Reverse(SubSeq(locals, kept + 1, Len(locals)))
         IN  [i \in DOMAIN gone |-> ScopeExitCode(gone[i])] \in Seq(OpCode)
<1> DEFINE gone == Reverse(SubSeq(locals, kept + 1, Len(locals)))
           n == Len(SubSeq(locals, kept + 1, Len(locals)))
           codes == [i \in DOMAIN gone |-> ScopeExitCode(gone[i])]
<1>1. "OP_CLOSE_UPVALUE" \in OpCode /\ "OP_POP" \in OpCode
  <2>1. 30 \in DOMAIN OpCodes /\ OpCodes[30] = "OP_CLOSE_UPVALUE" /\ 6 \in DOMAIN OpCodes /\ OpCodes[6] = "OP_POP"
    BY DEF OpCodes
  <2> QED
    BY <2>1 DEF OpCode
<1>2. \A l : ScopeExitCode(l) \in OpCode
  BY <1>1 DEF ScopeExitCode
<1>3. n \in Nat
  BY SubSeqProperties
<1>4. DOMAIN gone = 1 .. n
  BY DEF Reverse
<1> HIDE DEF gone, n
<1>5. IsSeq(codes) /\ Len(codes) = n
  BY <1>3, <1>4, FunctionIsSeq
<1>6. \A i \in 1 .. n : codes[i] \in OpCode
  BY <1>2, <1>4
<1> HIDE DEF codes
<1>7. codes \in Seq(OpCode)
  BY <1>5, <1>6, SeqOfType
<1> QED
  BY <1>7 DEF codes, gone

(* end_scope, when no declaration is unfinished. *)
LEMMA EndScopeFacts ==
  ASSUME NEW s, Base(s), Settled(s), This(s).scope_depth >= 1
  PROVE  LET t == EndScope(s)
         IN  /\ Base(t)
             /\ t.work = s.work
             /\ Len(t.compilers) = Len(s.compilers)
             /\ \A j \in DOMAIN s.compilers :
                  t.compilers[j].scope_depth = s.compilers[j].scope_depth - IF j = Me(s) THEN 1 ELSE 0
             /\ Settled(t)
             /\ InText(s) => InText(t)
             /\ This(t).current = This(s).current
<1> DEFINE k == Me(s)
           all == This(s).locals
           depth == This(s).scope_depth - 1
           kept == SelectLastInSeq(all, LAMBDA l : l.depth <= depth)
           locals == SubSeq(all, 1, kept)
           c == [This(s) EXCEPT !.scope_depth = depth, !.locals = locals]
           t == WithCompiler(s, k, c)
           gone == Reverse(SubSeq(all, kept + 1, Len(all)))
           codes == [i \in DOMAIN gone |-> ScopeExitCode(gone[i])]
<1>1. /\ IsState(s) /\ k \in DOMAIN s.compilers /\ k = Len(s.compilers) /\ This(s) \in CompilerType
      /\ This(s) = s.compilers[k]
  BY BaseFacts
<1>2. /\ all \in Seq(LocalType) /\ Len(all) \in 1 .. UINT8_MAX + 1
      /\ DOMAIN all = 1 .. Len(all)
      /\ Len(all) \in Nat /\ depth \in Nat
      /\ \A i \in DOMAIN all : DepthOk(i, all[i].depth) /\ all[i].depth # -1
  BY <1>1, OwnFacts DEF Settled
<1>3. kept \in 1 .. Len(all) /\ all[kept].depth <= depth
  <2> DEFINE I == {i \in 1 .. Len(all) : all[i].depth <= depth}
  <2>1. 1 \in I
    BY <1>2 DEF DepthOk
  <2>2. kept = Max(I)
    BY <2>1 DEF SelectLastInSeq
  <2>3. Max(I) \in I
    <3> HIDE DEF I
    <3>1. I \in SUBSET (1 .. Len(all))
      BY DEF I
    <3> QED
      BY <1>2, <2>1, <3>1, MaxFacts
  <2> HIDE DEF kept
  <2> QED
    BY <2>2, <2>3
<1>4. EndScope(s) = EmitAll(t, codes)
  <2>1. t = [s EXCEPT !.compilers[Me(s)].scope_depth = depth,
                      !.compilers[Me(s)].locals = SubSeq(@, 1, kept)]
    <3> HIDE DEF kept, depth
    <3> QED
      BY <1>1 DEF IsState, WithCompiler, CompilerType
  <2> HIDE DEF t
  <2> QED
    BY <2>1 DEF EndScope
<1> HIDE DEF kept
<1>5. /\ locals \in Seq(LocalType)
      /\ Len(locals) = kept
      /\ DOMAIN locals = 1 .. kept
      /\ \A i \in 1 .. kept : locals[i] = all[i]
  <2>1. \A i \in 1 .. kept : all[i] \in LocalType
    BY <1>2, <1>3
  <2> QED
    BY <1>2, <1>3, <2>1, SubSeqProperties
<1>6. codes \in Seq(OpCode)
  BY <1>2, <1>3, ScopeExitFacts
<1> HIDE DEF locals, codes, gone
<1>7. /\ c \in CompilerType
      /\ c.function = This(s).function
      /\ c.scope_depth = depth
      /\ c.upvalues = This(s).upvalues
      /\ c.locals = locals
      /\ c.current = This(s).current
      /\ c.previous = This(s).previous
      /\ c.panic_mode = This(s).panic_mode
      /\ c.had_error = This(s).had_error
  <2> HIDE DEF depth
  <2> QED
    BY <1>1, <1>2, <1>5 DEF CompilerType
<1>8. depth = 0 => kept = 1
  <2> SUFFICES ASSUME depth = 0, kept # 1 PROVE FALSE
    OBVIOUS
  <2>1. kept \in DOMAIN all /\ all[kept].depth <= 0
    BY <1>2, <1>3
  <2>2. DepthOk(kept, all[kept].depth) /\ all[kept].depth # -1
    BY <1>2, <2>1
  <2>3. all[kept].depth \in Int
    <3>1. all[kept] \in LocalType
      BY <1>2, <2>1
    <3> QED
      BY <3>1 DEF LocalType
  <2> HIDE DEF all, depth
  <2> QED
    BY <2>1, <2>2, <2>3 DEF DepthOk
<1> HIDE DEF c
<1>9. /\ Base(t)
      /\ t.work = s.work /\ t.functions = s.functions
      /\ Len(t.compilers) = Len(s.compilers)
      /\ DOMAIN t.compilers = DOMAIN s.compilers
      /\ Me(t) = Me(s)
      /\ This(t) = c
      /\ \A j \in DOMAIN s.compilers : t.compilers[j] = IF j = Me(s) THEN c ELSE s.compilers[j]
  <2>1. \A i \in DOMAIN c.locals : DepthOk(i, c.locals[i].depth)
    BY <1>2, <1>3, <1>5, <1>7
  <2>2. Len(c.locals) \in 1 .. UINT8_MAX + 1 /\ (c.scope_depth = 0 => Len(c.locals) = 1)
    <3>1. Len(c.locals) = kept /\ c.scope_depth = depth
      BY <1>5, <1>7
    <3>2. kept \in 1 .. UINT8_MAX + 1
      <4> HIDE DEF all
      <4> QED
        BY <1>2, <1>3, ByteAssumption
    <3> QED
      BY <1>8, <3>1, <3>2
  <2> QED
    BY <1>7, <2>1, <2>2, LocalsChange
<1> HIDE DEF t
<1>10. ASSUME NEW j \in DOMAIN s.compilers
       PROVE  t.compilers[j].scope_depth = s.compilers[j].scope_depth - IF j = k THEN 1 ELSE 0
  <2>1. s.compilers[j].scope_depth \in Nat
    BY BaseFacts DEF CompilerType
  <2> QED
    BY <1>1, <1>7, <1>9, <2>1
<1>11. Settled(t)
  <2> SUFFICES ASSUME NEW j \in DOMAIN t.compilers, NEW i \in DOMAIN t.compilers[j].locals
               PROVE  t.compilers[j].locals[i].depth # -1
    BY DEF Settled
  <2>1. CASE j # k
    BY <1>9, <2>1 DEF Settled
  <2>2. CASE j = k
    <3>1. t.compilers[j].locals = locals /\ i \in 1 .. kept
      BY <1>5, <1>7, <1>9, <2>2
    <3> QED
      BY <1>2, <1>3, <1>5, <3>1
  <2> QED
    BY <2>1, <2>2
<1>12. InText(s) => InText(t)
  BY <1>7, <1>9 DEF InText
<1>13. Keeps(t, EmitAll(t, codes)) /\ EmitAll(t, codes).compilers = t.compilers
  BY <1>6, <1>9, EmitAllFacts
<1> DEFINE e == EmitAll(t, codes)
<1>14. Base(e) /\ e.work = t.work /\ (InText(t) => InText(e)) /\ e.compilers = t.compilers
  BY <1>13 DEF Keeps
<1> HIDE DEF e
<1>15. This(e) = This(t) /\ Settled(e)
  BY <1>11, <1>14 DEF This, Me, Settled
<1>16. EndScope(s) = e
  BY <1>4 DEF e
<1> QED
  BY <1>7, <1>9, <1>10, <1>12, <1>14, <1>15, <1>16

(* A function gets another upvalue, and its compiler knows. *)
WithUpvalue(s, k, c, E) ==
  [s EXCEPT !.compilers = [s.compilers EXCEPT ![k] = c],
            !.functions = [s.functions EXCEPT ![c.function] =
                             [s.functions[c.function] EXCEPT !.upvalue_count = @ + 1]],
            !.errors = E]

(* One more upvalue of a compiler is one more of its function, and of no other. *)
LEMMA WithUpvalueFacts ==
  ASSUME NEW s, Base(s), NEW k \in DOMAIN s.compilers, NEW c \in CompilerType, NEW E,
         c.function = s.compilers[k].function
  PROVE  LET t == WithUpvalue(s, k, c, E)
         IN  /\ IsState(t)
             /\ t.errors = E /\ t.work = s.work
             /\ Len(t.compilers) = Len(s.compilers)
             /\ DOMAIN t.compilers = DOMAIN s.compilers
             /\ \A j \in DOMAIN s.compilers : t.compilers[j] = IF j = k THEN c ELSE s.compilers[j]
             /\ DOMAIN t.functions = DOMAIN s.functions
             /\ \A j \in DOMAIN s.functions :
                  /\ t.functions[j].constants = s.functions[j].constants
                  /\ t.functions[j].upvalue_count =
                       s.functions[j].upvalue_count + IF j = c.function THEN 1 ELSE 0
<1> DEFINE f == c.function
           g == [s.functions[f] EXCEPT !.upvalue_count = @ + 1]
           fs == [s.functions EXCEPT ![f] = g]
           cs == [s.compilers EXCEPT ![k] = c]
           t == WithUpvalue(s, k, c, E)
<1>1. /\ IsState(s) /\ s.compilers \in Seq(CompilerType) /\ s.functions \in Seq(FunctionType)
      /\ DOMAIN s.compilers = 1 .. Len(s.compilers) /\ DOMAIN s.functions = 1 .. Len(s.functions)
      /\ f \in DOMAIN s.functions /\ s.functions[f] \in FunctionType
  BY BaseFacts
<1>2. g \in FunctionType /\ g.constants = s.functions[f].constants
      /\ g.upvalue_count = s.functions[f].upvalue_count + 1
  <2> DEFINE h == s.functions[f]
             n == h.upvalue_count + 1
  <2>1. h \in FunctionType
    BY <1>1
  <2>2. n \in Nat
    BY <2>1 DEF FunctionType
  <2>3. g = [h EXCEPT !.upvalue_count = n]
    OBVIOUS
  <2> HIDE DEF h, n
  <2>4. [h EXCEPT !.upvalue_count = n] \in FunctionType
        /\ [h EXCEPT !.upvalue_count = n].constants = h.constants
        /\ [h EXCEPT !.upvalue_count = n].upvalue_count = n
    BY <2>1, <2>2 DEF FunctionType
  <2> HIDE DEF g
  <2> QED
    BY <2>3, <2>4 DEF h, n
<1> HIDE DEF g
<1>3. /\ fs \in Seq(FunctionType) /\ Len(fs) = Len(s.functions)
      /\ \A j \in 1 .. Len(s.functions) : fs[j] = IF j = f THEN g ELSE s.functions[j]
  BY <1>1, <1>2, ExceptSeq
<1>4. /\ cs \in Seq(CompilerType) /\ Len(cs) = Len(s.compilers)
      /\ \A j \in 1 .. Len(s.compilers) : cs[j] = IF j = k THEN c ELSE s.compilers[j]
  BY <1>1, ExceptSeq
<1>5. DOMAIN fs = DOMAIN s.functions /\ DOMAIN cs = DOMAIN s.compilers
  OBVIOUS
<1>6. t = [s EXCEPT !.compilers = cs, !.functions = fs, !.errors = E]
  BY DEF WithUpvalue, g
<1> HIDE DEF cs, fs
<1>7. /\ t.compilers = cs /\ t.functions = fs /\ t.errors = E /\ t.work = s.work
      /\ IsState(t)
  BY <1>1, <1>3, <1>4, <1>6 DEF IsState
<1>8. \A j \in DOMAIN s.functions : s.functions[j].upvalue_count \in Nat
  <2>1. \A j \in DOMAIN s.functions : s.functions[j] \in FunctionType
    BY <1>1
  <2> QED
    BY <2>1 DEF FunctionType
<1>9. \A j \in DOMAIN s.functions :
                  /\ fs[j].constants = s.functions[j].constants
                  /\ fs[j].upvalue_count =
                       s.functions[j].upvalue_count + IF j = f THEN 1 ELSE 0
  BY <1>1, <1>2, <1>3, <1>8
<1> HIDE DEF t
<1> QED
  BY <1>1, <1>3, <1>4, <1>5, <1>7, <1>9 DEF t

(* A compiler may get an upvalue that resolves, within the limit or with an error. *)
LEMMA UpvalueChange ==
  ASSUME NEW s, Base(s), NEW k \in DOMAIN s.compilers, NEW c \in CompilerType, NEW E,
         NEW uv \in UpvalueType,
         c.function = s.compilers[k].function,
         c.locals = s.compilers[k].locals,
         c.scope_depth = s.compilers[k].scope_depth,
         c.current = s.compilers[k].current,
         c.previous = s.compilers[k].previous,
         c.upvalues = Append(s.compilers[k].upvalues, uv),
         s.errors # {} => E # {},
         c.panic_mode \/ c.had_error => E # {},
         E = {} => /\ Len(s.compilers[k].upvalues) <= UINT8_MAX
                   /\ UpvalueResolves(s.compilers[k - 1], uv)
  PROVE  Keeps(s, WithUpvalue(s, k, c, E))
<1> DEFINE t == WithUpvalue(s, k, c, E)
           f == c.function
           ups == s.compilers[k].upvalues
<1>1. /\ IsState(t)
      /\ t.errors = E /\ t.work = s.work
      /\ Len(t.compilers) = Len(s.compilers)
      /\ DOMAIN t.compilers = DOMAIN s.compilers
      /\ \A j \in DOMAIN s.compilers : t.compilers[j] = IF j = k THEN c ELSE s.compilers[j]
      /\ DOMAIN t.functions = DOMAIN s.functions
      /\ \A j \in DOMAIN s.functions :
           /\ t.functions[j].constants = s.functions[j].constants
           /\ t.functions[j].upvalue_count = s.functions[j].upvalue_count + IF j = f THEN 1 ELSE 0
  BY WithUpvalueFacts
<1> HIDE DEF t
<1>2. /\ DOMAIN s.compilers = 1 .. Len(s.compilers) /\ Len(s.compilers) \in Nat
      /\ \A j \in DOMAIN s.compilers : s.compilers[j].function \in DOMAIN s.functions
      /\ s.compilers[k] \in CompilerType
      /\ s.compilers # <<>>
      /\ \A j \in DOMAIN s.compilers : CompilerOk(s, j)
      /\ \A j \in DOMAIN s.functions : FunctionOk(s, j)
      /\ \A j \in DOMAIN s.functions : s.functions[j].upvalue_count \in Nat
  <2>1. \A j \in DOMAIN s.functions : s.functions[j] \in FunctionType
    BY BaseFacts
  <2>2. \A j \in DOMAIN s.functions : s.functions[j].upvalue_count \in Nat
    BY <2>1 DEF FunctionType
  <2> QED
    BY <2>2, BaseFacts DEF Base
<1>3. /\ ups \in Seq(UpvalueType) /\ Len(ups) \in Nat /\ DOMAIN ups = 1 .. Len(ups)
      /\ Len(c.upvalues) = Len(ups) + 1 /\ DOMAIN c.upvalues = 1 .. Len(ups) + 1
      /\ \A i \in 1 .. Len(ups) : c.upvalues[i] = ups[i]
      /\ c.upvalues[Len(ups) + 1] = uv
  BY <1>2, AppendProperties DEF CompilerType
<1>4. \A j \in DOMAIN s.compilers : t.compilers[j].function = s.compilers[j].function
  BY <1>1
<1>5. \A j \in DOMAIN s.compilers : j # k => s.compilers[j].function # f
  <2> SUFFICES ASSUME NEW j \in DOMAIN s.compilers, j # k PROVE s.compilers[j].function # s.compilers[k].function
    OBVIOUS
  <2>1. \A i \in DOMAIN s.compilers : s.compilers[i].function \in Nat
    BY <1>2, BaseFacts
  <2>2. CASE j < k
    <3>1. j \in 1 .. k - 1
      BY <1>2, <2>2
    <3>2. s.compilers[j].function < s.compilers[k].function
      BY <1>2, <3>1 DEF CompilerOk
    <3> QED
      BY <2>1, <3>2
  <2>3. CASE k < j
    <3>1. k \in 1 .. j - 1
      BY <1>2, <2>3
    <3>2. s.compilers[k].function < s.compilers[j].function
      BY <1>2, <3>1 DEF CompilerOk
    <3> QED
      BY <2>1, <3>2
  <2> QED
    BY <1>2, <2>2, <2>3
<1>6. ASSUME NEW j \in DOMAIN t.compilers PROVE CompilerOk(t, j)
  <2>1. CompilerOk(s, j) /\ j \in DOMAIN s.compilers
    BY <1>1, <1>2
  <2>2. \A i \in 1 .. j - 1 : t.compilers[i].function < t.compilers[j].function
    <3> TAKE i \in 1 .. j - 1
    <3>1. i \in DOMAIN s.compilers
      BY <1>2, <2>1
    <3> QED
      BY <1>4, <2>1, <3>1 DEF CompilerOk
  <2>3. CASE j = k
    <3>1. t.compilers[j] = c
      BY <1>1, <2>3
    <3>2. Len(c.upvalues) = t.functions[f].upvalue_count
      <4>1. Len(ups) = s.functions[f].upvalue_count /\ f \in DOMAIN s.functions
        BY <1>2 DEF CompilerOk
      <4> QED
        BY <1>1, <1>3, <4>1
    <3> QED
      BY <1>1, <2>1, <2>2, <2>3, <3>1, <3>2 DEF CompilerOk, Declared
  <2>4. CASE j # k
    <3>1. t.compilers[j] = s.compilers[j]
      BY <1>1, <2>1, <2>4
    <3>2. Len(s.compilers[j].upvalues) = t.functions[s.compilers[j].function].upvalue_count
      BY <1>1, <1>2, <1>5, <2>1, <2>4 DEF CompilerOk
    <3> QED
      BY <1>1, <2>1, <2>2, <3>1, <3>2 DEF CompilerOk
  <2> QED
    BY <2>3, <2>4
<1>7. ASSUME NEW j \in DOMAIN t.functions PROVE FunctionOk(t, j)
  <2>1. FunctionOk(s, j) /\ t.functions[j].constants = s.functions[j].constants
    BY <1>1, <1>2
  <2>2. \A i \in DOMAIN s.functions[j].constants : IsConstant(t.functions, s.functions[j].constants[i])
    BY <1>1, <2>1, ConstantsStay DEF FunctionOk
  <2>3. ASSUME E = {} PROVE t.functions[j].upvalue_count <= UINT8_MAX + 1
    <3>1. CASE j = f
      <4>1. Len(ups) = s.functions[f].upvalue_count /\ Len(ups) <= UINT8_MAX
        BY <1>2, <2>3 DEF CompilerOk
      <4> QED
        BY <1>1, <1>3, <3>1, <4>1, ByteAssumption, SMTT(30)
    <3>2. CASE j # f
      BY <1>1, <1>2, <2>1, <2>3, <3>2 DEF FunctionOk
    <3> QED
      BY <3>1, <3>2
  <2> QED
    BY <1>1, <2>1, <2>2, <2>3 DEF FunctionOk
<1>8. Resolved(t)
  <2> SUFFICES ASSUME E = {}, NEW j \in 2 .. Len(s.compilers), NEW i \in DOMAIN t.compilers[j].upvalues
               PROVE  UpvalueResolves(t.compilers[j - 1], t.compilers[j].upvalues[i])
    BY <1>1 DEF Resolved
  <2>1. j \in DOMAIN s.compilers /\ j - 1 \in DOMAIN s.compilers
    BY <1>2
  <2>2. UpvalueResolves(s.compilers[j - 1], t.compilers[j].upvalues[i])
    <3>1. CASE j = k
      <4>1. t.compilers[j] = c
        BY <1>1, <2>1, <3>1
      <4>2. CASE i = Len(ups) + 1
        BY <1>3, <3>1, <4>1, <4>2
      <4>3. CASE i \in 1 .. Len(ups)
        <5>1. t.compilers[j].upvalues[i] = s.compilers[j].upvalues[i] /\ i \in DOMAIN s.compilers[j].upvalues
          BY <1>3, <3>1, <4>1, <4>3
        <5> QED
          BY <5>1 DEF Base, Resolved
      <4> QED
        BY <1>3, <4>1, <4>2, <4>3, SMTT(30)
    <3>2. CASE j # k
      <4>1. t.compilers[j] = s.compilers[j]
        BY <1>1, <2>1, <3>2
      <4> QED
        BY <4>1 DEF Base, Resolved
    <3> QED
      BY <3>1, <3>2
  <2>3. t.compilers[j].upvalues[i].index \in Nat
    <3>1. t.compilers[j].upvalues \in Seq(UpvalueType)
      <4>1. t.compilers[j] \in CompilerType
        BY <1>1, <2>1, BaseFacts
      <4> QED
        BY <4>1 DEF CompilerType
    <3>2. t.compilers[j].upvalues[i] \in UpvalueType
      BY <3>1
    <3> QED
      BY <3>2 DEF UpvalueType
  <2>4. CASE j - 1 = k
    <3>1. t.compilers[j - 1] = c
      BY <1>1, <2>1, <2>4
    <3> DEFINE x == t.compilers[j].upvalues[i]
    <3>2. x.index \in Nat /\ UpvalueResolves(s.compilers[k], x)
      BY <2>2, <2>3, <2>4
    <3> HIDE DEF x
    <3>3. UpvalueResolves(c, x)
      BY <1>3, <3>2 DEF UpvalueResolves
    <3> QED
      BY <3>1, <3>3 DEF x
  <2>5. CASE j - 1 # k
    BY <1>1, <2>1, <2>2, <2>5
  <2> QED
    BY <2>4, <2>5
<1>9. Base(t)
  <2>1. t.compilers # <<>>
    BY <1>1, <1>2
  <2> QED
    BY <1>1, <1>6, <1>7, <1>8, <2>1 DEF Base
<1>10. SameScopes(s, t)
  BY <1>1 DEF SameScopes
<1>11. This(t).current = This(s).current /\ This(t).previous = This(s).previous /\ This(s).current \in Nat
  BY <1>1, BaseFacts, ZenonT(60) DEF This, Me, CompilerType
<1>12. Keeps(s, t)
  BY <1>1, <1>9, <1>10, <1>11 DEF Keeps, InText
<1> QED
  BY <1>12 DEF t

(* A compiler with other upvalues, one that has reported an error, and a    *)
(* function with one more upvalue.                                         *)
WithUpvalues(c, upvalues) == [c EXCEPT !.upvalues = upvalues]
(* The compiler in panic mode. *)
Panicking(c) == [c EXCEPT !.panic_mode = TRUE, !.had_error = TRUE]

(* Other upvalues leave the rest of a compiler as it is. *)
LEMMA WithUpvaluesFacts ==
  ASSUME NEW c \in CompilerType, NEW upvalues \in Seq(UpvalueType)
  PROVE  LET d == WithUpvalues(c, upvalues)
         IN  /\ d \in CompilerType
             /\ d.function = c.function
             /\ d.scope_depth = c.scope_depth
             /\ d.upvalues = upvalues
             /\ d.locals = c.locals
             /\ d.current = c.current
             /\ d.previous = c.previous
             /\ d.panic_mode = c.panic_mode
             /\ d.had_error = c.had_error
BY DEF CompilerType, WithUpvalues

(* Panic mode leaves the rest of a compiler as it is. *)
LEMMA PanickingFacts ==
  ASSUME NEW c \in CompilerType
  PROVE  /\ Panicking(c) \in CompilerType
         /\ Panicking(c).function = c.function
         /\ Panicking(c).scope_depth = c.scope_depth
         /\ Panicking(c).upvalues = c.upvalues
         /\ Panicking(c).locals = c.locals
         /\ Panicking(c).current = c.current
         /\ Panicking(c).previous = c.previous
BY DEF CompilerType, Panicking

(* The two assignments of add_upvalue, as one change of a compiler and its function. *)
LEMMA AddedUpvalueForm ==
  ASSUME NEW s, Base(s), NEW k \in DOMAIN s.compilers, NEW uv \in UpvalueType
  PROVE  [s EXCEPT !.compilers[k].upvalues = Append(@, uv),
                   !.functions[s.compilers[k].function].upvalue_count = @ + 1]
           = WithUpvalue(s, k, WithUpvalues(s.compilers[k], Append(s.compilers[k].upvalues, uv)), s.errors)
<1> DEFINE c == s.compilers[k]
           ups == Append(c.upvalues, uv)
<1>1. IsState(s) /\ c \in CompilerType
  BY BaseFacts
<1>2. WithUpvalues(c, ups).function = c.function
  BY <1>1 DEF WithUpvalues, CompilerType
<1> QED
  BY <1>1, <1>2 DEF IsState, WithUpvalue, WithUpvalues

(* The error of add_upvalue, in the same form. *)
LEMMA AddedErrorForm ==
  ASSUME NEW s, Base(s), NEW k \in DOMAIN s.compilers, NEW c \in CompilerType, NEW E,
         c.function = s.compilers[k].function, NEW at, NEW msg
  PROVE  LET t == WithUpvalue(s, k, c, E)
         IN  ErrorAt(t, k, at, msg) =
               IF c.panic_mode THEN t
               ELSE WithUpvalue(s, k, Panicking(c), E \cup {[at |-> at, msg |-> msg]})
<1> DEFINE t == WithUpvalue(s, k, c, E)
           e == [at |-> at, msg |-> msg]
           u == ErrorNoted(t, k, at, msg)
<1>1. IsState(s) /\ s.compilers \in Seq(CompilerType) /\ IsState(t) /\ t.compilers[k] = c
      /\ DOMAIN t.compilers = DOMAIN s.compilers
  BY BaseFacts, WithUpvalueFacts
<1>2. ErrorAt(t, k, at, msg) = IF c.panic_mode THEN t ELSE u
  <2> HIDE DEF t
  <2> QED
    BY <1>1, ErrorForm
<1>3. Panicking(c).function = c.function
  BY PanickingFacts
<1>4. u = WithUpvalue(s, k, Panicking(c), E \cup {e})
  <2> DEFINE cs == [s.compilers EXCEPT ![k] = c]
             fs == [s.functions EXCEPT ![c.function] =
                      [s.functions[c.function] EXCEPT !.upvalue_count = @ + 1]]
             ds == [s.compilers EXCEPT ![k] = Panicking(c)]
  <2>1. [[cs EXCEPT ![k].panic_mode = TRUE] EXCEPT ![k].had_error = TRUE] = ds
    BY <1>1 DEF Panicking
  <2>2. t = [s EXCEPT !.compilers = cs, !.functions = fs, !.errors = E]
    BY DEF WithUpvalue
  <2>3. WithUpvalue(s, k, Panicking(c), E \cup {e}) = [s EXCEPT !.compilers = ds, !.functions = fs, !.errors = E \cup {e}]
    BY <1>3 DEF WithUpvalue
  <2>4. t.compilers = cs /\ t.errors = E
    <3> HIDE DEF cs, fs
    <3> QED
      BY <1>1, <2>2 DEF IsState
  <2> HIDE DEF cs, fs, t
  <2>5. u = [t EXCEPT !.compilers = ds, !.errors = E \cup {e}]
    BY <2>1, <2>4 DEF ErrorNoted
  <2> HIDE DEF u, ds, e
  <2> QED
    BY <1>1, <2>2, <2>3, <2>5 DEF IsState
<1> QED
  BY <1>2, <1>4

(* add_or_get_upvalue *)
LEMMA AddUpvalueFacts ==
  ASSUME NEW s, Base(s), NEW k \in DOMAIN s.compilers, NEW uv \in UpvalueType,
         s.errors = {} => UpvalueResolves(s.compilers[k - 1], uv)
  PROVE  LET t == AddUpvalue(s, k, uv)
         IN  /\ Keeps(s, t)
             /\ UpvalueIndex(s, k, uv) \in 0 .. UINT8_MAX
             /\ t.errors = {} => UpvalueIndex(s, k, uv) < Len(t.compilers[k].upvalues)
<1> DEFINE t == AddUpvalue(s, k, uv)
           upvalues == s.compilers[k].upvalues
           c == WithUpvalues(s.compilers[k], Append(upvalues, uv))
           a == WithUpvalue(s, k, c, s.errors)
           msg == "Too many closure variables in function."
           e == ErrorAt(a, k, a.compilers[k].previous, msg)
<1>1. /\ s.compilers[k] \in CompilerType /\ upvalues \in Seq(UpvalueType) /\ CompilerOk(s, k)
      /\ s.compilers[k].function \in DOMAIN s.functions
      /\ FunctionOk(s, s.compilers[k].function)
  <2>1. s.compilers[k] \in CompilerType /\ CompilerOk(s, k) /\ s.compilers[k].function \in DOMAIN s.functions
    BY BaseFacts DEF Base
  <2> QED
    BY <2>1 DEF CompilerType, Base
<1>2. /\ Append(upvalues, uv) \in Seq(UpvalueType) /\ Len(upvalues) \in Nat
      /\ Len(Append(upvalues, uv)) = Len(upvalues) + 1
      /\ DOMAIN upvalues = 1 .. Len(upvalues)
  BY <1>1, AppendProperties
<1>3. /\ c \in CompilerType
      /\ c.function = s.compilers[k].function
      /\ c.scope_depth = s.compilers[k].scope_depth
      /\ c.upvalues = Append(upvalues, uv)
      /\ c.locals = s.compilers[k].locals
      /\ c.current = s.compilers[k].current
      /\ c.previous = s.compilers[k].previous
      /\ c.panic_mode = s.compilers[k].panic_mode
      /\ c.had_error = s.compilers[k].had_error
  BY <1>1, <1>2, WithUpvaluesFacts
<1>4. c.panic_mode \/ c.had_error => s.errors # {}
  BY <1>1, <1>3 DEF CompilerOk
<1>5. t = IF Contains(upvalues, uv) THEN s ELSE IF Len(upvalues) > UINT8_MAX THEN e ELSE a
  <2> DEFINE b == [s EXCEPT !.compilers[k].upvalues = Append(@, uv),
                            !.functions[s.compilers[k].function].upvalue_count = @ + 1]
  <2>1. b = a
    BY AddedUpvalueForm
  <2>2. t = IF Contains(upvalues, uv) THEN s
            ELSE IF Len(upvalues) > UINT8_MAX THEN ErrorAt(b, k, b.compilers[k].previous, msg) ELSE b
    BY DEF AddUpvalue
  <2> HIDE DEF a, b
  <2> QED
    BY <2>1, <2>2
<1> DEFINE n == IF Contains(upvalues, uv) THEN SelectInSeq(upvalues, LAMBDA u : u = uv) - 1
                ELSE Len(upvalues)
<1>6. UpvalueIndex(s, k, uv) = AsByte(n)
  BY DEF UpvalueIndex
<1>7. n \in Nat /\ (Contains(upvalues, uv) => n < Len(upvalues)) /\ (~Contains(upvalues, uv) => n = Len(upvalues))
  <2>1. CASE Contains(upvalues, uv)
    <3> DEFINE I == {i \in 1 .. Len(upvalues) : upvalues[i] = uv}
    <3>1. I \in SUBSET Nat /\ I # {}
      BY <1>2, <2>1 DEF Contains
    <3>2. SelectInSeq(upvalues, LAMBDA u : u = uv) = Min(I)
      BY <3>1 DEF SelectInSeq
    <3>3. Min(I) \in I
      <4> HIDE DEF I
      <4> QED
        BY <3>1, MinFacts
    <3>4. Min(I) \in 1 .. Len(upvalues)
      BY <3>3
    <3> HIDE DEF I
    <3>5. n = Min(I) - 1
      BY <2>1, <3>2
    <3> HIDE DEF n
    <3> QED
      BY <1>2, <2>1, <3>4, <3>5
  <2>2. CASE ~Contains(upvalues, uv)
    BY <1>2, <2>2
  <2> QED
    BY <2>1, <2>2
<1> HIDE DEF n, t
<1>8. UpvalueIndex(s, k, uv) \in 0 .. UINT8_MAX
  BY <1>6, <1>7, ByteFacts
<1>9. n <= UINT8_MAX => UpvalueIndex(s, k, uv) = n
  BY <1>6, <1>7, ByteFacts, ByteAssumption
<1>10. s.errors = {} => Len(upvalues) <= UINT8_MAX + 1
  BY <1>1 DEF CompilerOk, FunctionOk
<1> HIDE DEF c
<1>11. CASE Contains(upvalues, uv)
  <2>1. t = s
    BY <1>5, <1>11
  <2>2. s.errors = {} => n <= UINT8_MAX
    BY <1>2, <1>7, <1>10, <1>11, ByteAssumption
  <2>3. s.errors = {} => UpvalueIndex(s, k, uv) < Len(upvalues)
    BY <1>7, <1>9, <1>11, <2>2
  <2> QED
    BY <1>8, <2>1, <2>3, KeepsReflexive DEF t
<1>12. CASE ~Contains(upvalues, uv) /\ Len(upvalues) > UINT8_MAX
  <2> DEFINE E == s.errors \cup {[at |-> a.compilers[k].previous, msg |-> msg]}
             d == Panicking(c)
  <2>1. t = IF c.panic_mode THEN a ELSE WithUpvalue(s, k, d, E)
    <3>1. t = e
      BY <1>5, <1>12
    <3>2. \A at : ErrorAt(a, k, at, msg) =
               IF c.panic_mode THEN a
               ELSE WithUpvalue(s, k, Panicking(c), s.errors \cup {[at |-> at, msg |-> msg]})
      <4> TAKE at
      <4>1. LET r == WithUpvalue(s, k, c, s.errors)
            IN  ErrorAt(r, k, at, msg) =
               IF c.panic_mode THEN r
               ELSE WithUpvalue(s, k, Panicking(c), s.errors \cup {[at |-> at, msg |-> msg]})
        <5> DEFINE F == s.errors
        <5> HIDE DEF F, msg
        <5>1. LET r == WithUpvalue(s, k, c, F)
              IN  ErrorAt(r, k, at, msg) =
                 IF c.panic_mode THEN r
                 ELSE WithUpvalue(s, k, Panicking(c), F \cup {[at |-> at, msg |-> msg]})
          BY <1>3, AddedErrorForm
        <5> QED
          BY <5>1 DEF F
      <4> QED
        BY <4>1
    <3> HIDE DEF a
    <3> QED
      BY <3>1, <3>2
  <2>2. CASE c.panic_mode
    <3>1. t = a /\ s.errors # {}
      BY <1>4, <2>1, <2>2
    <3>2. Keeps(s, a)
      BY <1>1, <1>3, <1>4, <3>1, UpvalueChange
    <3>3. t.errors = s.errors
      BY <3>1, <1>3, WithUpvalueFacts
    <3> QED
      BY <1>8, <3>1, <3>2, <3>3 DEF t
  <2>3. CASE ~c.panic_mode
    <3>0. d \in CompilerType /\ d.function = c.function
         /\ d.scope_depth = c.scope_depth
         /\ d.upvalues = c.upvalues
         /\ d.locals = c.locals
         /\ d.current = c.current
         /\ d.previous = c.previous
      BY <1>3, PanickingFacts
    <3>1. E # {} /\ (s.errors # {} => E # {})
      OBVIOUS
    <3> HIDE DEF E, d
    <3>2. Keeps(s, WithUpvalue(s, k, d, E))
      BY <1>1, <1>3, <3>0, <3>1, UpvalueChange
    <3>3. WithUpvalue(s, k, d, E).errors = E
      BY <1>3, <3>0, WithUpvalueFacts
    <3> QED
      BY <1>8, <2>1, <2>3, <3>1, <3>2, <3>3 DEF t
  <2> QED
    BY <2>2, <2>3
<1>13. CASE ~Contains(upvalues, uv) /\ ~(Len(upvalues) > UINT8_MAX)
  <2>1. t = a
    BY <1>5, <1>13
  <2>2. Len(upvalues) <= UINT8_MAX
    BY <1>2, <1>13, ByteAssumption
  <2>3. Keeps(s, a)
    BY <1>1, <1>3, <1>4, <2>2, UpvalueChange
  <2>4. a.compilers[k] = c
    BY <1>3, WithUpvalueFacts
  <2>5. UpvalueIndex(s, k, uv) < Len(c.upvalues)
    BY <1>2, <1>3, <1>7, <1>9, <1>13, <2>2
  <2> HIDE DEF a
  <2> QED
    BY <1>8, <2>1, <2>3, <2>4, <2>5 DEF t
<1> QED
  BY <1>11, <1>12, <1>13

(* resolve_local *)
LEMMA LocalIndexFacts ==
  ASSUME NEW s, Base(s), NEW k \in DOMAIN s.compilers, NEW name
  PROVE  LocalIndex(s, k, name) \in Int /\ LocalIndex(s, k, name) < Len(s.compilers[k].locals)
<1> DEFINE locals == s.compilers[k].locals
           I == {i \in 1 .. Len(locals) : locals[i].name = name}
           n == SelectLastInSeq(locals, LAMBDA l : l.name = name)
<1>1. locals \in Seq(LocalType) /\ Len(locals) \in Nat
  <2>1. locals \in Seq(LocalType)
    BY BaseFacts DEF CompilerType
  <2> QED
    BY <2>1
<1>2. Len(locals) >= 1
  BY BaseFacts DEF Base, CompilerOk
<1>3. n = IF I # {} THEN Max(I) ELSE 0
  BY DEF SelectLastInSeq
<1>4. I # {} => Max(I) \in I
  <2>1. I \in SUBSET (1 .. Len(locals))
    OBVIOUS
  <2> HIDE DEF I
  <2> QED
    BY <1>1, <2>1, MaxFacts
<1>5. LocalIndex(s, k, name) = n - 1
  BY DEF LocalIndex
<1>6. n \in 0 .. Len(locals)
  <2> HIDE DEF n
  <2> QED
    BY <1>1, <1>3, <1>4
<1> HIDE DEF n
<1> QED
  BY <1>1, <1>2, <1>5, <1>6

(* The compiler that a name is found in is one of the chain, and has a local of that name. *)
LEMMA OwnerFacts ==
  ASSUME NEW s, Base(s), NEW name
  PROVE  /\ Owner(s, name) \in 0 .. Me(s)
         /\ Owner(s, name) # 0 =>
              /\ Owner(s, name) \in DOMAIN s.compilers
              /\ LocalIndex(s, Owner(s, name), name) >= 0
<1> DEFINE N == Me(s)
           index == [k \in 1 .. N |-> LocalIndex(s, k, name)]
           I == {k \in 1 .. Len(index) : index[k] >= 0}
           n == SelectLastInSeq(index, LAMBDA i : i >= 0)
<1>1. N \in Nat /\ DOMAIN s.compilers = 1 .. N
  BY BaseFacts
<1>2. Len(index) = N /\ \A k \in 1 .. N : index[k] = LocalIndex(s, k, name)
  <2> HIDE DEF N
  <2>1. DOMAIN index = 1 .. N /\ index = [i \in 1 .. N |-> index[i]]
    OBVIOUS
  <2>2. Len(index) = N
    <3> HIDE DEF index
    <3> QED
      BY <1>1, <2>1, FunctionIsSeq
  <2> QED
    BY <2>2
<1>3. Owner(s, name) = n
  BY DEF Owner
<1>4. n = IF I # {} THEN Max(I) ELSE 0
  BY DEF SelectLastInSeq
<1> HIDE DEF index, N
<1>5. I # {} => Max(I) \in I
  <2>1. I \in SUBSET (1 .. N)
    BY <1>2
  <2> HIDE DEF I
  <2> QED
    BY <1>1, <2>1, MaxFacts
<1> HIDE DEF n
<1>6. n \in 0 .. N /\ (n # 0 => n \in 1 .. N /\ index[n] >= 0)
  <2>1. CASE I = {}
    <3>1. n = 0
      BY <1>4, <2>1
    <3> QED
      BY <1>1, <3>1
  <2>2. CASE I # {}
    <3>1. n \in I
      BY <1>4, <1>5, <2>2
    <3>2. n \in 1 .. N /\ index[n] >= 0
      BY <1>2, <3>1
    <3> QED
      BY <1>1, <3>2
  <2> QED
    BY <2>1, <2>2
<1> QED
  BY <1>1, <1>2, <1>3, <1>6 DEF N

(* resolve_local reports a variable that is not ready. *)
LEMMA ReportUnreadyFacts ==
  ASSUME NEW s, Base(s), NEW k \in DOMAIN s.compilers, NEW name
  PROVE  Keeps(s, ReportUnready(s, k, name)) /\ OnlyFlags(s, ReportUnready(s, k, name))
<1> DEFINE at == s.compilers[k].previous
<1>1. Keeps(s, s) /\ OnlyFlags(s, s)
  BY KeepsReflexive DEF OnlyFlags
<1>2. Keeps(s, ErrorAt(s, k, at, "Can't read local variable in its own initializer."))
      /\ OnlyFlags(s, ErrorAt(s, k, at, "Can't read local variable in its own initializer."))
  BY ErrorAtFacts
<1> QED
  BY <1>1, <1>2 DEF ReportUnready

(* The locals with one of them captured. *)
Captured(locals, n) == [locals EXCEPT ![n] = [locals[n] EXCEPT !.is_captured = TRUE]]

(* Marking a local as captured leaves all depths, and all other marks. *)
LEMMA CapturedFacts ==
  ASSUME NEW locals \in Seq(LocalType), NEW n \in 1 .. Len(locals)
  PROVE  /\ Captured(locals, n) \in Seq(LocalType)
         /\ Len(Captured(locals, n)) = Len(locals)
         /\ \A i \in 1 .. Len(locals) :
              /\ Captured(locals, n)[i].depth = locals[i].depth
              /\ locals[i].is_captured => Captured(locals, n)[i].is_captured
         /\ Captured(locals, n)[n].is_captured
<1> DEFINE l == [locals[n] EXCEPT !.is_captured = TRUE]
<1>1. locals[n] \in LocalType
  OBVIOUS
<1>2. l \in LocalType /\ l.depth = locals[n].depth /\ l.is_captured
  BY <1>1 DEF LocalType
<1> HIDE DEF l
<1>3. Captured(locals, n) = [locals EXCEPT ![n] = l]
  BY DEF Captured, l
<1>4. /\ [locals EXCEPT ![n] = l] \in Seq(LocalType)
      /\ Len([locals EXCEPT ![n] = l]) = Len(locals)
      /\ \A i \in 1 .. Len(locals) : [locals EXCEPT ![n] = l][i] = IF i = n THEN l ELSE locals[i]
  BY <1>2, ExceptSeq
<1> QED
  BY <1>2, <1>3, <1>4

(* mark_captured *)
LEMMA MarkCapturedFacts ==
  ASSUME NEW s, Base(s), NEW k \in DOMAIN s.compilers, NEW local \in Nat,
         local < Len(s.compilers[k].locals)
  PROVE  /\ Keeps(s, MarkCaptured(s, k, local))
         /\ MarkCaptured(s, k, local).errors = s.errors
         /\ UpvalueResolves(MarkCaptured(s, k, local).compilers[k], Upvalue(local, TRUE))
<1> DEFINE n == local + 1
           locals == Captured(s.compilers[k].locals, n)
           c == WithLocals(s.compilers[k], locals)
           t == WithCompiler(s, k, c)
<1>1. /\ IsState(s) /\ s.compilers[k] \in CompilerType /\ CompilerOk(s, k)
      /\ s.compilers[k].locals \in Seq(LocalType) /\ Len(s.compilers[k].locals) \in Nat
  <2>1. IsState(s) /\ s.compilers[k] \in CompilerType /\ CompilerOk(s, k)
    BY BaseFacts DEF Base
  <2>2. s.compilers[k].locals \in Seq(LocalType)
    BY <2>1 DEF CompilerType
  <2> QED
    BY <2>1, <2>2
<1>2. n \in 1 .. Len(s.compilers[k].locals)
  BY <1>1
<1>3. MarkCaptured(s, k, local) = t
  BY <1>1 DEF MarkCaptured, IsState, WithCompiler, WithLocals, CompilerType, Captured
<1> HIDE DEF n
<1>4. /\ locals \in Seq(LocalType)
      /\ Len(locals) = Len(s.compilers[k].locals)
      /\ \A i \in 1 .. Len(locals) :
           /\ locals[i].depth = s.compilers[k].locals[i].depth
           /\ s.compilers[k].locals[i].is_captured => locals[i].is_captured
      /\ locals[n].is_captured
  BY <1>1, <1>2, CapturedFacts
<1> HIDE DEF locals
<1>5. DOMAIN locals = 1 .. Len(locals)
  BY <1>4
<1>6. /\ c \in CompilerType
      /\ c.function = s.compilers[k].function
      /\ c.scope_depth = s.compilers[k].scope_depth
      /\ c.upvalues = s.compilers[k].upvalues
      /\ c.locals = locals
      /\ c.current = s.compilers[k].current
      /\ c.previous = s.compilers[k].previous
      /\ c.panic_mode = s.compilers[k].panic_mode
      /\ c.had_error = s.compilers[k].had_error
  BY <1>1, <1>4, WithLocalsFacts
<1> HIDE DEF c
<1>7. c.panic_mode \/ c.had_error => s.errors # {}
  BY <1>1, <1>6 DEF CompilerOk
<1>8. Keeps(s, t)
  BY <1>4, <1>5, <1>6, <1>7, CompilerKeeps
<1>9. t.errors = s.errors /\ t.compilers[k] = c
  BY <1>1, <1>6, WithCompilerFacts
<1>10. UpvalueResolves(c, Upvalue(local, TRUE))
  BY <1>1, <1>4, <1>6 DEF UpvalueResolves, Upvalue, n
<1> QED
  BY <1>3, <1>8, <1>9, <1>10

(* What the loop of resolve_upvalue has made when it is at the k-th compiler. *)
Finds(s, r, k) ==
  /\ Keeps(s, r.s)
  /\ r.uv \in UpvalueType
  /\ r.s.errors = {} => UpvalueResolves(r.s.compilers[k], r.uv)

(* Capturing a local of the next function out makes an upvalue that resolves. *)
LEMMA CaptureLocalFacts ==
  ASSUME NEW s, Base(s), NEW k \in DOMAIN s.compilers, NEW name, LocalIndex(s, k, name) >= 0
  PROVE  Finds(s, CaptureLocal(s, k, name), k)
<1> DEFINE local == LocalIndex(s, k, name)
           u == ReportUnready(s, k, name)
           t == MarkCaptured(u, k, local)
<1>1. local \in Nat /\ local < Len(s.compilers[k].locals)
  BY LocalIndexFacts
<1>2. CompilerOk(s, k)
  BY DEF Base
<1>3. local \in 0 .. UINT8_MAX
  BY <1>1, <1>2, ByteAssumption DEF CompilerOk
<1>4. Keeps(s, u) /\ OnlyFlags(s, u)
  BY ReportUnreadyFacts
<1>5. CaptureLocal(s, k, name) = [s |-> t, uv |-> Upvalue(AsByte(local), TRUE)]
  BY DEF CaptureLocal
<1> HIDE DEF local, u
<1>6. Base(u) /\ k \in DOMAIN u.compilers /\ local < Len(u.compilers[k].locals)
  <2>1. Base(u) /\ Len(u.compilers) = Len(s.compilers)
    BY <1>4 DEF Keeps, SameScopes
  <2>2. DOMAIN u.compilers = DOMAIN s.compilers
    BY <2>1, BaseFacts
  <2> QED
    BY <1>1, <1>4, <2>1, <2>2 DEF OnlyFlags
<1>7. /\ Keeps(u, t)
      /\ UpvalueResolves(t.compilers[k], Upvalue(local, TRUE))
  BY <1>1, <1>6, MarkCapturedFacts
<1> HIDE DEF t
<1>8. AsByte(local) = local
  BY <1>3, ByteFacts
<1>9. Upvalue(local, TRUE) \in UpvalueType
  BY <1>3 DEF Upvalue, UpvalueType
<1>10. Keeps(s, t)
  BY <1>4, <1>6, <1>7, KeepsTransitive
<1> DEFINE q == CaptureLocal(s, k, name)
<1>11. q.s = t /\ q.uv = Upvalue(local, TRUE)
  BY <1>5, <1>8
<1> HIDE DEF q
<1>12. Finds(s, q, k)
  BY <1>7, <1>9, <1>10, <1>11 DEF Finds
<1> QED
  BY <1>12 DEF q

(* Capturing an upvalue of the next function out makes an upvalue that resolves. *)
LEMMA CaptureUpvalueFacts ==
  ASSUME NEW s, Base(s), NEW k \in DOMAIN s.compilers, NEW r, Finds(s, r, k - 1)
  PROVE  Finds(s, CaptureUpvalue(r, k), k)
<1> DEFINE t == AddUpvalue(r.s, k, r.uv)
           index == UpvalueIndex(r.s, k, r.uv)
<1>1. Base(r.s) /\ k \in DOMAIN r.s.compilers /\ Keeps(s, r.s)
  <2>1. Base(r.s) /\ Len(r.s.compilers) = Len(s.compilers)
    BY DEF Finds, Keeps, SameScopes
  <2> QED
    BY <2>1, BaseFacts DEF Finds
<1>2. /\ Keeps(r.s, t) /\ index \in 0 .. UINT8_MAX
      /\ t.errors = {} => index < Len(t.compilers[k].upvalues)
  BY <1>1, AddUpvalueFacts DEF Finds
<1>3. CaptureUpvalue(r, k) = [s |-> t, uv |-> Upvalue(index, FALSE)]
  BY DEF CaptureUpvalue
<1> HIDE DEF t, index
<1>4. Keeps(s, t)
  BY <1>1, <1>2, KeepsTransitive
<1>5. Upvalue(index, FALSE) \in UpvalueType
  BY <1>2 DEF Upvalue, UpvalueType
<1>6. t.errors = {} => UpvalueResolves(t.compilers[k], Upvalue(index, FALSE))
  BY <1>2 DEF UpvalueResolves, Upvalue
<1> DEFINE q == CaptureUpvalue(r, k)
<1>7. q.s = t /\ q.uv = Upvalue(index, FALSE)
  BY <1>3
<1> HIDE DEF q
<1>8. Finds(s, q, k)
  BY <1>4, <1>5, <1>6, <1>7 DEF Finds
<1> QED
  BY <1>8 DEF q

(* The loop is a function that exists. *)
LEMMA CaptureLoop ==
  ASSUME NEW s, NEW owner, NEW name, NEW N \in Nat, N = Me(s) - owner
  PROVE  \E r : /\ r[0] = CaptureLocal(s, owner, name)
                /\ \A n \in 0 .. N - 1 : r[n + 1] = CaptureUpvalue(r[n], owner + (n + 1))
                /\ ResolveUpvalue(s, owner, name) = r[N]
<1> DEFINE Start == CaptureLocal(s, owner, name)
           Builds(g, m) ==
             g = [n \in 0 .. m |-> IF n = 0 THEN Start ELSE CaptureUpvalue(g[n - 1], owner + n)]
           S == {m \in Nat : \E g : Builds(g, m)}
           r == CHOOSE g : Builds(g, N)
<1>5. ResolveUpvalue(s, owner, name) = r[N]
  BY DEF ResolveUpvalue
<1> HIDE DEF Start
<1>1. 0 \in S
  <2> DEFINE g == [n \in 0 .. 0 |-> Start]
  <2>1. Builds(g, 0)
    OBVIOUS
  <2> QED
    BY <2>1
<1>2. ASSUME NEW m \in Nat, m \in S PROVE m + 1 \in S
  <2>1. PICK g : Builds(g, m)
    BY <1>2
  <2> DEFINE h == [n \in 0 .. m + 1 |-> IF n <= m THEN g[n] ELSE CaptureUpvalue(g[m], owner + (m + 1))]
  <2>2. \A n \in 0 .. m : h[n] = g[n]
    OBVIOUS
  <2>3. \A n \in 0 .. m + 1 : h[n] = IF n = 0 THEN Start ELSE CaptureUpvalue(h[n - 1], owner + n)
    <3> TAKE n \in 0 .. m + 1
    <3>1. CASE n = 0
      BY <2>1, <2>2, <3>1
    <3>2. CASE n \in 1 .. m
      <4>1. n - 1 \in 0 .. m /\ n \in 0 .. m
        BY <3>2
      <4>2. h[n] = g[n] /\ h[n - 1] = g[n - 1]
        BY <2>2, <4>1
      <4> QED
        BY <2>1, <3>2, <4>1, <4>2
    <3>3. CASE n = m + 1
      <4>1. h[n] = CaptureUpvalue(g[m], owner + n)
        BY <3>3
      <4>2. h[n - 1] = g[m] /\ n - 1 = m /\ n # 0
        BY <3>3, <2>2
      <4> QED
        BY <4>1, <4>2
    <3> QED
      BY <3>1, <3>2, <3>3
  <2>4. Builds(h, m + 1)
    <3>1. h = [n \in 0 .. m + 1 |-> h[n]]
      OBVIOUS
    <3> HIDE DEF h
    <3> QED
      BY <2>3, <3>1
  <2> HIDE DEF h, Builds
  <2> QED
    BY <2>4
<1>3. N \in S
  <2> HIDE DEF S
  <2> QED
    BY <1>1, <1>2, Induction
<1>4. Builds(r, N)
  <2>1. \E g : Builds(g, N)
    BY <1>3
  <2> HIDE DEF Builds
  <2> QED
    BY <2>1
<1>6. r[0] = Start
  <2> HIDE DEF r
  <2> QED
    BY <1>4, <1>3
<1>7. \A n \in 0 .. N - 1 : r[n + 1] = CaptureUpvalue(r[n], owner + (n + 1))
  <2> HIDE DEF r
  <2> TAKE n \in 0 .. N - 1
  <2>1. n + 1 \in 0 .. N /\ n + 1 # 0 /\ n + 1 - 1 = n
    BY <1>3
  <2>2. \A k \in 0 .. N : r[k] = IF k = 0 THEN Start ELSE CaptureUpvalue(r[k - 1], owner + k)
    BY <1>4
  <2>3. r[n + 1] = CaptureUpvalue(r[n + 1 - 1], owner + (n + 1))
    BY <2>1, <2>2
  <2> QED
    BY <2>1, <2>3
<1> HIDE DEF r
<1> QED
  BY <1>5, <1>6, <1>7 DEF Start

(* resolve_upvalue *)
LEMMA ResolveUpvalueFacts ==
  ASSUME NEW s, Base(s), NEW owner \in DOMAIN s.compilers, NEW name, LocalIndex(s, owner, name) >= 0
  PROVE  Finds(s, ResolveUpvalue(s, owner, name), Me(s))
<1> DEFINE N == Me(s) - owner
<1>1. owner \in Nat /\ Me(s) \in Nat /\ N \in Nat /\ DOMAIN s.compilers = 1 .. Me(s)
  BY BaseFacts
<1>2. PICK r : /\ r[0] = CaptureLocal(s, owner, name)
               /\ \A n \in 0 .. N - 1 : r[n + 1] = CaptureUpvalue(r[n], owner + (n + 1))
               /\ ResolveUpvalue(s, owner, name) = r[N]
  BY <1>1, CaptureLoop
<1> DEFINE S == {n \in Nat : n <= N => Finds(s, r[n], owner + n)}
<1>3. 0 \in S
  <2>1. Finds(s, r[0], owner)
    BY <1>2, CaptureLocalFacts
  <2> QED
    BY <1>1, <2>1
<1>4. ASSUME NEW n \in Nat, n \in S PROVE n + 1 \in S
  <2> SUFFICES ASSUME n + 1 <= N PROVE Finds(s, r[n + 1], owner + (n + 1))
    OBVIOUS
  <2>1. n \in 0 .. N - 1 /\ owner + (n + 1) \in DOMAIN s.compilers /\ owner + (n + 1) - 1 = owner + n
    BY <1>1
  <2>2. Finds(s, r[n], owner + n)
    BY <1>1, <1>4
  <2>3. r[n + 1] = CaptureUpvalue(r[n], owner + (n + 1))
    BY <1>2, <2>1
  <2> DEFINE q == r[n]
             k == owner + (n + 1)
  <2>4. k \in DOMAIN s.compilers /\ Finds(s, q, k - 1)
    <3>1. k - 1 = owner + n
      BY <1>1
    <3>2. Finds(s, q, owner + n)
      BY <2>2
    <3> HIDE DEF q
    <3>3. Finds(s, q, k - 1)
      BY <3>1, <3>2
    <3> QED
      BY <2>1, <3>3
  <2> HIDE DEF q, k
  <2>5. Finds(s, CaptureUpvalue(q, k), k)
    BY <2>4, CaptureUpvalueFacts
  <2> QED
    BY <2>3, <2>5 DEF q, k
<1>5. Nat \subseteq S
  <2> HIDE DEF S
  <2> QED
    BY <1>3, <1>4, Induction
<1>6. Finds(s, r[N], owner + N)
  BY <1>1, <1>5
<1>7. owner + N = Me(s)
  BY <1>1
<1> QED
  BY <1>2, <1>6, <1>7

(* The opcodes that named_variable emits. *)
VariableCode ==
  {"OP_GET_LOCAL", "OP_SET_LOCAL", "OP_GET_GLOBAL", "OP_SET_GLOBAL",
   "OP_GET_UPVALUE", "OP_SET_UPVALUE"}

(* Every name resolves to a byte and to instructions that read and write it; Base is kept. *)
LEMMA ResolveFacts ==
  ASSUME NEW s, Base(s), NEW name \in Lexeme
  PROVE  LET r == Resolve(s, name)
         IN  /\ Keeps(s, r.s)
             /\ r.index \in 0 .. UINT8_MAX
             /\ r.get \in VariableCode /\ r.set \in VariableCode
<1> DEFINE owner == Owner(s, name)
           r == Resolve(s, name)
<1>1. /\ owner \in 0 .. Me(s)
      /\ owner # 0 => owner \in DOMAIN s.compilers /\ LocalIndex(s, owner, name) >= 0
  BY OwnerFacts
<1>2. Me(s) # 0 /\ Me(s) \in Nat
  BY BaseFacts
<1>3. CASE owner = Me(s)
  <2>1. r = [s |-> ReportUnready(s, owner, name), index |-> AsByte(LocalIndex(s, owner, name)),
              get |-> "OP_GET_LOCAL", set |-> "OP_SET_LOCAL"]
    BY <1>2, <1>3 DEF Resolve
  <2> HIDE DEF owner
  <2>2. Keeps(s, ReportUnready(s, owner, name))
    BY <1>1, <1>2, <1>3, ReportUnreadyFacts
  <2>3. AsByte(LocalIndex(s, owner, name)) \in 0 .. UINT8_MAX
    <3>1. LocalIndex(s, owner, name) \in Int
      BY <1>1, <1>2, <1>3, LocalIndexFacts
    <3> QED
      BY <3>1, ByteFacts
  <2> HIDE DEF r
  <2> QED
    BY <2>1, <2>2, <2>3 DEF VariableCode, r
<1>4. CASE owner = 0
  <2>1. r = [s |-> AddConstant(s, Str(name)), index |-> ConstantIndex(s),
             get |-> "OP_GET_GLOBAL", set |-> "OP_SET_GLOBAL"]
    BY <1>2, <1>4 DEF Resolve
  <2>2. Str(name) \in ConstantType /\ IsConstant(s.functions, Str(name))
    BY DEF ConstantType, IsConstant, IsStr, Str
  <2>3. Keeps(s, AddConstant(s, Str(name))) /\ ConstantIndex(s) \in 0 .. UINT8_MAX
    BY <2>2, AddConstantFacts
  <2> HIDE DEF r
  <2> QED
    BY <2>1, <2>3 DEF VariableCode, r
<1>5. CASE owner # Me(s) /\ owner # 0
  <2> DEFINE q == ResolveUpvalue(s, owner, name)
  <2>1. r = [s |-> q.s, index |-> q.uv.index, get |-> "OP_GET_UPVALUE", set |-> "OP_SET_UPVALUE"]
    BY <1>5 DEF Resolve
  <2>2. Finds(s, q, Me(s))
    <3> HIDE DEF owner
    <3> QED
      BY <1>1, <1>5, ResolveUpvalueFacts
  <2> HIDE DEF q
  <2>3. Keeps(s, q.s) /\ q.uv.index \in 0 .. UINT8_MAX
    BY <2>2 DEF Finds, UpvalueType
  <2> HIDE DEF r
  <2> QED
    BY <2>1, <2>3 DEF VariableCode, r
<1> QED
  BY <1>3, <1>4, <1>5

-----------------------------------------------------------------------------
(***************************************************************************)
(* Theorems about Compiler.  The inductive invariant adds to Base what the *)
(* calls that wait in `work' say of the scopes and functions that are open *)
(* (NestOk), of the order in which they may wait (Ordered), of variables   *)
(* that are declared and not defined yet (Scoped), and of the place in the *)
(* text (Sited).                                                           *)
(***************************************************************************)

(* The kinds of calls, by name. *)

(* Those that make expressions, statements, and the end of scopes. *)
ExpressionName ==
  {"parse_precedence", "infix", "argument", "next_argument", "end_call", "patch_jump",
   "emit", "consume"}
StatementName ==
  {"declaration", "var_declaration", "parameter", "function_body", "statement",
   "expression_statement", "block", "if_then", "for_statement", "return_statement",
   "synchronize", "if_else", "while_body", "end_loop"}
ClosingName ==
  {"end_scope", "for_condition", "for_exit", "for_increment", "for_body", "for_resume"}

(* The names of the calls of each kind. *)
LEMMA NameFacts ==
  ASSUME NEW c
  PROVE  /\ c \in ExpressionCall => c.do \in ExpressionName
         /\ c \in StatementCall => c.do \in StatementName
         /\ c \in ClosingCall => c.do \in ClosingName
         /\ c \in BeginFunction => c.do = "function_declaration"
         /\ c \in EndFunction => c.do = "end_function"
         /\ c \in Define => c.do = "define_variable"
         /\ c \in Outermost => c.do \in {"compile", "end_compiler"}
<1>1. c \in ExpressionCall => c.do \in ExpressionName
  BY DEF ExpressionCall, ExpressionName
<1>2. c \in StatementCall => c.do \in StatementName
  BY DEF StatementCall, StatementName
<1>3. c \in ClosingCall => c.do \in ClosingName
  BY DEF ClosingCall, ClosingName
<1>4. c \in BeginFunction => c.do = "function_declaration"
  BY DEF BeginFunction
<1>5. c \in EndFunction => c.do = "end_function"
  BY DEF EndFunction
<1>6. c \in Define => c.do = "define_variable"
  BY DEF Define
<1>7. c \in Outermost => c.do \in {"compile", "end_compiler"}
  BY DEF Outermost
<1> QED
  BY <1>1, <1>2, <1>3, <1>4, <1>5, <1>6, <1>7

(* The kind of a call shows in its name. *)
LEMMA KindFacts ==
  ASSUME NEW c \in CallType
  PROVE  /\ c.do \in ExpressionName <=> c \in ExpressionCall
         /\ c.do \in StatementName <=> c \in StatementCall
         /\ c.do \in ClosingName <=> c \in ClosingCall
         /\ c.do = "function_declaration" <=> c \in BeginFunction
         /\ c.do = "end_function" <=> c \in EndFunction
         /\ c.do = "define_variable" <=> c \in Define
         /\ c.do \in {"compile", "end_compiler"} <=> c \in Outermost
<1>1. \/ c \in ExpressionCall \/ c \in StatementCall \/ c \in ClosingCall \/ c \in BeginFunction
      \/ c \in EndFunction \/ c \in Define \/ c \in Outermost
  BY DEF CallType
<1> QED
  BY <1>1, NameFacts DEF ExpressionName, StatementName, ClosingName

(* The kinds are disjoint. *)
LEMMA KindsDiffer ==
  ASSUME NEW c
  PROVE  /\ c \in ExpressionCall => /\ c \notin ClosingCall /\ c \notin BeginFunction
                                    /\ c \notin EndFunction /\ c \notin Define /\ c \notin Outermost
         /\ c \in StatementCall => /\ c \notin ExpressionCall /\ c \notin ClosingCall
                                   /\ c \notin BeginFunction /\ c \notin EndFunction
                                   /\ c \notin Define /\ c \notin Outermost
         /\ c \in ClosingCall => /\ c \notin BeginFunction /\ c \notin EndFunction
                                 /\ c \notin Define /\ c \notin Outermost
         /\ c \in EndFunction => /\ c \notin BeginFunction /\ c \notin Define /\ c \notin Outermost
         /\ c \in Define => c \notin Outermost /\ c \notin BeginFunction
         /\ c \in BeginFunction => c \notin Outermost
BY NameFacts DEF ExpressionName, StatementName, ClosingName

(* What the calls carry. *)
LEMMA ShapeFacts ==
  ASSUME NEW c \in CallType
  PROVE  /\ c.do \in {"parse_precedence", "infix"} =>
              c \in [do : {"parse_precedence", "infix"}, precedence : ASSIGNMENT .. CALL + 1]
         /\ c.do \in {"argument", "next_argument", "end_call"} =>
              c \in [do : {"argument", "next_argument", "end_call"}, count : 0 .. UINT8_MAX]
         /\ c.do \in {"patch_jump", "if_else"} => c.jump \in Nat
         /\ c.do = "emit" => c.bytes \in Seq(Byte)
         /\ c.do = "consume" => c.type \in {"SEMICOLON", "LEFT_PAREN", "RIGHT_PAREN"}
         /\ c.do = "synchronize" => c.from \in Nat
         /\ c.do = "while_body" => c.start \in Nat
         /\ c.do = "end_loop" => c.start \in Nat /\ c.exit \in Exits
         /\ c.do = "for_exit" => c.start \in Nat
         /\ c.do \in {"for_increment", "for_body"} =>
              c \in [do : {"for_increment", "for_body"}, start : Nat, exit : Exits]
         /\ c.do = "for_resume" => /\ c.start \in Nat /\ c.exit \in Exits
                                   /\ c.jump \in Nat /\ c.increment \in Nat
         /\ c.do \in {"define_variable", "end_function"} => c.index \in 0 .. UINT8_MAX
<1>1. c.do \in ExpressionName =>
        /\ c.do \in {"parse_precedence", "infix"} =>
              c \in [do : {"parse_precedence", "infix"}, precedence : ASSIGNMENT .. CALL + 1]
        /\ c.do \in {"argument", "next_argument", "end_call"} =>
              c \in [do : {"argument", "next_argument", "end_call"}, count : 0 .. UINT8_MAX]
        /\ c.do = "patch_jump" => c.jump \in Nat
        /\ c.do = "emit" => c.bytes \in Seq(Byte)
        /\ c.do = "consume" => c.type \in {"SEMICOLON", "LEFT_PAREN", "RIGHT_PAREN"}
  BY KindFacts DEF ExpressionCall
<1>2. c.do \in StatementName =>
        /\ c.do = "if_else" => c.jump \in Nat
        /\ c.do = "synchronize" => c.from \in Nat
        /\ c.do = "while_body" => c.start \in Nat
        /\ c.do = "end_loop" => c.start \in Nat /\ c.exit \in Exits
  BY KindFacts DEF StatementCall
<1>3. c.do \in ClosingName =>
         /\ c.do = "for_exit" => c.start \in Nat
         /\ c.do \in {"for_increment", "for_body"} =>
              c \in [do : {"for_increment", "for_body"}, start : Nat, exit : Exits]
         /\ c.do = "for_resume" => /\ c.start \in Nat /\ c.exit \in Exits
                                   /\ c.jump \in Nat /\ c.increment \in Nat
  BY KindFacts DEF ClosingCall
<1>4. c.do \in {"define_variable", "end_function"} => c.index \in 0 .. UINT8_MAX
  BY KindFacts DEF Define, EndFunction
<1> QED
  BY <1>1, <1>2, <1>3, <1>4 DEF ExpressionName, StatementName, ClosingName

-----------------------------------------------------------------------------
(* The calls that are made. *)

(* What is in the table of operations is an operation. *)
LEMMA OpcodeFacts ==
  \A i \in DOMAIN OpCodes : OpCodes[i] \in OpCode
BY DEF OpCode

(* The calls that expressions leave waiting are of the kind they should be. *)
LEMMA ExpressionCallFacts ==
  /\ \A p \in ASSIGNMENT .. CALL + 1 : Parse(p) \in ExpressionCall
  /\ Expression \in ExpressionCall
  /\ \A type \in {"SEMICOLON", "LEFT_PAREN", "RIGHT_PAREN"} : Expect(type) \in ExpressionCall
  /\ \A ops \in Seq(OpCode) : Emitting(ops) \in ExpressionCall
  /\ \A op \in OpCode : \A b \in 0 .. UINT8_MAX : EmittingWith(op, b) \in ExpressionCall
  /\ \A jump \in Nat : Patching(jump) \in ExpressionCall
<1>1. \A p \in ASSIGNMENT .. CALL + 1 : Parse(p) \in ExpressionCall
  BY DEF Parse, ExpressionCall
<1>2. ASSIGNMENT \in ASSIGNMENT .. CALL + 1
  BY DEF ASSIGNMENT, CALL
<1>3. \A type \in {"SEMICOLON", "LEFT_PAREN", "RIGHT_PAREN"} : Expect(type) \in ExpressionCall
  BY DEF Expect, ExpressionCall
<1>4. ASSUME NEW ops \in Seq(OpCode) PROVE Emitting(ops) \in ExpressionCall
  <2> DEFINE bytes == [i \in DOMAIN ops |-> Code[ops[i]]]
  <2>1. bytes \in Seq(Byte)
    BY OpcodesFacts
  <2>2. Emitting(ops) = [do |-> "emit", bytes |-> bytes]
    BY DEF Emitting
  <2> HIDE DEF bytes
  <2> QED
    BY <2>1, <2>2 DEF ExpressionCall
<1>5. ASSUME NEW op \in OpCode, NEW b \in 0 .. UINT8_MAX PROVE EmittingWith(op, b) \in ExpressionCall
  <2> DEFINE bytes == <<Code[op], b>>
  <2>1. Code[op] \in Byte /\ b \in Byte
    BY ByteFacts
  <2>2. bytes \in Seq(Byte)
    BY <2>1
  <2>3. EmittingWith(op, b) = [do |-> "emit", bytes |-> bytes]
    BY DEF EmittingWith
  <2> HIDE DEF bytes
  <2> QED
    BY <2>2, <2>3 DEF ExpressionCall
<1>6. \A jump \in Nat : Patching(jump) \in ExpressionCall
  BY DEF Patching, ExpressionCall
<1> QED
  BY <1>1, <1>2, <1>3, <1>4, <1>5, <1>6 DEF Expression

-----------------------------------------------------------------------------
(* The calls that wait, and the scopes that are open. *)

(* The depths of all compilers, the innermost last. *)
Depths(s) == [k \in DOMAIN s.compilers |-> s.compilers[k].scope_depth]

(* There is a depth for each compiler, and there is a compiler. *)
DepthsType == Seq(Nat) \ {<<>>}

(* What they are after the call, and all it leads to. *)
After(depths, c) ==
  IF c \in EndFunction THEN Front(depths)
  ELSE IF c \in ClosingCall THEN [depths EXCEPT ![Len(depths)] = @ - 1]
  ELSE depths

(* The calls balance the scopes and functions that are open. *)
NestOk(depths, w) ==
  \E nest \in [1 .. Len(w) + 1 -> DepthsType] :
    /\ nest[1] = depths
    /\ \A i \in 1 .. Len(w) : nest[i + 1] = After(nest[i], w[i])
    /\ nest[Len(w) + 1] = <<0>>

(* When a call returns, the scopes that are open are those that the remaining calls expect. *)
LEMMA PopNest ==
  ASSUME NEW w \in Seq(CallType), w # <<>>, NEW depths, NestOk(depths, w)
  PROVE  /\ depths \in DepthsType
         /\ After(depths, Head(w)) \in DepthsType
         /\ NestOk(After(depths, Head(w)), Tail(w))
<1>1. PICK nest \in [1 .. Len(w) + 1 -> DepthsType] :
        /\ nest[1] = depths
        /\ \A i \in 1 .. Len(w) : nest[i + 1] = After(nest[i], w[i])
        /\ nest[Len(w) + 1] = <<0>>
  BY DEF NestOk
<1>2. /\ Len(w) \in Nat \ {0} /\ Head(w) = w[1]
      /\ Tail(w) \in Seq(CallType) /\ Len(Tail(w)) = Len(w) - 1
      /\ \A i \in 1 .. Len(w) - 1 : Tail(w)[i] = w[i + 1]
  OBVIOUS
<1> DEFINE n == Len(w)
           rest == [i \in 1 .. n |-> nest[i + 1]]
<1>3. rest \in [1 .. n -> DepthsType]
  BY <1>2
<1>4. rest[1] = After(depths, w[1])
  BY <1>1, <1>2
<1>5. \A i \in 1 .. n - 1 : rest[i + 1] = After(rest[i], Tail(w)[i])
  <2> TAKE i \in 1 .. n - 1
  <2>1. i \in 1 .. n /\ i + 1 \in 1 .. n /\ Tail(w)[i] = w[i + 1]
    BY <1>2
  <2> QED
    BY <1>1, <2>1
<1>6. rest[n] = <<0>>
  BY <1>1, <1>2
<1>7. n - 1 + 1 = n
  BY <1>2
<1> HIDE DEF rest
<1>8. NestOk(After(depths, w[1]), Tail(w))
  BY <1>2, <1>3, <1>4, <1>5, <1>6, <1>7 DEF NestOk
<1>9. depths \in DepthsType /\ After(depths, w[1]) \in DepthsType
  <2>1. 1 \in 1 .. n + 1 /\ 1 + 1 \in 1 .. n + 1 /\ 1 \in 1 .. n
    BY <1>2
  <2>2. nest[1] \in DepthsType /\ nest[1 + 1] \in DepthsType /\ nest[1 + 1] = After(nest[1], w[1])
    BY <1>1, <2>1
  <2> QED
    BY <1>1, <2>2
<1> QED
  BY <1>2, <1>8, <1>9

(* Calls of which the last alone closes something may be made before those that wait. *)
LEMMA PushNest ==
  ASSUME NEW w \in Seq(CallType), NEW cs \in Seq(CallType), NEW depths, NEW inner \in DepthsType,
         NestOk(depths, w),
         cs = <<>> => inner = depths,
         cs # <<>> => /\ \A i \in 1 .. Len(cs) - 1 : cs[i] \notin EndFunction \cup ClosingCall
                      /\ After(inner, cs[Len(cs)]) = depths
  PROVE  NestOk(inner, cs \o w)
<1>1. CASE cs = <<>>
  <2>1. cs \o w = w
    BY <1>1
  <2> QED
    BY <1>1, <2>1
<1>2. CASE cs # <<>>
  <2>1. PICK nest \in [1 .. Len(w) + 1 -> DepthsType] :
          /\ nest[1] = depths
          /\ \A i \in 1 .. Len(w) : nest[i + 1] = After(nest[i], w[i])
          /\ nest[Len(w) + 1] = <<0>>
    BY DEF NestOk
  <2> DEFINE m == Len(cs)
             n == Len(w)
             all == cs \o w
             both == [i \in 1 .. m + n + 1 |-> IF i <= m THEN inner ELSE nest[i - m]]
  <2>2. /\ m \in Nat \ {0} /\ n \in Nat
        /\ all \in Seq(CallType) /\ Len(all) = m + n
        /\ \A i \in 1 .. m + n : all[i] = IF i <= m THEN cs[i] ELSE w[i - m]
    BY <1>2, EmptySeq, ConcatProperties
  <2> HIDE DEF m, n, all
  <2>3. both \in [1 .. m + n + 1 -> DepthsType]
    <3> SUFFICES ASSUME NEW i \in 1 .. m + n + 1
                 PROVE  (IF i <= m THEN inner ELSE nest[i - m]) \in DepthsType
      OBVIOUS
    <3>1. CASE i <= m
      BY <3>1
    <3>2. CASE ~(i <= m)
      <4>1. i - m \in 1 .. n + 1
        BY <2>2, <3>2
      <4> QED
        BY <2>1, <3>2, <4>1 DEF n
    <3> QED
      BY <3>1, <3>2
  <2>4. \A i \in 1 .. m + n + 1 : both[i] = IF i <= m THEN inner ELSE nest[i - m]
    OBVIOUS
  <2> HIDE DEF both
  <2>5. ASSUME NEW i \in 1 .. m + n PROVE both[i + 1] = After(both[i], all[i])
    <3>1. CASE i < m
      <4>1. both[i] = inner /\ both[i + 1] = inner /\ all[i] = cs[i] /\ i \in 1 .. m - 1
        BY <2>2, <2>4, <3>1
      <4>2. cs[i] \notin EndFunction \cup ClosingCall
        BY <1>2, <4>1 DEF m
      <4> QED
        BY <4>1, <4>2 DEF After
    <3>2. CASE i = m
      <4>1. both[i] = inner /\ all[i] = cs[m]
        BY <2>2, <2>4, <3>2
      <4>2. both[i + 1] = nest[1]
        <5> DEFINE q == i + 1
        <5>1. q \in 1 .. m + n + 1 /\ ~(q <= m) /\ q - m = 1
          BY <2>2, <3>2
        <5> HIDE DEF q
        <5>2. both[q] = nest[q - m]
          BY <2>4, <5>1
        <5>3. both[q] = nest[1]
          BY <5>1, <5>2
        <5> QED
          BY <5>3 DEF q
      <4> QED
        BY <1>2, <2>1, <4>1, <4>2 DEF m
    <3>3. CASE i > m
      <4>1. i - m \in 1 .. n /\ i + 1 - m = (i - m) + 1
        BY <2>2, <3>3
      <4>2. both[i] = nest[i - m] /\ both[i + 1] = nest[(i - m) + 1] /\ all[i] = w[i - m]
        <5>1. i \in 1 .. m + n + 1 /\ i + 1 \in 1 .. m + n + 1 /\ ~(i <= m) /\ ~(i + 1 <= m)
          BY <2>2, <3>3
        <5> QED
          BY <2>2, <2>4, <4>1, <5>1
      <4> QED
        BY <2>1, <4>1, <4>2 DEF n
    <3> QED
      BY <2>2, <3>1, <3>2, <3>3
  <2>6. both[1] = inner
    BY <2>2, <2>4
  <2>7. both[m + n + 1] = <<0>>
    <3> DEFINE q == m + n + 1
    <3>1. q \in 1 .. m + n + 1 /\ ~(q <= m) /\ q - m = n + 1
      BY <2>2
    <3> HIDE DEF q
    <3>2. both[q] = nest[q - m]
      BY <2>4, <3>1
    <3>3. both[q] = nest[n + 1]
      BY <3>1, <3>2
    <3> QED
      BY <2>1, <3>3 DEF n, q
  <2>8. NestOk(inner, all)
    BY <2>2, <2>3, <2>5, <2>6, <2>7 DEF NestOk
  <2> QED
    BY <2>8 DEF all
<1> QED
  BY <1>1, <1>2

(* A declaration is under way. *)
Defining(w) == \E i \in DOMAIN w : w[i] \in Define

(* What a variable is initialised with comes before its definition, all else before
   end_compiler. *)
Ordered(w) ==
  /\ \A i \in DOMAIN w : w[i] \in Define => \A j \in 1 .. i - 1 : w[j] \in ExpressionCall
  /\ \A i \in DOMAIN w : w[i] \in Outermost => i = Len(w)
  /\ \A i \in DOMAIN w : w[i] \in BeginFunction => i = 1

(* While a declaration is under way, its variable alone may wait to be defined. *)
Scoped(s, w) == IF Defining(w) THEN Nearly(s) /\ Declared(This(s)) ELSE Settled(s)

(* The compiler stands at a token, and behind one when it begins a function. *)
Sited(s, w) ==
  w # <<>> =>
    /\ w[1].do # "end_compiler" => InText(s)
    /\ w[1] \in BeginFunction => This(s).current >= 2

(* The inductive invariant, of a state. *)
Ok(s) ==
  /\ Base(s)
  /\ NestOk(Depths(s), s.work)
  /\ Ordered(s.work)
  /\ Scoped(s, s.work)
  /\ Sited(s, s.work)

(* The call c is made, before those that wait. *)
Ready(s, c) ==
  /\ Base(s)
  /\ c \in CallType
  /\ Depths(s) \in DepthsType
  /\ After(Depths(s), c) \in DepthsType
  /\ NestOk(After(Depths(s), c), s.work)
  /\ Ordered(s.work)
  /\ \A i \in DOMAIN s.work : s.work[i] \notin BeginFunction
  /\ c \in Outermost => s.work = <<>>
  /\ c \notin ExpressionCall => ~Defining(s.work)
  /\ IF c \in Define \/ Defining(s.work) THEN Nearly(s) /\ Declared(This(s)) ELSE Settled(s)
  /\ c.do # "end_compiler" => InText(s)
  /\ c \in BeginFunction => This(s).current >= 2

(* The state with other calls that wait. *)
WithWork(s, w) == [s EXCEPT !.work = w]

(* Other calls that wait leave the rest as it is. *)
LEMMA WithWorkFacts ==
  ASSUME NEW s, Base(s), NEW w \in Seq(CallType)
  PROVE  /\ Base(WithWork(s, w))
         /\ WithWork(s, w).work = w
         /\ WithWork(s, w).compilers = s.compilers
         /\ WithWork(s, w).functions = s.functions
         /\ WithWork(s, w).errors = s.errors
         /\ This(WithWork(s, w)) = This(s) /\ Me(WithWork(s, w)) = Me(s)
         /\ Function(WithWork(s, w)) = Function(s)
<1> DEFINE t == WithWork(s, w)
<1>1. /\ t.compilers = s.compilers /\ t.functions = s.functions /\ t.errors = s.errors /\ t.work = w
      /\ IsState(t)
  BY BaseFacts DEF IsState, WithWork
<1> HIDE DEF t
<1>2. ASSUME NEW k \in DOMAIN t.compilers PROVE CompilerOk(t, k)
  BY <1>1 DEF Base, CompilerOk
<1>3. ASSUME NEW j \in DOMAIN t.functions PROVE FunctionOk(t, j)
  BY <1>1 DEF Base, FunctionOk
<1>4. Base(t)
  BY <1>1, <1>2, <1>3 DEF Base, Resolved
<1>5. This(t) = This(s) /\ Me(t) = Me(s)
  BY <1>1 DEF This, Me
<1>6. Function(t) = Function(s)
  BY <1>1, <1>5 DEF Function
<1> QED
  BY <1>1, <1>4, <1>5, <1>6 DEF t

(* The next call may be made. *)
LEMMA PopFacts ==
  ASSUME NEW u, Ok(u), u.work # <<>>
  PROVE  Ready(WithWork(u, Tail(u.work)), Head(u.work))
<1> DEFINE w == u.work
           rest == Tail(w)
           s == WithWork(u, rest)
           c == w[1]
<1>1. /\ Base(u) /\ w \in Seq(CallType)
  BY BaseFacts DEF Ok, IsState
<1>2. /\ Len(w) \in Nat \ {0} /\ Head(w) = c /\ c \in CallType /\ DOMAIN w = 1 .. Len(w)
      /\ rest \in Seq(CallType) /\ Len(rest) = Len(w) - 1 /\ DOMAIN rest = 1 .. Len(w) - 1
      /\ \A i \in 1 .. Len(w) - 1 : rest[i] = w[i + 1]
  BY <1>1
<1>3. /\ Base(s) /\ s.work = rest /\ s.compilers = u.compilers /\ This(s) = This(u) /\ Me(s) = Me(u)
  BY <1>1, <1>2, WithWorkFacts
<1> HIDE DEF s, rest, w
<1>4. Depths(s) = Depths(u)
  BY <1>3 DEF Depths
<1>5. /\ Depths(u) \in DepthsType /\ After(Depths(u), c) \in DepthsType
      /\ NestOk(After(Depths(u), c), rest)
  BY <1>1, <1>2, PopNest DEF Ok, rest, w
<1>6. Ordered(w) /\ Scoped(u, w) /\ Sited(u, w) /\ w # <<>>
  BY DEF Ok, w
<1>7. Ordered(rest)
  <2>1. ASSUME NEW i \in DOMAIN rest, rest[i] \in Define, NEW j \in 1 .. i - 1
        PROVE  rest[j] \in ExpressionCall
    <3>1. i + 1 \in DOMAIN w /\ w[i + 1] \in Define /\ j + 1 \in 1 .. (i + 1) - 1 /\ rest[j] = w[j + 1]
      BY <1>2, <2>1
    <3> QED
      BY <1>6, <3>1 DEF Ordered
  <2>2. ASSUME NEW i \in DOMAIN rest, rest[i] \in Outermost
        PROVE  i = Len(rest)
    <3>1. i + 1 \in DOMAIN w /\ w[i + 1] \in Outermost
      BY <1>2, <2>2
    <3>2. i + 1 = Len(w)
      BY <1>6, <3>1 DEF Ordered
    <3> QED
      BY <1>2, <3>2
  <2>3. ASSUME NEW i \in DOMAIN rest, rest[i] \in BeginFunction
        PROVE  FALSE
    <3>1. i + 1 \in DOMAIN w /\ w[i + 1] \in BeginFunction /\ i + 1 # 1
      BY <1>2, <2>3
    <3> QED
      BY <1>6, <3>1 DEF Ordered
  <2> QED
    BY <2>1, <2>2, <2>3 DEF Ordered
<1>8. \A i \in DOMAIN rest : rest[i] \notin BeginFunction
  <2> TAKE i \in DOMAIN rest
  <2>1. i + 1 \in DOMAIN w /\ rest[i] = w[i + 1] /\ i + 1 # 1
    BY <1>2
  <2> QED
    BY <1>6, <2>1 DEF Ordered
<1>9. c \in Outermost => rest = <<>>
  <2> SUFFICES ASSUME c \in Outermost PROVE rest = <<>>
    OBVIOUS
  <2>1. 1 \in DOMAIN w
    BY <1>2
  <2>2. 1 = Len(w)
    BY <1>6, <2>1 DEF Ordered
  <2>3. Len(rest) = 0
    <3>1. Len(rest) = Len(w) - 1
      BY <1>2
    <3> QED
      BY <2>2, <3>1
  <2> QED
    BY <1>2, <2>3, EmptySeq
<1>10. c \notin ExpressionCall => ~Defining(rest)
  <2> SUFFICES ASSUME NEW i \in DOMAIN rest, rest[i] \in Define PROVE c \in ExpressionCall
    BY DEF Defining
  <2>1. i + 1 \in DOMAIN w /\ w[i + 1] \in Define /\ 1 \in 1 .. (i + 1) - 1
    BY <1>2
  <2> QED
    BY <1>6, <2>1 DEF Ordered
<1>11. c \in Define \/ Defining(rest) <=> Defining(w)
  <2>1. c \in Define => Defining(w)
    <3>1. 1 \in DOMAIN w
      BY <1>2
    <3> QED
      BY <3>1 DEF Defining
  <2>2. Defining(rest) => Defining(w)
    <3> SUFFICES ASSUME NEW i \in DOMAIN rest, rest[i] \in Define PROVE Defining(w)
      BY DEF Defining
    <3>1. i + 1 \in DOMAIN w /\ w[i + 1] \in Define
      BY <1>2
    <3> QED
      BY <3>1 DEF Defining
  <2>3. ASSUME Defining(w) PROVE c \in Define \/ Defining(rest)
    <3>1. PICK i \in DOMAIN w : w[i] \in Define
      BY <2>3 DEF Defining
    <3>2. CASE i = 1
      BY <3>1, <3>2
    <3>3. CASE i # 1
      <4>1. i - 1 \in DOMAIN rest /\ rest[i - 1] = w[(i - 1) + 1] /\ (i - 1) + 1 = i
        BY <1>2, <3>3
      <4> QED
        BY <3>1, <4>1 DEF Defining
    <3> QED
      BY <3>2, <3>3
  <2> QED
    BY <2>1, <2>2, <2>3
<1>12. IF c \in Define \/ Defining(rest) THEN Nearly(s) /\ Declared(This(s)) ELSE Settled(s)
  BY <1>3, <1>6, <1>11 DEF Scoped, Nearly, Settled
<1>13. /\ c.do # "end_compiler" => InText(s)
       /\ c \in BeginFunction => This(s).current >= 2
  BY <1>3, <1>6 DEF Sited, InText
<1> HIDE DEF c
<1>14. Ready(s, c)
  BY <1>2, <1>3, <1>4, <1>5, <1>7, <1>8, <1>9, <1>10, <1>12, <1>13 DEF Ready
<1> QED
  BY <1>2, <1>14 DEF s, rest, w

(* There is a depth for each compiler. *)
LEMMA DepthsFacts ==
  ASSUME NEW s, Base(s)
  PROVE  /\ Depths(s) \in DepthsType
         /\ DOMAIN Depths(s) = 1 .. Me(s)
         /\ Len(Depths(s)) = Me(s)
         /\ \A k \in 1 .. Me(s) : Depths(s)[k] = s.compilers[k].scope_depth
<1>1. Me(s) \in Nat \ {0} /\ DOMAIN s.compilers = 1 .. Me(s)
  BY BaseFacts
<1>2. \A k \in 1 .. Me(s) : s.compilers[k].scope_depth \in Nat
  <2>1. \A k \in 1 .. Me(s) : s.compilers[k] \in CompilerType
    BY <1>1, BaseFacts
  <2> QED
    BY <2>1 DEF CompilerType
<1> DEFINE d == [k \in 1 .. Me(s) |-> s.compilers[k].scope_depth]
<1>3. Depths(s) = d
  BY <1>1 DEF Depths
<1>4. d \in [1 .. Me(s) -> Nat]
  BY <1>2
<1>5. d \in Seq(Nat) /\ Len(d) = Me(s)
  <2>1. DOMAIN d = 1 .. Me(s) /\ d = [i \in 1 .. Me(s) |-> d[i]]
    OBVIOUS
  <2>2. \A i \in 1 .. Me(s) : d[i] \in Nat
    BY <1>4
  <2> HIDE DEF d
  <2>3. IsSeq(d) /\ Len(d) = Me(s)
    BY <1>1, <2>1, FunctionIsSeq
  <2> QED
    BY <2>2, <2>3, SeqOfType
<1>6. d # <<>>
  <2> HIDE DEF d
  <2>1. Len(d) # 0
    BY <1>1, <1>5
  <2> QED
    BY <2>1
<1> QED
  BY <1>1, <1>3, <1>5, <1>6 DEF DepthsType

(* Where no depth changes, all depths are the same. *)
LEMMA SameDepthsFacts ==
  ASSUME NEW s, Base(s), NEW t, Base(t), SameDepths(s, t)
  PROVE  Depths(t) = Depths(s)
<1>1. DOMAIN s.compilers = DOMAIN t.compilers
  BY BaseFacts DEF SameDepths
<1> QED
  BY <1>1 DEF Depths, SameDepths

(* A call that has made its changes, and leaves calls to be made first, keeps the invariant. *)
LEMMA PushFacts ==
  ASSUME NEW s, NEW c, Ready(s, c), NEW t, Base(t), NEW cs \in Seq(CallType), t.work = cs \o s.work,
         cs = <<>> => Depths(t) = After(Depths(s), c),
         cs # <<>> => /\ \A i \in 1 .. Len(cs) - 1 : cs[i] \notin EndFunction \cup ClosingCall
                      /\ After(Depths(t), cs[Len(cs)]) = After(Depths(s), c),
         \A i \in DOMAIN cs : cs[i] \in Define => \A j \in 1 .. i - 1 : cs[j] \in ExpressionCall,
         \A i \in DOMAIN cs : cs[i] \in Outermost => i = Len(cs) /\ c \in Outermost,
         \A i \in DOMAIN cs : cs[i] \in BeginFunction => i = 1 /\ This(t).current >= 2,
         IF c \in ExpressionCall
         THEN (\A i \in DOMAIN cs : cs[i] \in ExpressionCall) /\ SameScopes(s, t)
         ELSE IF Defining(cs) THEN Nearly(t) /\ Declared(This(t)) ELSE Settled(t),
         cs = <<>> => InText(t) \/ s.work = <<>>,
         cs # <<>> => InText(t) \/ cs[1].do = "end_compiler"
  PROVE  Ok(t)
<1> DEFINE w == s.work
           m == Len(cs)
           n == Len(w)
           all == cs \o w
<1>1. /\ Base(s) /\ w \in Seq(CallType) /\ t.work = all
  BY BaseFacts DEF Ready, IsState
<1>2. /\ m \in Nat /\ n \in Nat /\ DOMAIN cs = 1 .. m /\ DOMAIN w = 1 .. n
      /\ all \in Seq(CallType) /\ Len(all) = m + n
      /\ \A i \in 1 .. m + n : all[i] = IF i <= m THEN cs[i] ELSE w[i - m]
  BY <1>1, ConcatProperties
<1>3. NestOk(Depths(t), all)
  <2>1. Depths(t) \in DepthsType /\ NestOk(After(Depths(s), c), w)
    BY DepthsFacts DEF Ready
  <2> QED
    BY <1>1, <2>1, PushNest
<1>4. Ordered(w)
  BY DEF Ready
<1> HIDE DEF w, m, n, all
<1>5. DOMAIN all = 1 .. m + n
  BY <1>2
<1>6. ASSUME NEW i \in DOMAIN all
      PROVE  \/ i \in DOMAIN cs /\ all[i] = cs[i] /\ i <= m
             \/ i - m \in DOMAIN w /\ all[i] = w[i - m] /\ i > m
  <2>1. i \in 1 .. m + n /\ i \in Nat
    BY <1>2, <1>5
  <2>2. CASE i <= m
    <3>1. i \in 1 .. m
      BY <1>2, <2>1, <2>2
    <3> QED
      BY <1>2, <2>1, <2>2, <3>1
  <2>3. CASE ~(i <= m)
    <3>1. i - m \in 1 .. n /\ i > m
      BY <1>2, <2>1, <2>3
    <3>2. all[i] = w[i - m]
      BY <1>2, <2>1, <2>3
    <3> QED
      BY <1>2, <3>1, <3>2
  <2> QED
    BY <2>2, <2>3
<1>7. Defining(all) <=> Defining(cs) \/ Defining(w)
  <2>1. Defining(all) => Defining(cs) \/ Defining(w)
    BY <1>6 DEF Defining
  <2>2. Defining(cs) => Defining(all)
    <3> SUFFICES ASSUME NEW i \in DOMAIN cs, cs[i] \in Define PROVE Defining(all)
      BY DEF Defining
    <3>1. i \in DOMAIN all /\ all[i] = cs[i]
      BY <1>2, <1>5
    <3> QED
      BY <3>1 DEF Defining
  <2>3. Defining(w) => Defining(all)
    <3> SUFFICES ASSUME NEW i \in DOMAIN w, w[i] \in Define PROVE Defining(all)
      BY DEF Defining
    <3> DEFINE q == i + m
    <3>0. m \in Nat /\ n \in Nat /\ i \in 1 .. n
      BY <1>2
    <3>1. q \in 1 .. m + n /\ ~(q <= m) /\ q - m = i
      BY <3>0
    <3> HIDE DEF q
    <3>2. all[q] = w[q - m] /\ q \in DOMAIN all
      BY <1>2, <1>5, <3>1
    <3>3. all[q] \in Define
      BY <3>1, <3>2
    <3> QED
      BY <3>2, <3>3 DEF Defining
  <2> QED
    BY <2>1, <2>2, <2>3
<1>8. Defining(w) => c \in ExpressionCall
  BY DEF Ready, w
<1>9. Ordered(all)
  <2>1. ASSUME NEW i \in DOMAIN all, all[i] \in Define, NEW j \in 1 .. i - 1
        PROVE  all[j] \in ExpressionCall
    <3>1. CASE i \in DOMAIN cs /\ all[i] = cs[i] /\ i <= m
      <4>1. j \in 1 .. i - 1 /\ all[j] = cs[j]
        BY <1>2, <1>5, <3>1
      <4> QED
        BY <2>1, <3>1, <4>1
    <3>2. CASE i - m \in DOMAIN w /\ all[i] = w[i - m] /\ i > m
      <4>1. c \in ExpressionCall
        BY <1>8, <2>1, <3>2 DEF Defining
      <4>2. \A k \in 1 .. (i - m) - 1 : w[k] \in ExpressionCall
        BY <1>4, <2>1, <3>2 DEF Ordered
      <4>3. CASE j <= m
        <5>1. j \in DOMAIN cs /\ all[j] = cs[j]
          BY <1>2, <1>5, <4>3
        <5> QED
          BY <4>1, <5>1
      <4>4. CASE ~(j <= m)
        <5>0. i \in 1 .. m + n /\ j \in 1 .. i - 1 /\ j \in Int
          BY <1>2, <1>5
        <5>2. j \in 1 .. m + n /\ j - m \in 1 .. (i - m) - 1
          <6>1. i \in Int /\ m \in Int /\ n \in Int
            BY <1>2, <5>0
          <6> QED
            BY <4>4, <5>0, <6>1
        <5>1. all[j] = w[j - m] /\ j - m \in 1 .. (i - m) - 1
          BY <1>2, <4>4, <5>2
        <5> QED
          BY <4>2, <5>1
      <4> QED
        BY <4>3, <4>4
    <3> QED
      BY <1>6, <3>1, <3>2
  <2>2. ASSUME NEW i \in DOMAIN all, all[i] \in Outermost
        PROVE  i = Len(all)
    <3>1. CASE i \in DOMAIN cs /\ all[i] = cs[i] /\ i <= m
      <4>1. i = m /\ c \in Outermost
        BY <2>2, <3>1 DEF m
      <4>2. n = 0
        BY <4>1 DEF Ready, w, n
      <4> QED
        BY <1>2, <4>1, <4>2
    <3>2. CASE i - m \in DOMAIN w /\ all[i] = w[i - m] /\ i > m
      <4>1. i - m = n
        BY <1>4, <2>2, <3>2 DEF Ordered, n
      <4> QED
        BY <1>2, <1>5, <4>1
    <3> QED
      BY <1>6, <3>1, <3>2
  <2>3. ASSUME NEW i \in DOMAIN all, all[i] \in BeginFunction
        PROVE  i = 1
    BY <1>6, <2>3 DEF Ready, w
  <2> QED
    BY <2>1, <2>2, <2>3 DEF Ordered
<1>10. Scoped(t, all)
  <2>1. CASE c \in ExpressionCall
    <3>1. ~Defining(cs) /\ c \notin Define
      BY <2>1, KindsDiffer DEF Defining
    <3>2. IF Defining(w) THEN Nearly(s) /\ Declared(This(s)) ELSE Settled(s)
      BY <3>1 DEF Ready, w
    <3>3. IF Defining(w) THEN Nearly(t) /\ Declared(This(t)) ELSE Settled(t)
      BY <1>1, <2>1, <3>2, ScopesKept
    <3> QED
      BY <1>7, <3>1, <3>3 DEF Scoped
  <2>2. CASE c \notin ExpressionCall
    BY <1>7, <1>8, <2>2 DEF Scoped
  <2> QED
    BY <2>1, <2>2
<1>11. Sited(t, all)
  <2>1. CASE cs = <<>>
    <3>1. all = w
      BY <1>1, <2>1 DEF all
    <3>2. w # <<>> => InText(t)
      BY <2>1 DEF w
    <3>3. ASSUME w # <<>> PROVE w[1] \notin BeginFunction
      <4>1. 1 \in DOMAIN w
        BY <1>1, <1>2, <3>3 DEF n
      <4> QED
        BY <4>1 DEF Ready, w
    <3> QED
      BY <3>1, <3>2, <3>3 DEF Sited
  <2>2. CASE cs # <<>>
    <3>1. 1 \in DOMAIN cs /\ all[1] = cs[1]
      <4>1. m # 0
        BY <2>2, EmptySeq DEF m
      <4>2. 1 \in 1 .. m + n /\ 1 <= m
        BY <1>2, <4>1
      <4> QED
        BY <1>2, <4>2
    <3> QED
      BY <2>2, <3>1 DEF Sited
  <2> QED
    BY <2>1, <2>2
<1> QED
  BY <1>1, <1>3, <1>9, <1>10, <1>11 DEF Ok

(* A call that makes a part of an expression. *)
LEMMA ExpressionStep ==
  ASSUME NEW s, NEW c, Ready(s, c), c \in ExpressionCall,
         NEW t, Base(t), SameScopes(s, t), InText(t),
         NEW cs \in Seq(ExpressionCall), t.work = cs \o s.work
  PROVE  Ok(t)
<1>1. Base(s) /\ SameDepths(s, t)
  BY ScopesKept DEF Ready
<1>2. Depths(t) = Depths(s)
  BY <1>1, SameDepthsFacts
<1>3. \A d : \A e \in ExpressionCall : After(d, e) = d
  BY KindsDiffer DEF After
<1>4. cs \in Seq(CallType)
  <2>1. ExpressionCall \subseteq CallType
    BY DEF CallType
  <2> QED
    BY <2>1, SeqMonotonic
<1>5. /\ DOMAIN cs = 1 .. Len(cs) /\ Len(cs) \in Nat
      /\ \A i \in DOMAIN cs : cs[i] \in ExpressionCall
  OBVIOUS
<1>6. \A i \in DOMAIN cs : /\ cs[i] \notin EndFunction \cup ClosingCall
                           /\ cs[i] \notin Define /\ cs[i] \notin Outermost /\ cs[i] \notin BeginFunction
  BY <1>5, KindsDiffer
<1>7. cs # <<>> => Len(cs) \in DOMAIN cs
  BY <1>5, EmptySeq
<1>8. \A i \in 1 .. Len(cs) - 1 : i \in DOMAIN cs
  BY <1>5
<1> QED
  BY <1>2, <1>3, <1>4, <1>5, <1>6, <1>7, <1>8, PushFacts, ZenonT(60)

(* A call that makes a part of a statement, and hands on what it must close. *)
LEMMA StatementStep ==
  ASSUME NEW s, NEW c, Ready(s, c), c \in StatementCall \cup ClosingCall,
         NEW t, Base(t), SameDepths(s, t), Settled(t), InText(t),
         NEW cs \in Seq(ExpressionCall \cup StatementCall \cup ClosingCall), t.work = cs \o s.work,
         c \in ClosingCall => cs # <<>>,
         \A i \in 1 .. Len(cs) - 1 : cs[i] \notin ClosingCall,
         cs # <<>> => (cs[Len(cs)] \in ClosingCall <=> c \in ClosingCall)
  PROVE  Ok(t)
<1>1. Base(s)
  BY DEF Ready
<1>2. Depths(t) = Depths(s)
  BY <1>1, SameDepthsFacts
<1>3. c \notin ExpressionCall /\ c \notin EndFunction
  BY KindsDiffer
<1>4. cs \in Seq(CallType)
  <2>1. ExpressionCall \cup StatementCall \cup ClosingCall \subseteq CallType
    BY DEF CallType
  <2> QED
    BY <2>1, SeqMonotonic
<1>5. /\ DOMAIN cs = 1 .. Len(cs) /\ Len(cs) \in Nat
      /\ \A i \in DOMAIN cs : cs[i] \in ExpressionCall \cup StatementCall \cup ClosingCall
  OBVIOUS
<1>6. \A i \in DOMAIN cs : /\ cs[i] \notin EndFunction
                           /\ cs[i] \notin Define /\ cs[i] \notin Outermost /\ cs[i] \notin BeginFunction
  BY <1>5, KindsDiffer
<1>7. cs # <<>> => Len(cs) \in DOMAIN cs
  BY <1>5, EmptySeq
<1>8. \A i \in 1 .. Len(cs) - 1 : i \in DOMAIN cs
  BY <1>5
<1>9. cs = <<>> => After(Depths(s), c) = Depths(s)
  BY <1>3 DEF After
<1>10. cs # <<>> => After(Depths(s), cs[Len(cs)]) = After(Depths(s), c)
  BY <1>3, <1>6, <1>7 DEF After
<1>11. ~Defining(cs)
  BY <1>6 DEF Defining
<1> QED
  BY <1>2, <1>3, <1>4, <1>6, <1>8, <1>9, <1>10, <1>11, PushFacts

(* Calls that are left to be made come first, and change nothing yet. *)
LEMMA ThenFacts ==
  ASSUME NEW s, Base(s), NEW cs \in Seq(CallType)
  PROVE  /\ Base(Then(s, cs))
         /\ Then(s, cs).work = cs \o s.work
         /\ Then(s, cs).compilers = s.compilers
         /\ Then(s, cs).functions = s.functions
         /\ Then(s, cs).errors = s.errors
         /\ This(Then(s, cs)) = This(s) /\ Me(Then(s, cs)) = Me(s)
         /\ Function(Then(s, cs)) = Function(s)
<1>1. s.work \in Seq(CallType)
  BY BaseFacts DEF IsState
<1>2. cs \o s.work \in Seq(CallType)
  BY <1>1, ConcatProperties
<1>3. Then(s, cs) = WithWork(s, cs \o s.work)
  BY BaseFacts DEF IsState, Then, WithWork
<1> DEFINE w == cs \o s.work
<1> HIDE DEF w
<1>4. /\ Base(WithWork(s, w)) /\ WithWork(s, w).work = w
      /\ WithWork(s, w).compilers = s.compilers /\ WithWork(s, w).functions = s.functions
      /\ WithWork(s, w).errors = s.errors
      /\ This(WithWork(s, w)) = This(s) /\ Me(WithWork(s, w)) = Me(s)
      /\ Function(WithWork(s, w)) = Function(s)
  <2>1. w \in Seq(CallType)
    BY <1>2 DEF w
  <2> QED
    BY <2>1, WithWorkFacts
<1>5. Then(s, cs) = WithWork(s, w)
  BY <1>3 DEF w
<1> QED
  BY <1>4, <1>5 DEF w

(* They do not change what is read, emitted or declared either. *)
LEMMA ThenSites ==
  ASSUME NEW s, Base(s), NEW cs \in Seq(CallType)
  PROVE  /\ InText(Then(s, cs)) <=> InText(s)
         /\ Current(Then(s, cs)) = Current(s) /\ Previous(Then(s, cs)) = Previous(s)
         /\ Depths(Then(s, cs)) = Depths(s)
         /\ Nearly(Then(s, cs)) <=> Nearly(s)
         /\ Settled(Then(s, cs)) <=> Settled(s)
         /\ SameScopes(s, Then(s, cs))
         /\ CodeSize(Then(s, cs)) = CodeSize(s)
         /\ JumpAddress(Then(s, cs)) = JumpAddress(s)
<1> DEFINE t == Then(s, cs)
<1>1. t.compilers = s.compilers /\ This(t) = This(s) /\ Me(t) = Me(s) /\ Function(t) = Function(s)
  BY ThenFacts
<1> HIDE DEF t
<1>2. /\ InText(t) <=> InText(s)
      /\ Current(t) = Current(s) /\ Previous(t) = Previous(s)
      /\ Depths(t) = Depths(s)
      /\ CodeSize(t) = CodeSize(s)
  BY <1>1 DEF InText, Current, Previous, Depths, CodeSize
<1>3. /\ Nearly(t) <=> Nearly(s)
      /\ Settled(t) <=> Settled(s)
      /\ SameScopes(s, t)
  BY <1>1 DEF Nearly, Settled, SameScopes
<1>4. JumpAddress(t) = JumpAddress(s)
  BY <1>2 DEF JumpAddress
<1> QED
  BY <1>2, <1>3, <1>4 DEF t

(* Calls of each kind are calls. *)
LEMMA CallKinds ==
  /\ ExpressionCall \subseteq CallType
  /\ StatementCall \subseteq CallType
  /\ ClosingCall \subseteq CallType
  /\ ExpressionCall \cup StatementCall \subseteq CallType
  /\ ExpressionCall \cup StatementCall \cup ClosingCall \subseteq CallType
BY DEF CallType

(* A call that makes a part of an expression. *)
LEMMA ExpressionMade ==
  ASSUME NEW s, NEW c, Ready(s, c), c \in ExpressionCall,
         NEW t, Keeps(s, t)
  PROVE  /\ Ok(t)
         /\ \A cs \in Seq(ExpressionCall) : Ok(Then(t, cs))
<1>1. Base(s) /\ Base(t) /\ SameScopes(s, t) /\ t.work = s.work /\ InText(t)
  BY NameFacts DEF Keeps, Ready, ExpressionName
<1>2. <<>> \in Seq(ExpressionCall) /\ s.work = <<>> \o s.work
  BY <1>1, BaseFacts DEF IsState
<1>3. Ok(t)
  BY <1>1, <1>2, ExpressionStep
<1>4. ASSUME NEW cs \in Seq(ExpressionCall)
      PROVE  Ok(Then(t, cs))
  <2> DEFINE u == Then(t, cs)
  <2>1. cs \in Seq(CallType)
    BY CallKinds, SeqMonotonic
  <2>2. Base(u) /\ u.work = cs \o s.work /\ InText(u) /\ u.compilers = t.compilers
    BY <1>1, <2>1, ThenFacts, ThenSites
  <2> HIDE DEF u
  <2>3. SameScopes(s, u)
    BY <1>1, <2>2 DEF SameScopes
  <2>4. Ok(u)
    BY <2>2, <2>3, ExpressionStep
  <2> QED
    BY <2>4 DEF u
<1> QED
  BY <1>3, <1>4

(* A call that makes a part of a statement. *)
LEMMA StatementMade ==
  ASSUME NEW s, NEW c, Ready(s, c), c \in StatementCall,
         NEW t, Base(t), SameDepths(s, t), Settled(t), InText(t), t.work = s.work
  PROVE  /\ Ok(t)
         /\ \A cs \in Seq(ExpressionCall \cup StatementCall) : Ok(Then(t, cs))
<1> DEFINE Some == ExpressionCall \cup StatementCall
           AnyCall == ExpressionCall \cup StatementCall \cup ClosingCall
<1>1. \A e \in Some : e \notin ClosingCall
  BY KindsDiffer
<1>2. c \notin ClosingCall
  BY KindsDiffer
<1>3. Base(s) /\ s.work = <<>> \o s.work /\ <<>> \in Seq(AnyCall)
  BY BaseFacts DEF IsState, Ready
<1>4. Ok(t)
  <2> DEFINE none == <<>>
  <2>1. none \in Seq(AnyCall) /\ Len(none) = 0 /\ t.work = none \o s.work /\ none = <<>>
    BY <1>3
  <2> HIDE DEF none, AnyCall
  <2>2. \A i \in 1 .. Len(none) - 1 : none[i] \notin ClosingCall
    BY <2>1
  <2> QED
    BY <1>2, <2>1, <2>2, StatementStep DEF AnyCall
<1>5. ASSUME NEW cs \in Seq(Some)
      PROVE  Ok(Then(t, cs))
  <2> DEFINE u == Then(t, cs)
  <2>1. cs \in Seq(CallType) /\ cs \in Seq(AnyCall)
    BY CallKinds, SeqMonotonic
  <2>2. Base(u) /\ u.work = cs \o s.work /\ InText(u) /\ Settled(u) /\ u.compilers = t.compilers
    BY <1>3, <2>1, ThenFacts, ThenSites
  <2>3. \A i \in DOMAIN cs : cs[i] \in Some
    OBVIOUS
  <2>4. DOMAIN cs = 1 .. Len(cs) /\ Len(cs) \in Nat /\ (cs # <<>> => Len(cs) # 0)
    BY EmptySeq
  <2>6. /\ \A i \in 1 .. Len(cs) - 1 : cs[i] \notin ClosingCall
        /\ cs # <<>> => cs[Len(cs)] \notin ClosingCall
    BY <1>1, <2>3, <2>4
  <2> HIDE DEF u
  <2>5. SameDepths(s, u)
    BY <2>2 DEF SameDepths
  <2>7. Ok(u)
    BY <1>2, <2>1, <2>2, <2>5, <2>6, StatementStep
  <2> QED
    BY <2>7 DEF u
<1> QED
  BY <1>4, <1>5

(* A call that will have its scope left by another one. *)
LEMMA ClosingMade ==
  ASSUME NEW s, NEW c, Ready(s, c), c \in ClosingCall,
         NEW t, Base(t), SameDepths(s, t), Settled(t), InText(t), t.work = s.work
  PROVE  \A cs \in Seq(ExpressionCall \cup StatementCall) : \A last \in ClosingCall :
           Ok(Then(t, Append(cs, last)))
<1> SUFFICES ASSUME NEW front \in Seq(ExpressionCall \cup StatementCall), NEW last \in ClosingCall
             PROVE  Ok(Then(t, Append(front, last)))
  OBVIOUS
<1> DEFINE Some == ExpressionCall \cup StatementCall
           AnyCall == ExpressionCall \cup StatementCall \cup ClosingCall
           cs == Append(front, last)
           u == Then(t, cs)
<1>1. \A e \in Some : e \notin ClosingCall
  BY KindsDiffer
<1>2. front \in Seq(AnyCall)
  BY SeqMonotonic
<1>3. cs \in Seq(AnyCall) /\ Len(cs) = Len(front) + 1 /\ cs[Len(cs)] = last /\ cs # <<>>
  BY <1>2, AppendProperties
<1>4. cs \in Seq(CallType)
  BY <1>3, CallKinds, SeqMonotonic
<1>5. \A i \in 1 .. Len(cs) - 1 : cs[i] \notin ClosingCall
  <2>1. \A i \in 1 .. Len(front) : front[i] \in Some /\ cs[i] = front[i]
    BY <1>2, AppendProperties
  <2>2. Len(front) \in Nat
    OBVIOUS
  <2> HIDE DEF cs, Some
  <2>3. Len(cs) - 1 = Len(front)
    BY <1>3, <2>2
  <2> QED
    BY <1>1, <2>1, <2>3
<1> HIDE DEF cs
<1>6. Base(u) /\ u.work = cs \o s.work /\ InText(u) /\ Settled(u) /\ u.compilers = t.compilers
  BY <1>4, ThenFacts, ThenSites
<1> HIDE DEF u
<1>7. SameDepths(s, u)
  BY <1>6 DEF SameDepths
<1>8. Ok(u)
  BY <1>3, <1>5, <1>6, <1>7, StatementStep
<1> QED
  BY <1>8 DEF u, cs

(* What a call finds that is not an expression's. *)
LEMMA ReadyFacts ==
  ASSUME NEW s, NEW c, Ready(s, c)
  PROVE  /\ Base(s)
         /\ c \in CallType
         /\ c.do # "end_compiler" => InText(s)
         /\ c.do \in ExpressionName => c \in ExpressionCall
         /\ c.do \in StatementName => c \in StatementCall /\ Settled(s)
         /\ c.do \in ClosingName => c \in ClosingCall /\ Settled(s)
<1>1. c \in CallType /\ Base(s)
  BY DEF Ready
<1>2. ASSUME c \in StatementCall \/ c \in ClosingCall
      PROVE  Settled(s)
  <2>1. c \notin ExpressionCall /\ c \notin Define
    BY <1>2, KindsDiffer
  <2> QED
    BY <2>1 DEF Ready
<1> QED
  BY <1>1, <1>2, KindFacts DEF Ready

(* What a statement's call keeps, it keeps settled. *)
LEMMA KeepsSettled ==
  ASSUME NEW s, Base(s), Settled(s), InText(s), NEW t, Keeps(s, t)
  PROVE  Base(t) /\ SameDepths(s, t) /\ Settled(t) /\ InText(t) /\ t.work = s.work
BY ScopesKept DEF Keeps

(* The operations that are named in the compiler are operations. *)
LEMMA OpcodeNames ==
  {"OP_NIL", "OP_TRUE", "OP_FALSE", "OP_POP", "OP_EQUAL", "OP_GREATER", "OP_LESS", "OP_ADD",
   "OP_SUBTRACT", "OP_MULTIPLY", "OP_DIVIDE", "OP_NOT", "OP_NEGATE", "OP_PRINT", "OP_RETURN",
   "OP_JUMP_IF_FALSE", "OP_JUMP", "OP_CALL", "OP_CLOSURE"} \cup VariableCode \subseteq OpCode
<1>1. \A i \in 1 .. 30 : i \in DOMAIN OpCodes
  BY DEF OpCodes
<1>2. /\ OpCodes[1] = "OP_RETURN" /\ OpCodes[3] = "OP_NIL" /\ OpCodes[4] = "OP_TRUE"
      /\ OpCodes[5] = "OP_FALSE" /\ OpCodes[6] = "OP_POP" /\ OpCodes[7] = "OP_GET_LOCAL"
      /\ OpCodes[8] = "OP_SET_LOCAL" /\ OpCodes[9] = "OP_GET_GLOBAL" /\ OpCodes[11] = "OP_SET_GLOBAL"
      /\ OpCodes[12] = "OP_EQUAL" /\ OpCodes[13] = "OP_GREATER" /\ OpCodes[14] = "OP_LESS"
      /\ OpCodes[15] = "OP_ADD" /\ OpCodes[16] = "OP_SUBTRACT" /\ OpCodes[17] = "OP_MULTIPLY"
      /\ OpCodes[18] = "OP_DIVIDE" /\ OpCodes[19] = "OP_NOT" /\ OpCodes[20] = "OP_NEGATE"
      /\ OpCodes[21] = "OP_PRINT" /\ OpCodes[22] = "OP_JUMP_IF_FALSE" /\ OpCodes[23] = "OP_JUMP"
      /\ OpCodes[25] = "OP_CALL" /\ OpCodes[26] = "OP_CLOSURE" /\ OpCodes[28] = "OP_GET_UPVALUE"
      /\ OpCodes[29] = "OP_SET_UPVALUE"
  BY DEF OpCodes
<1> QED
  BY <1>1, <1>2, OpcodeFacts DEF VariableCode

(* The tables of operators contain operations. *)
LEMMA OperatorFacts ==
  /\ \A type \in DOMAIN UnaryCode : UnaryCode[type] \in Seq(OpCode)
  /\ \A type \in DOMAIN BinaryCode : BinaryCode[type] \in Seq(OpCode)
  /\ \A type \in DOMAIN LiteralCode : LiteralCode[type] \in OpCode
<1>0. \A a, b \in OpCode : <<a>> \in Seq(OpCode) /\ <<a, b>> \in Seq(OpCode)
  OBVIOUS
<1>1. ASSUME NEW type \in DOMAIN UnaryCode PROVE UnaryCode[type] \in Seq(OpCode)
  <2>1. UnaryCode[type] \in {<<"OP_NOT">>, <<"OP_NEGATE">>}
    BY DEF UnaryCode
  <2> QED
    BY <1>0, <2>1, OpcodeNames
<1>2. ASSUME NEW type \in DOMAIN BinaryCode PROVE BinaryCode[type] \in Seq(OpCode)
  <2>1. BinaryCode[type] \in {<<"OP_EQUAL", "OP_NOT">>, <<"OP_EQUAL">>, <<"OP_GREATER">>, <<"OP_LESS">>,
                              <<"OP_LESS", "OP_NOT">>, <<"OP_GREATER", "OP_NOT">>, <<"OP_MULTIPLY">>,
                              <<"OP_DIVIDE">>, <<"OP_ADD">>, <<"OP_SUBTRACT">>}
    BY DEF BinaryCode
  <2> QED
    BY <1>0, <2>1, OpcodeNames
<1>3. ASSUME NEW type \in DOMAIN LiteralCode PROVE LiteralCode[type] \in OpCode
  BY OpcodeNames DEF LiteralCode
<1> QED
  BY <1>1, <1>2, <1>3

(* Precedences lie between those of a literal and of a call. *)
LEMMA PrecedenceFacts ==
  /\ \A type \in TokenType : InfixPrecedence[type] \in NONE .. CALL
  /\ NONE = 0 /\ ASSIGNMENT = 1 /\ CALL = 9 /\ UNARY \in 1 .. 9 /\ AND \in 1 .. 9 /\ OR \in 1 .. 9
<1>1. ASSUME NEW type \in TokenType PROVE InfixPrecedence[type] \in NONE .. CALL
  BY DEF InfixPrecedence, NONE, CALL, TERM, FACTOR, EQUALITY, COMPARISON, AND, OR
<1> QED
  BY <1>1 DEF NONE, ASSIGNMENT, CALL, UNARY, AND, OR

(* More calls before those an expression's call has made. *)
LEMMA ExpressionGrows ==
  ASSUME NEW v, Ok(v), v.work # <<>>, Head(v.work) \in ExpressionCall, NEW t, Keeps(v, t)
  PROVE  /\ Ok(t)
         /\ \A cs \in Seq(ExpressionCall) : Ok(Then(t, cs))
<1> DEFINE c == Head(v.work)
           rest == Tail(v.work)
           s == WithWork(v, rest)
<1>1. Base(v) /\ v.work \in Seq(CallType)
  BY BaseFacts DEF Ok, IsState
<1>2. rest \in Seq(CallType) /\ v.work = <<c>> \o rest /\ <<c>> \in Seq(ExpressionCall)
  BY <1>1, HeadTailProperties
<1>3. Ready(s, c)
  BY PopFacts
<1>4. s.compilers = v.compilers /\ This(s) = This(v) /\ s.work = rest
  BY <1>1, <1>2, WithWorkFacts
<1> HIDE DEF s, c, rest
<1>5. InText(v)
  <2>1. InText(s)
    BY <1>3, NameFacts DEF Ready, ExpressionName, c
  <2> QED
    BY <1>4, <2>1 DEF InText
<1>6. Base(t) /\ t.work = v.work /\ SameScopes(s, t) /\ InText(t)
  BY <1>4, <1>5 DEF Keeps, SameScopes
<1>7. Ok(t)
  BY <1>2, <1>3, <1>4, <1>6, ExpressionStep DEF c
<1>8. ASSUME NEW cs \in Seq(ExpressionCall)
      PROVE  Ok(Then(t, cs))
  <2> DEFINE u == Then(t, cs)
             ds == Append(cs, c)
  <2>1. cs \in Seq(CallType)
    BY CallKinds, SeqMonotonic
  <2>2. Base(u) /\ u.work = cs \o t.work /\ InText(u) /\ u.compilers = t.compilers
    BY <1>6, <2>1, ThenFacts, ThenSites
  <2>3. ds \in Seq(ExpressionCall)
    BY DEF c
  <2>4. u.work = ds \o s.work
    <3>1. cs \o (<<c>> \o rest) = Append(cs, c) \o rest
      BY <1>2, <2>1 DEF c
    <3> QED
      BY <1>2, <1>4, <1>6, <2>2, <3>1
  <2> HIDE DEF u, ds
  <2>5. SameScopes(s, u)
    BY <1>6, <2>2 DEF SameScopes
  <2>6. Ok(u)
    BY <1>3, <2>2, <2>3, <2>4, <2>5, ExpressionStep DEF c
  <2> QED
    BY <2>6 DEF u
<1> QED
  BY <1>7, <1>8

(* `consume' keeps the invariant. *)
LEMMA ConsumeStep ==
  ASSUME TokensOk, NEW s, NEW c, Ready(s, c), c.do = "consume"
  PROVE  Ok(RunConsume(s, c))
<1>1. c \in ExpressionCall /\ Base(s) /\ InText(s) /\ c.type # "LOX_EOF"
  BY ReadyFacts, ShapeFacts DEF ExpressionName
<1>2. Keeps(s, Consume(s, c.type))
  BY <1>1, ConsumeFacts
<1> QED
  BY <1>1, <1>2, ExpressionMade DEF RunConsume

(* `emit' keeps the invariant. *)
LEMMA EmitStep ==
  ASSUME NEW s, NEW c, Ready(s, c), c.do = "emit"
  PROVE  Ok(RunEmit(s, c))
<1>1. c \in ExpressionCall /\ Base(s) /\ c.bytes \in Seq(Byte)
  BY ReadyFacts, ShapeFacts DEF ExpressionName
<1>2. Keeps(s, EmitBytes(s, c.bytes))
  BY <1>1, EmitBytesFacts
<1> QED
  BY <1>1, <1>2, ExpressionMade DEF RunEmit

(* `patch_jump' keeps the invariant. *)
LEMMA PatchJumpStep ==
  ASSUME NEW s, NEW c, Ready(s, c), c.do = "patch_jump"
  PROVE  Ok(RunPatchJump(s, c))
<1>1. c \in ExpressionCall /\ Base(s) /\ c.jump \in Nat
  BY ReadyFacts, ShapeFacts DEF ExpressionName
<1>2. Keeps(s, PatchJump(s, c.jump))
  BY <1>1, PatchJumpFacts
<1> QED
  BY <1>1, <1>2, ExpressionMade DEF RunPatchJump

(* `argument' keeps the invariant. *)
LEMMA ArgumentStep ==
  ASSUME NEW s, NEW c, Ready(s, c), c.do = "argument"
  PROVE  Ok(RunArgument(s, c))
<1>1. c \in ExpressionCall /\ Base(s) /\ c.count \in 0 .. UINT8_MAX
  BY ReadyFacts, ShapeFacts DEF ExpressionName
<1>2. CASE c.count >= UINT8_MAX
  <2>1. Keeps(s, ErrorAtCurrent(s, "Cannot have more than 255 arguments."))
    BY <1>1, ErrorFacts
  <2> QED
    BY <1>1, <1>2, <2>1, ExpressionMade DEF RunArgument
<1>3. CASE ~(c.count >= UINT8_MAX)
  <2> DEFINE next == [do |-> "next_argument", count |-> c.count + 1]
             cs == <<Expression, next>>
  <2>1. c.count + 1 \in 0 .. UINT8_MAX
    BY <1>1, <1>3, ByteAssumption
  <2>2. next \in ExpressionCall
    BY <2>1 DEF ExpressionCall
  <2>3. RunArgument(s, c) = Then(s, cs)
    BY <1>3 DEF RunArgument
  <2> HIDE DEF next
  <2>4. cs \in Seq(ExpressionCall)
    BY <2>2, ExpressionCallFacts
  <2> HIDE DEF cs
  <2> QED
    BY <1>1, <2>3, <2>4, KeepsReflexive, ExpressionMade
<1> QED
  BY <1>2, <1>3

(* `next_argument' keeps the invariant. *)
LEMMA NextArgumentStep ==
  ASSUME TokensOk, NEW s, NEW c, Ready(s, c), c.do = "next_argument"
  PROVE  Ok(RunNextArgument(s, c))
<1>1. /\ c \in ExpressionCall /\ Base(s) /\ InText(s)
      /\ c \in [do : {"argument", "next_argument", "end_call"}, count : 0 .. UINT8_MAX]
  BY ReadyFacts, ShapeFacts DEF ExpressionName
<1>2. [c EXCEPT !.do = "argument"] \in ExpressionCall /\ [c EXCEPT !.do = "end_call"] \in ExpressionCall
  <2>1. \A name \in {"argument", "end_call"} :
          [c EXCEPT !.do = name] \in [do : {"argument", "next_argument", "end_call"}, count : 0 .. UINT8_MAX]
    BY <1>1
  <2> QED
    BY <2>1 DEF ExpressionCall
<1> DEFINE more == <<[c EXCEPT !.do = "argument"]>>
           last == <<[c EXCEPT !.do = "end_call"]>>
<1>5. more \in Seq(ExpressionCall) /\ last \in Seq(ExpressionCall)
  BY <1>2
<1>6. RunNextArgument(s, c) = IF Check(s, "COMMA") THEN Then(Advance(s), more) ELSE Then(s, last)
  BY DEF RunNextArgument
<1> HIDE DEF more, last
<1>3. CASE Check(s, "COMMA")
  <2>1. Keeps(s, Advance(s))
    BY <1>1, <1>3, AdvanceFacts DEF Check
  <2> QED
    BY <1>1, <1>3, <1>5, <1>6, <2>1, ExpressionMade
<1>4. CASE ~Check(s, "COMMA")
  BY <1>1, <1>4, <1>5, <1>6, KeepsReflexive, ExpressionMade
<1> QED
  BY <1>3, <1>4

(* `end_call' keeps the invariant. *)
LEMMA EndCallStep ==
  ASSUME TokensOk, NEW s, NEW c, Ready(s, c), c.do = "end_call"
  PROVE  Ok(RunEndCall(s, c))
<1>1. c \in ExpressionCall /\ Base(s) /\ InText(s) /\ c.count \in Byte
  <2>1. c \in ExpressionCall /\ Base(s) /\ InText(s) /\ c.count \in 0 .. UINT8_MAX
    BY ReadyFacts, ShapeFacts DEF ExpressionName
  <2> QED
    BY <2>1, ByteFacts
<1> DEFINE t == Consume(s, "RIGHT_PAREN")
<1>2. Keeps(s, t)
  BY <1>1, ConsumeFacts
<1>3. RunEndCall(s, c) = EmitWith(t, "OP_CALL", c.count)
  BY DEF RunEndCall
<1> HIDE DEF t
<1>4. Keeps(t, EmitWith(t, "OP_CALL", c.count))
  BY <1>1, <1>2, EmitFacts, OpcodeNames, ZenonT(60) DEF Keeps
<1>5. Keeps(s, EmitWith(t, "OP_CALL", c.count))
  BY <1>1, <1>2, <1>4, KeepsTransitive
<1> QED
  BY <1>1, <1>3, <1>5, ExpressionMade

(* While an expression waits to go on, the compiler stands in the text. *)
LEMMA GrowingFacts ==
  ASSUME NEW v, Ok(v), v.work # <<>>, Head(v.work) \in ExpressionCall
  PROVE  Base(v) /\ InText(v)
<1>1. Base(v) /\ v.work \in Seq(CallType) /\ Sited(v, v.work)
  BY BaseFacts DEF Ok, IsState
<1>2. Head(v.work) = v.work[1] /\ v.work[1].do \in ExpressionName
  BY <1>1, NameFacts
<1>3. InText(v)
  BY <1>1, <1>2 DEF Sited, ExpressionName
<1> QED
  BY <1>1, <1>3

(* Short sequences over a set are sequences over it. *)
LEMMA PairFacts ==
  ASSUME NEW S, NEW a \in S, NEW b \in S
  PROVE  <<a>> \in Seq(S) /\ <<a, b>> \in Seq(S)
OBVIOUS

(* named_variable, on the way through an expression, keeps the invariant. *)
LEMMA NamedVariableGrows ==
  ASSUME TokensOk, NEW v, Ok(v), v.work # <<>>, Head(v.work) \in ExpressionCall, NEW may \in BOOLEAN
  PROVE  Ok(NamedVariable(v, may))
<1> DEFINE r == Resolve(v, Previous(v).lexeme)
           cs == <<Expression, EmittingWith(r.set, r.index)>>
<1>1. Base(v) /\ InText(v)
  BY GrowingFacts
<1>2. Previous(v).lexeme \in Lexeme
  BY <1>1, LexemeFacts
<1>3. /\ Keeps(v, r.s) /\ r.index \in 0 .. UINT8_MAX
      /\ r.get \in OpCode /\ r.set \in OpCode
  BY <1>1, <1>2, ResolveFacts, OpcodeNames
<1>4. NamedVariable(v, may) = IF may /\ Check(r.s, "EQUAL") THEN Then(Advance(r.s), cs)
                              ELSE EmitWith(r.s, r.get, r.index)
  BY DEF NamedVariable
<1> HIDE DEF r
<1>5. cs \in Seq(ExpressionCall)
  BY <1>3, ExpressionCallFacts, PairFacts
<1>6. Base(r.s) /\ InText(r.s)
  BY <1>1, <1>3 DEF Keeps
<1> HIDE DEF cs
<1>7. CASE may /\ Check(r.s, "EQUAL")
  <2>1. Keeps(r.s, Advance(r.s))
    BY <1>6, <1>7, AdvanceFacts DEF Check
  <2>2. Keeps(v, Advance(r.s))
    BY <1>1, <1>3, <2>1, KeepsTransitive
  <2> QED
    BY <1>4, <1>5, <1>7, <2>2, ExpressionGrows
<1>8. CASE ~(may /\ Check(r.s, "EQUAL"))
  <2>1. r.index \in Byte
    BY <1>3, ByteFacts
  <2>2. Keeps(r.s, EmitWith(r.s, r.get, r.index))
    BY <1>3, <1>6, <2>1, EmitFacts
  <2>3. Keeps(v, EmitWith(r.s, r.get, r.index))
    BY <1>1, <1>3, <2>2, KeepsTransitive
  <2> QED
    BY <1>4, <1>8, <2>3, ExpressionGrows
<1> QED
  BY <1>7, <1>8

(* So does every prefix rule, *)
LEMMA PrefixGrows ==
  ASSUME TokensOk, NEW v, Ok(v), v.work # <<>>, Head(v.work) \in ExpressionCall, NEW may \in BOOLEAN,
         NEW token, token.type \in Prefix,
         token.type = "NUMBER" => token.lexeme \in DOMAIN NumberValue,
         token.type = "STRING" => token.lexeme \in DOMAIN StringValue
  PROVE  Ok(PrefixExpression(v, token, may))
<1>1. Base(v) /\ Keeps(v, v)
  BY GrowingFacts, KeepsReflexive
<1>8. DOMAIN UnaryCode = {"BANG", "MINUS"} /\ DOMAIN LiteralCode = {"FALSE", "TRUE", "NIL"}
  BY DEF UnaryCode, LiteralCode
<1>2. CASE token.type = "LEFT_PAREN"
  <2> DEFINE cs == <<Expression, Expect("RIGHT_PAREN")>>
  <2>1. PrefixExpression(v, token, may) = Then(v, cs)
    BY <1>2, <1>8 DEF PrefixExpression
  <2>2. cs \in Seq(ExpressionCall)
    BY ExpressionCallFacts, PairFacts
  <2> HIDE DEF cs
  <2> QED
    BY <1>1, <2>1, <2>2, ExpressionGrows
<1>3. CASE token.type \in {"MINUS", "BANG"}
  <2> DEFINE cs == <<Parse(UNARY), Emitting(UnaryCode[token.type])>>
  <2>1. token.type \in DOMAIN UnaryCode /\ token.type # "LEFT_PAREN"
    BY <1>3, <1>8
  <2>2. PrefixExpression(v, token, may) = Then(v, cs)
    BY <1>3, <1>8 DEF PrefixExpression
  <2>3. UNARY \in ASSIGNMENT .. CALL + 1
    BY PrecedenceFacts
  <2>4. Parse(UNARY) \in ExpressionCall /\ Emitting(UnaryCode[token.type]) \in ExpressionCall
    BY <2>1, <2>3, ExpressionCallFacts, OperatorFacts
  <2>5. cs \in Seq(ExpressionCall)
    BY <2>4, PairFacts
  <2> HIDE DEF cs
  <2> QED
    BY <1>1, <2>2, <2>5, ExpressionGrows
<1>4. CASE token.type = "NUMBER"
  <2> DEFINE val == Num(NumberValue[token.lexeme])
  <2>1. PrefixExpression(v, token, may) = EmitConstant(v, val)
    BY <1>4, <1>8 DEF PrefixExpression
  <2>2. val \in ConstantType /\ IsConstant(v.functions, val)
    BY <1>4 DEF ConstantType, IsConstant, IsNum, Num
  <2> HIDE DEF val
  <2>3. Keeps(v, EmitConstant(v, val))
    BY <1>1, <2>2, EmitConstantFacts
  <2> QED
    BY <2>1, <2>3, ExpressionGrows
<1>5. CASE token.type = "STRING"
  <2> DEFINE val == Str(StringValue[token.lexeme])
  <2>1. PrefixExpression(v, token, may) = EmitConstant(v, val)
    BY <1>5, <1>8 DEF PrefixExpression
  <2>2. val \in ConstantType /\ IsConstant(v.functions, val)
    BY <1>5 DEF ConstantType, IsConstant, IsStr, Str
  <2> HIDE DEF val
  <2>3. Keeps(v, EmitConstant(v, val))
    BY <1>1, <2>2, EmitConstantFacts
  <2> QED
    BY <2>1, <2>3, ExpressionGrows
<1>6. CASE token.type \in {"FALSE", "NIL", "TRUE"}
  <2> DEFINE op == LiteralCode[token.type]
  <2>1. token.type \in DOMAIN LiteralCode
    BY <1>6, <1>8
  <2>2. PrefixExpression(v, token, may) = Emit(v, op)
    BY <1>6, <1>8 DEF PrefixExpression
  <2>3. op \in OpCode
    BY <2>1, OperatorFacts
  <2> HIDE DEF op
  <2>4. Keeps(v, Emit(v, op))
    <3>1. 0 \in Byte
      BY ByteFacts, ByteAssumption
    <3> QED
      BY <1>1, <2>3, <3>1, EmitFacts
  <2> QED
    BY <2>2, <2>4, ExpressionGrows
<1>7. CASE token.type = "IDENTIFIER"
  <2>1. PrefixExpression(v, token, may) = NamedVariable(v, may)
    BY <1>7, <1>8 DEF PrefixExpression
  <2> QED
    BY <2>1, NamedVariableGrows
<1> QED
  BY <1>2, <1>3, <1>4, <1>5, <1>6, <1>7 DEF Prefix

(* The token to be read has a type, and its lexeme a value if it is a literal. *)
LEMMA TokenFacts ==
  ASSUME TokensOk, NEW s, InText(s)
  PROVE  /\ Current(s).type \in TokenType
         /\ Current(s).type = "NUMBER" => Current(s).lexeme \in DOMAIN NumberValue
         /\ Current(s).type = "STRING" => Current(s).lexeme \in DOMAIN StringValue
<1>1. Current(s) \in [type : TokenType, lexeme : Lexeme]
  BY LexemeFacts
<1>2. This(s).current \in DOMAIN tokens
  <2> DEFINE T == [type : TokenType, lexeme : Lexeme]
  <2>1. tokens \in Seq(T)
    BY DEF TokensOk
  <2> HIDE DEF T
  <2>2. DOMAIN tokens = 1 .. Len(tokens)
    BY <2>1
  <2> QED
    BY <2>2 DEF InText
<1> QED
  BY <1>1, <1>2 DEF TokensOk, Current

(* A call waits in an expression, once the text has been read a token further. *)
LEMMA WaitingCall ==
  ASSUME NEW s, NEW c, Ready(s, c), c \in ExpressionCall, NEW t, Keeps(s, t), NEW k \in ExpressionCall
  PROVE  LET v == Then(t, <<k>>)
         IN  /\ Ok(v) /\ v.work # <<>> /\ Head(v.work) \in ExpressionCall
             /\ Base(v) /\ InText(v)
<1> DEFINE ks == <<k>>
           v == Then(t, ks)
<1>1. ks \in Seq(ExpressionCall) /\ ks \in Seq(CallType)
  BY CallKinds
<1>2. Base(t) /\ t.work \in Seq(CallType)
  BY BaseFacts DEF Keeps, IsState
<1>3. v.work = ks \o t.work
  BY <1>1, <1>2, ThenFacts
<1>4. ks \o t.work # <<>> /\ Head(ks \o t.work) = k
  BY <1>2
<1>5. Ok(v)
  <2> HIDE DEF ks
  <2> QED
    BY <1>1, ExpressionMade
<1> HIDE DEF v
<1>6. v.work # <<>> /\ Head(v.work) \in ExpressionCall
  BY <1>3, <1>4
<1>7. Base(v) /\ InText(v)
  BY <1>5, <1>6, GrowingFacts
<1> QED
  BY <1>5, <1>6, <1>7 DEF v

(* `parse_precedence' keeps the invariant. *)
LEMMA ParsePrecedenceStep ==
  ASSUME TokensOk, NEW s, NEW c, Ready(s, c), c.do = "parse_precedence"
  PROVE  Ok(RunParsePrecedence(s, c))
<1>1. /\ c \in ExpressionCall /\ Base(s) /\ InText(s)
      /\ c \in [do : {"parse_precedence", "infix"}, precedence : ASSIGNMENT .. CALL + 1]
  BY ReadyFacts, ShapeFacts DEF ExpressionName
<1> DEFINE k == [c EXCEPT !.do = "infix"]
           v == Then(Advance(s), <<k>>)
           may == c.precedence <= ASSIGNMENT
<1>2. k \in ExpressionCall
  BY <1>1 DEF ExpressionCall
<1>3. may \in BOOLEAN
  OBVIOUS
<1>4. RunParsePrecedence(s, c) =
        IF Current(s).type \notin Prefix THEN ErrorAtCurrent(s, "Expected expression.")
        ELSE PrefixExpression(v, Current(s), may)
  BY DEF RunParsePrecedence
<1> HIDE DEF k, may
<1>5. CASE Current(s).type \notin Prefix
  <2>1. Keeps(s, ErrorAtCurrent(s, "Expected expression."))
    BY <1>1, ErrorFacts
  <2> QED
    BY <1>1, <1>4, <1>5, <2>1, ExpressionMade
<1>6. CASE Current(s).type \in Prefix
  <2>1. Keeps(s, Advance(s))
    BY <1>1, <1>6, AdvanceFacts DEF Check, Prefix
  <2>2. Ok(v) /\ v.work # <<>> /\ Head(v.work) \in ExpressionCall
    BY <1>1, <1>2, <2>1, WaitingCall
  <2> HIDE DEF v
  <2>3. Ok(PrefixExpression(v, Current(s), may))
    BY <1>1, <1>3, <1>6, <2>2, TokenFacts, PrefixGrows
  <2> QED
    BY <1>4, <1>6, <2>3
<1> QED
  BY <1>5, <1>6

(* Emitting an operation keeps everything else. *)
LEMMA EmitKeeps ==
  ASSUME NEW s, Base(s), NEW op \in OpCode
  PROVE  Keeps(s, Emit(s, op))
<1>1. 0 \in Byte
  BY ByteFacts, ByteAssumption
<1> QED
  BY <1>1, EmitFacts

(* A jump on a condition, which is popped when the jump is not taken. *)
LEMMA ConditionFacts ==
  ASSUME NEW s, Base(s)
  PROVE  Keeps(s, Emit(EmitJump(s, "OP_JUMP_IF_FALSE"), "OP_POP"))
<1> DEFINE t == EmitJump(s, "OP_JUMP_IF_FALSE")
<1>1. Keeps(s, t)
  BY OpcodeNames, EmitJumpFacts
<1> HIDE DEF t
<1>2. Keeps(t, Emit(t, "OP_POP"))
  BY <1>1, OpcodeNames, EmitKeeps DEF Keeps
<1>3. Keeps(s, Emit(t, "OP_POP"))
  BY <1>1, <1>2, KeepsTransitive
<1> QED
  BY <1>3 DEF t

(* and every infix rule. *)
LEMMA InfixGrows ==
  ASSUME TokensOk, NEW v, Ok(v), v.work # <<>>, Head(v.work) \in ExpressionCall,
         NEW token, token.type \in TokenType, InfixPrecedence[token.type] # NONE
  PROVE  Ok(InfixExpression(v, token))
<1>1. Base(v) /\ Keeps(v, v) /\ InText(v)
  BY GrowingFacts, KeepsReflexive
<1>2. DOMAIN BinaryCode = {"BANG_EQUAL", "EQUAL_EQUAL", "GREATER", "LESS", "GREATER_EQUAL", "LESS_EQUAL",
                           "STAR", "SLASH", "PLUS", "MINUS"}
  BY DEF BinaryCode
<1>3. token.type \in DOMAIN BinaryCode \cup {"AND", "OR", "LEFT_PAREN"}
  BY <1>2 DEF InfixPrecedence, NONE
<1>4. CASE token.type \in DOMAIN BinaryCode
  <2> DEFINE p == InfixPrecedence[token.type] + 1
             cs == <<Parse(p), Emitting(BinaryCode[token.type])>>
  <2>1. InfixExpression(v, token) = Then(v, cs)
    BY <1>2, <1>4 DEF InfixExpression
  <2>2. p \in ASSIGNMENT .. CALL + 1
    BY PrecedenceFacts
  <2>3. Parse(p) \in ExpressionCall /\ Emitting(BinaryCode[token.type]) \in ExpressionCall
    BY <1>4, <2>2, ExpressionCallFacts, OperatorFacts
  <2>4. cs \in Seq(ExpressionCall)
    BY <2>3, PairFacts
  <2> HIDE DEF cs
  <2> QED
    BY <1>1, <2>1, <2>4, ExpressionGrows
<1>5. CASE token.type = "AND"
  <2> DEFINE cs == <<Parse(AND), Patching(JumpAddress(v))>>
             t == Emit(EmitJump(v, "OP_JUMP_IF_FALSE"), "OP_POP")
  <2>1. InfixExpression(v, token) = Then(t, cs)
    BY <1>2, <1>5 DEF InfixExpression
  <2>2. AND \in ASSIGNMENT .. CALL + 1
    BY PrecedenceFacts
  <2>3. Parse(AND) \in ExpressionCall /\ Patching(JumpAddress(v)) \in ExpressionCall
    BY <1>1, <2>2, CodeSizeFacts, ExpressionCallFacts
  <2>4. cs \in Seq(ExpressionCall)
    BY <2>3, PairFacts
  <2>5. Keeps(v, t)
    BY <1>1, ConditionFacts
  <2> HIDE DEF cs, t
  <2> QED
    BY <2>1, <2>4, <2>5, ExpressionGrows
<1>6. CASE token.type = "OR"
  <2> DEFINE to_rhs == EmitJump(v, "OP_JUMP_IF_FALSE")
             over_rhs == EmitJump(to_rhs, "OP_JUMP")
             patched == PatchJump(over_rhs, JumpAddress(v))
             t == Emit(patched, "OP_POP")
             cs == <<Parse(OR), Patching(JumpAddress(to_rhs))>>
  <2>1. InfixExpression(v, token) = Then(t, cs)
    BY <1>2, <1>6 DEF InfixExpression
  <2>2. OR \in ASSIGNMENT .. CALL + 1
    BY PrecedenceFacts
  <2>3. Keeps(v, to_rhs)
    BY <1>1, OpcodeNames, EmitJumpFacts
  <2> HIDE DEF to_rhs
  <2>4. Base(to_rhs)
    BY <2>3 DEF Keeps
  <2>5. Keeps(to_rhs, over_rhs)
    BY <2>4, OpcodeNames, EmitJumpFacts
  <2> HIDE DEF over_rhs
  <2>6. Base(over_rhs) /\ JumpAddress(v) \in Nat
    BY <1>1, <2>5, CodeSizeFacts DEF Keeps
  <2>7. Keeps(over_rhs, patched)
    BY <2>6, PatchJumpFacts
  <2> HIDE DEF patched
  <2>8. Base(patched)
    BY <2>7 DEF Keeps
  <2>9. Keeps(patched, t)
    BY <2>8, OpcodeNames, EmitKeeps
  <2>10. Keeps(v, over_rhs) /\ Keeps(over_rhs, t)
    BY <1>1, <2>3, <2>5, <2>6, <2>7, <2>9, KeepsTransitive
  <2>11. Keeps(v, t)
    BY <1>1, <2>10, KeepsTransitive
  <2>12. Parse(OR) \in ExpressionCall /\ Patching(JumpAddress(to_rhs)) \in ExpressionCall
    BY <2>2, <2>4, CodeSizeFacts, ExpressionCallFacts
  <2>13. cs \in Seq(ExpressionCall)
    BY <2>12, PairFacts
  <2> HIDE DEF cs, t
  <2> QED
    BY <2>1, <2>11, <2>13, ExpressionGrows
<1>7. CASE token.type = "LEFT_PAREN"
  <2> DEFINE none == <<[do |-> "end_call", count |-> 0]>>
             some == <<[do |-> "argument", count |-> 0]>>
  <2>1. InfixExpression(v, token) = IF Check(v, "RIGHT_PAREN") THEN Then(v, none) ELSE Then(v, some)
    BY <1>2, <1>7 DEF InfixExpression
  <2>2. none \in Seq(ExpressionCall) /\ some \in Seq(ExpressionCall)
    <3>1. 0 \in 0 .. UINT8_MAX
      BY ByteAssumption
    <3>2. /\ [do |-> "end_call", count |-> 0] \in ExpressionCall
          /\ [do |-> "argument", count |-> 0] \in ExpressionCall
      BY <3>1 DEF ExpressionCall
    <3> QED
      BY <3>2, PairFacts
  <2> HIDE DEF none, some
  <2> QED
    BY <1>1, <2>1, <2>2, ExpressionGrows
<1> QED
  BY <1>3, <1>4, <1>5, <1>6, <1>7

(* `infix' keeps the invariant. *)
LEMMA InfixStep ==
  ASSUME TokensOk, NEW s, NEW c, Ready(s, c), c.do = "infix"
  PROVE  Ok(RunInfix(s, c))
<1>1. /\ c \in ExpressionCall /\ Base(s) /\ InText(s)
      /\ c \in [do : {"parse_precedence", "infix"}, precedence : ASSIGNMENT .. CALL + 1]
  BY ReadyFacts, ShapeFacts DEF ExpressionName
<1>2. c.precedence \in 1 .. 10
  BY <1>1, PrecedenceFacts
<1>3. /\ Current(s).type \in TokenType
      /\ InfixPrecedence[Current(s).type] \in 0 .. 9
  BY <1>1, TokenFacts, PrecedenceFacts
<1>4. CASE c.precedence <= InfixPrecedence[Current(s).type]
  <2> DEFINE v == Then(Advance(s), <<c>>)
  <2>1. InfixPrecedence[Current(s).type] # NONE
    BY <1>2, <1>3, <1>4 DEF NONE
  <2>2. InfixPrecedence["LOX_EOF"] = NONE
    BY DEF InfixPrecedence, TokenType
  <2>3. Keeps(s, Advance(s))
    BY <1>1, <2>1, <2>2, AdvanceFacts DEF Check
  <2>4. Ok(v) /\ v.work # <<>> /\ Head(v.work) \in ExpressionCall
    BY <1>1, <2>3, WaitingCall
  <2>5. RunInfix(s, c) = InfixExpression(v, Current(s))
    BY <1>4 DEF RunInfix
  <2> HIDE DEF v
  <2> QED
    BY <1>3, <2>1, <2>4, <2>5, InfixGrows
<1>5. CASE ~(c.precedence <= InfixPrecedence[Current(s).type]) /\ c.precedence <= ASSIGNMENT /\ Check(s, "EQUAL")
  <2> DEFINE t == Advance(s)
  <2>1. Keeps(s, t)
    BY <1>1, <1>5, AdvanceFacts DEF Check
  <2>2. RunInfix(s, c) = ErrorAtPrevious(t, "Invalid assignment target.")
    BY <1>5 DEF RunInfix
  <2> HIDE DEF t
  <2>3. Base(t)
    BY <2>1 DEF Keeps
  <2>4. Keeps(t, ErrorAtPrevious(t, "Invalid assignment target."))
    BY <2>3, ErrorFacts
  <2>5. Keeps(s, ErrorAtPrevious(t, "Invalid assignment target."))
    BY <1>1, <2>1, <2>4, KeepsTransitive
  <2> QED
    BY <1>1, <2>2, <2>5, ExpressionMade
<1>6. CASE ~(c.precedence <= InfixPrecedence[Current(s).type]) /\ ~(c.precedence <= ASSIGNMENT /\ Check(s, "EQUAL"))
  <2>1. RunInfix(s, c) = s
    BY <1>6 DEF RunInfix
  <2> QED
    BY <1>1, <2>1, KeepsReflexive, ExpressionMade
<1> QED
  BY <1>4, <1>5, <1>6

(* The calls that statements consist of. *)
Part == ExpressionCall \cup StatementCall

(* So are those of three and four elements. *)
LEMMA TripleFacts ==
  ASSUME NEW S, NEW a \in S, NEW b \in S, NEW c \in S, NEW d \in S
  PROVE  <<a, b, c>> \in Seq(S) /\ <<a, b, c, d>> \in Seq(S)
OBVIOUS

(* The calls that statements leave waiting are of the kind they should be. *)
LEMMA StatementCallFacts ==
  /\ \A name \in {"declaration", "var_declaration", "parameter", "function_body", "statement",
                  "expression_statement", "block", "if_then", "for_statement", "return_statement"} :
       Call(name) \in StatementCall
  /\ \A n \in Nat : /\ [do |-> "synchronize", from |-> n] \in StatementCall
                    /\ [do |-> "if_else", jump |-> n] \in StatementCall
                    /\ [do |-> "while_body", start |-> n] \in StatementCall
                    /\ [do |-> "for_exit", start |-> n] \in ClosingCall
  /\ \A n \in Nat : \A exit \in Exits :
       /\ [do |-> "end_loop", start |-> n, exit |-> exit] \in StatementCall
       /\ [do |-> "for_increment", start |-> n, exit |-> exit] \in ClosingCall
       /\ [do |-> "for_body", start |-> n, exit |-> exit] \in ClosingCall
       /\ \A j, i \in Nat :
            [do |-> "for_resume", start |-> n, exit |-> exit, jump |-> j, increment |-> i] \in ClosingCall
  /\ Call("end_scope") \in ClosingCall /\ Call("for_condition") \in ClosingCall
  /\ Call("function_declaration") \in BeginFunction
  /\ Call("compile") \in Outermost /\ Call("end_compiler") \in Outermost
  /\ \A index \in 0 .. UINT8_MAX : /\ [do |-> "define_variable", index |-> index] \in Define
                                   /\ [do |-> "end_function", index |-> index] \in EndFunction
<1>1. \A name \in {"declaration", "var_declaration", "parameter", "function_body", "statement",
                   "expression_statement", "block", "if_then", "for_statement", "return_statement"} :
       Call(name) \in StatementCall
  BY DEF Call, StatementCall
<1>2. \A n \in Nat : /\ [do |-> "synchronize", from |-> n] \in StatementCall
                     /\ [do |-> "if_else", jump |-> n] \in StatementCall
                     /\ [do |-> "while_body", start |-> n] \in StatementCall
  BY DEF StatementCall
<1>3. \A n \in Nat : [do |-> "for_exit", start |-> n] \in ClosingCall
  BY DEF ClosingCall
<1>4. \A n \in Nat : \A exit \in Exits : [do |-> "end_loop", start |-> n, exit |-> exit] \in StatementCall
  BY DEF StatementCall
<1>5. \A n \in Nat : \A exit \in Exits :
        /\ [do |-> "for_increment", start |-> n, exit |-> exit] \in ClosingCall
        /\ [do |-> "for_body", start |-> n, exit |-> exit] \in ClosingCall
        /\ \A j, i \in Nat :
             [do |-> "for_resume", start |-> n, exit |-> exit, jump |-> j, increment |-> i] \in ClosingCall
  BY DEF ClosingCall
<1>6. /\ Call("end_scope") \in ClosingCall /\ Call("for_condition") \in ClosingCall
      /\ Call("function_declaration") \in BeginFunction
      /\ Call("compile") \in Outermost /\ Call("end_compiler") \in Outermost
  BY DEF Call, ClosingCall, BeginFunction, Outermost
<1>7. \A index \in 0 .. UINT8_MAX : /\ [do |-> "define_variable", index |-> index] \in Define
                                    /\ [do |-> "end_function", index |-> index] \in EndFunction
  BY DEF Define, EndFunction
<1> QED
  BY <1>1, <1>2, <1>3, <1>4, <1>5, <1>6, <1>7

(* The jump out of a loop, if there is one, is an address. *)
LEMMA ExitFacts ==
  /\ <<>> \in Exits
  /\ \A n \in Nat : <<n>> \in Exits
  /\ \A exit \in Exits : exit = <<>> \/ exit[1] \in Nat
<1>1. \A n \in Nat : <<n>> \in Exits
  BY DEF Exits
<1>2. ASSUME NEW exit \in Exits, exit # <<>>
      PROVE  exit[1] \in Nat
  <2>1. exit \in Seq(Nat)
    BY DEF Exits
  <2>2. 1 \in 1 .. Len(exit)
    BY <1>2, <2>1, EmptySeq
  <2> QED
    BY <2>1, <2>2
<1>3. <<>> \in Exits
  BY DEF Exits
<1> QED
  BY <1>1, <1>2, <1>3

(* A statement that keeps everything may leave parts of statements to be made, *)
LEMMA StatementKept ==
  ASSUME NEW s, NEW c, Ready(s, c), c \in StatementCall, NEW t, Keeps(s, t)
  PROVE  /\ Ok(t)
         /\ \A cs \in Seq(Part) : Ok(Then(t, cs))
<1>1. Base(s) /\ InText(s) /\ Settled(s)
  BY NameFacts, ReadyFacts DEF StatementName
<1>2. Base(t) /\ SameDepths(s, t) /\ Settled(t) /\ InText(t) /\ t.work = s.work
  BY <1>1, KeepsSettled
<1> QED
  BY <1>2, StatementMade DEF Part

(* and a call that closes a scope may, if the last of what it leaves closes it. *)
LEMMA ClosingKept ==
  ASSUME NEW s, NEW c, Ready(s, c), c \in ClosingCall, NEW t, Keeps(s, t)
  PROVE  /\ \A last \in ClosingCall : Ok(Then(t, <<last>>))
         /\ \A a \in Part, last \in ClosingCall : Ok(Then(t, <<a, last>>))
         /\ \A a, b \in Part, last \in ClosingCall : Ok(Then(t, <<a, b, last>>))
<1>1. Base(s) /\ InText(s) /\ Settled(s)
  BY NameFacts, ReadyFacts DEF ClosingName
<1>2. Base(t) /\ SameDepths(s, t) /\ Settled(t) /\ InText(t) /\ t.work = s.work
  BY <1>1, KeepsSettled
<1>3. \A cs \in Seq(Part) : \A last \in ClosingCall : Ok(Then(t, Append(cs, last)))
  BY <1>2, ClosingMade DEF Part
<1>4. ASSUME NEW a \in Part, NEW b \in Part, NEW last \in ClosingCall
      PROVE  /\ Ok(Then(t, <<last>>))
             /\ Ok(Then(t, <<a, last>>))
             /\ Ok(Then(t, <<a, b, last>>))
  <2>1. <<>> \in Seq(Part) /\ <<a>> \in Seq(Part) /\ <<a, b>> \in Seq(Part)
    BY PairFacts
  <2>2. /\ <<last>> = Append(<<>>, last)
        /\ <<a, last>> = Append(<<a>>, last)
        /\ <<a, b, last>> = Append(<<a, b>>, last)
    OBVIOUS
  <2>3. /\ Ok(Then(t, Append(<<>>, last)))
        /\ Ok(Then(t, Append(<<a>>, last)))
        /\ Ok(Then(t, Append(<<a, b>>, last)))
    BY <1>3, <2>1
  <2> QED
    BY <2>2, <2>3
<1>5. Expression \in Part
  BY ExpressionCallFacts DEF Part
<1> QED
  BY <1>4, <1>5

(* Expressions and statements are parts of statements. *)
LEMMA PartFacts ==
  ExpressionCall \subseteq Part /\ StatementCall \subseteq Part
BY DEF Part

(* `function_body' keeps the invariant. *)
LEMMA FunctionBodyStep ==
  ASSUME TokensOk, NEW s, NEW c, Ready(s, c), c.do = "function_body"
  PROVE  Ok(RunFunctionBody(s, c))
<1>1. c \in StatementCall /\ Base(s) /\ InText(s)
  BY ReadyFacts DEF StatementName
<1> DEFINE t == Consume(s, "RIGHT_PAREN")
           u == Consume(t, "LEFT_BRACE")
           cs == <<Call("block")>>
<1>2. Keeps(s, t) /\ InText(t)
  BY <1>1, ConsumeFacts
<1>3. RunFunctionBody(s, c) = Then(u, cs)
  BY DEF RunFunctionBody
<1> HIDE DEF t
<1>4. Keeps(t, u)
  BY <1>2, ConsumeFacts DEF Keeps
<1>5. Keeps(s, u)
  BY <1>1, <1>2, <1>4, KeepsTransitive
<1>6. cs \in Seq(Part)
  BY StatementCallFacts, PartFacts, PairFacts
<1> HIDE DEF u, cs
<1> QED
  BY <1>1, <1>3, <1>5, <1>6, StatementKept

(* `expression_statement' keeps the invariant. *)
LEMMA ExpressionStatementStep ==
  ASSUME NEW s, NEW c, Ready(s, c), c.do = "expression_statement"
  PROVE  Ok(RunExpressionStatement(s, c))
<1>1. c \in StatementCall /\ Keeps(s, s)
  BY ReadyFacts, KeepsReflexive DEF StatementName
<1> DEFINE cs == <<Expression, Expect("SEMICOLON"), Emitting(<<"OP_POP">>)>>
<1>2. RunExpressionStatement(s, c) = Then(s, cs)
  BY DEF RunExpressionStatement
<1>3. <<"OP_POP">> \in Seq(OpCode)
  BY OpcodeNames
<1>4. cs \in Seq(Part)
  BY <1>3, ExpressionCallFacts, PartFacts, TripleFacts
<1> HIDE DEF cs
<1> QED
  BY <1>1, <1>2, <1>4, StatementKept

(* `block' keeps the invariant. *)
LEMMA BlockStep ==
  ASSUME TokensOk, NEW s, NEW c, Ready(s, c), c.do = "block"
  PROVE  Ok(RunBlock(s, c))
<1>1. c \in StatementCall /\ Base(s) /\ InText(s)
  BY ReadyFacts DEF StatementName
<1>2. Keeps(s, s) /\ Keeps(s, Consume(s, "RIGHT_BRACE"))
  BY <1>1, KeepsReflexive, ConsumeFacts
<1> DEFINE cs == <<Call("declaration"), Call("block")>>
<1>3. RunBlock(s, c) = IF Current(s).type \in {"RIGHT_BRACE", "LOX_EOF"} THEN Consume(s, "RIGHT_BRACE")
                       ELSE Then(s, cs)
  BY DEF RunBlock
<1>4. cs \in Seq(Part)
  BY StatementCallFacts, PartFacts, PairFacts
<1> HIDE DEF cs
<1> QED
  BY <1>1, <1>2, <1>3, <1>4, StatementKept

(* `if_then' keeps the invariant. *)
LEMMA IfThenStep ==
  ASSUME NEW s, NEW c, Ready(s, c), c.do = "if_then"
  PROVE  Ok(RunIfThen(s, c))
<1>1. c \in StatementCall /\ Base(s)
  BY ReadyFacts DEF StatementName
<1> DEFINE t == Emit(EmitJump(s, "OP_JUMP_IF_FALSE"), "OP_POP")
           cs == <<Call("statement"), [do |-> "if_else", jump |-> JumpAddress(s)]>>
<1>2. RunIfThen(s, c) = Then(t, cs)
  BY DEF RunIfThen
<1>3. Keeps(s, t)
  BY <1>1, ConditionFacts
<1>4. cs \in Seq(Part)
  BY <1>1, CodeSizeFacts, StatementCallFacts, PartFacts, PairFacts
<1> HIDE DEF t, cs
<1> QED
  BY <1>1, <1>2, <1>3, <1>4, StatementKept

(* `while_body' keeps the invariant. *)
LEMMA WhileBodyStep ==
  ASSUME NEW s, NEW c, Ready(s, c), c.do = "while_body"
  PROVE  Ok(RunWhileBody(s, c))
<1>1. c \in StatementCall /\ Base(s) /\ c.start \in Nat
  BY ReadyFacts, ShapeFacts DEF StatementName
<1> DEFINE t == Emit(EmitJump(s, "OP_JUMP_IF_FALSE"), "OP_POP")
           exit == <<JumpAddress(s)>>
           cs == <<Call("statement"), [do |-> "end_loop", start |-> c.start, exit |-> exit]>>
<1>2. RunWhileBody(s, c) = Then(t, cs)
  BY DEF RunWhileBody
<1>3. Keeps(s, t)
  BY <1>1, ConditionFacts
<1>4. exit \in Exits
  BY <1>1, CodeSizeFacts, ExitFacts
<1> HIDE DEF exit
<1>5. cs \in Seq(Part)
  BY <1>1, <1>4, StatementCallFacts, PartFacts, PairFacts
<1> HIDE DEF t, cs
<1> QED
  BY <1>1, <1>2, <1>3, <1>5, StatementKept

(* `if_else' keeps the invariant. *)
LEMMA IfElseStep ==
  ASSUME TokensOk, NEW s, NEW c, Ready(s, c), c.do = "if_else"
  PROVE  Ok(RunIfElse(s, c))
<1>1. c \in StatementCall /\ Base(s) /\ InText(s) /\ c.jump \in Nat
  BY ReadyFacts, ShapeFacts DEF StatementName
<1> DEFINE jumped == EmitJump(s, "OP_JUMP")
           patched == PatchJump(jumped, c.jump)
           t == Emit(patched, "OP_POP")
           end == Patching(JumpAddress(s))
           long == <<Call("statement"), end>>
           short == <<end>>
<1>2. RunIfElse(s, c) = IF Check(t, "ELSE") THEN Then(Advance(t), long) ELSE Then(t, short)
  BY DEF RunIfElse
<1>3. Keeps(s, jumped)
  BY <1>1, OpcodeNames, EmitJumpFacts
<1> HIDE DEF jumped
<1>4. Keeps(jumped, patched)
  BY <1>1, <1>3, PatchJumpFacts DEF Keeps
<1> HIDE DEF patched
<1>5. Keeps(patched, t)
  BY <1>4, OpcodeNames, EmitKeeps DEF Keeps
<1> HIDE DEF t
<1>6. Keeps(s, t)
  <2>1. Keeps(s, patched)
    BY <1>1, <1>3, <1>4, KeepsTransitive
  <2> QED
    BY <1>1, <1>5, <2>1, KeepsTransitive
<1>7. end \in Part /\ Call("statement") \in Part
  BY <1>1, CodeSizeFacts, StatementCallFacts, ExpressionCallFacts, PartFacts
<1>8. long \in Seq(Part) /\ short \in Seq(Part)
  BY <1>7, PairFacts
<1> HIDE DEF long, short
<1>9. CASE Check(t, "ELSE")
  <2>1. Keeps(t, Advance(t))
    BY <1>1, <1>6, <1>9, AdvanceFacts DEF Check, Keeps
  <2>2. Keeps(s, Advance(t))
    BY <1>1, <1>6, <2>1, KeepsTransitive
  <2> QED
    BY <1>1, <1>2, <1>8, <1>9, <2>2, StatementKept
<1>10. CASE ~Check(t, "ELSE")
  BY <1>1, <1>2, <1>6, <1>8, <1>10, StatementKept
<1> QED
  BY <1>9, <1>10

(* `end_loop' keeps the invariant. *)
LEMMA EndLoopStep ==
  ASSUME NEW s, NEW c, Ready(s, c), c.do = "end_loop"
  PROVE  Ok(RunEndLoop(s, c))
<1>1. c \in StatementCall /\ Base(s) /\ c.start \in Nat /\ c.exit \in Exits
  BY ReadyFacts, ShapeFacts DEF StatementName
<1> DEFINE t == EmitLoop(s, c.start)
           patched == PatchJump(t, c.exit[1])
<1>2. RunEndLoop(s, c) = IF c.exit = <<>> THEN t ELSE Emit(patched, "OP_POP")
  BY DEF RunEndLoop
<1>3. Keeps(s, t)
  BY <1>1, EmitLoopFacts
<1> HIDE DEF t
<1>4. CASE c.exit = <<>>
  BY <1>1, <1>2, <1>3, <1>4, StatementKept
<1>5. CASE c.exit # <<>>
  <2>1. c.exit[1] \in Nat
    BY <1>1, <1>5, ExitFacts
  <2>2. Keeps(t, patched)
    BY <1>3, <2>1, PatchJumpFacts DEF Keeps
  <2> HIDE DEF patched
  <2>3. Keeps(patched, Emit(patched, "OP_POP"))
    BY <2>2, OpcodeNames, EmitKeeps DEF Keeps
  <2>4. Keeps(s, patched)
    BY <1>1, <1>3, <2>2, KeepsTransitive
  <2>5. Keeps(s, Emit(patched, "OP_POP"))
    BY <1>1, <2>3, <2>4, KeepsTransitive
  <2> QED
    BY <1>1, <1>2, <1>5, <2>5, StatementKept
<1> QED
  BY <1>4, <1>5

(* `return_statement' keeps the invariant. *)
LEMMA ReturnStatementStep ==
  ASSUME TokensOk, NEW s, NEW c, Ready(s, c), c.do = "return_statement"
  PROVE  Ok(RunReturnStatement(s, c))
<1>1. c \in StatementCall /\ Base(s) /\ InText(s)
  BY ReadyFacts DEF StatementName
<1> DEFINE t == IF Function(s).name = "script"
                THEN ErrorAtPrevious(s, "Cannot return from top-level code.") ELSE s
           u == Advance(t)
           cs == <<Expression, Expect("SEMICOLON"), Emitting(<<"OP_RETURN">>)>>
<1>2. RunReturnStatement(s, c) = IF Check(t, "SEMICOLON") THEN EmitReturn(u) ELSE Then(t, cs)
  BY DEF RunReturnStatement
<1>3. Keeps(s, t)
  BY <1>1, ErrorFacts, KeepsReflexive
<1> HIDE DEF t
<1>4. cs \in Seq(Part)
  <2>1. <<"OP_RETURN">> \in Seq(OpCode)
    BY OpcodeNames
  <2> QED
    BY <2>1, ExpressionCallFacts, PartFacts, TripleFacts
<1> HIDE DEF cs
<1>5. CASE Check(t, "SEMICOLON")
  <2>1. Keeps(t, u)
    BY <1>1, <1>3, <1>5, AdvanceFacts DEF Check, Keeps
  <2> HIDE DEF u
  <2>2. Keeps(u, EmitReturn(u))
    BY <2>1, EmitReturnFacts DEF Keeps
  <2>3. Keeps(s, u)
    BY <1>1, <1>3, <2>1, KeepsTransitive
  <2>4. Keeps(s, EmitReturn(u))
    BY <1>1, <2>2, <2>3, KeepsTransitive
  <2> QED
    BY <1>1, <1>2, <1>5, <2>4, StatementKept
<1>6. CASE ~Check(t, "SEMICOLON")
  BY <1>1, <1>2, <1>3, <1>4, <1>6, StatementKept
<1> QED
  BY <1>5, <1>6

(* The compiler after recovery from an error. *)
Recovered(c, stop) ==
  [c EXCEPT !.panic_mode = FALSE, !.current = stop,
            !.previous = IF stop = c.current THEN c.previous ELSE stop - 1]

(* synchronize() finds the start of a statement, or the end of the text. *)
LEMMA FamiliarFound ==
  ASSUME TokensOk, NEW s, InText(s)
  PROVE  LET stop == CHOOSE p \in This(s).current .. Len(tokens) :
                       /\ Familiar(s, p)
                       /\ \A q \in This(s).current .. p - 1 : ~Familiar(s, q)
         IN  stop \in This(s).current .. Len(tokens)
<1> DEFINE from == This(s).current
           to == Len(tokens)
           I == {p \in from .. to : Familiar(s, p)}
<1>1. from \in Nat /\ to \in Nat /\ from <= to
  <2> DEFINE T == [type : TokenType, lexeme : Lexeme]
  <2>1. tokens \in Seq(T)
    BY DEF TokensOk
  <2> HIDE DEF T
  <2>2. to \in Nat
    BY <2>1
  <2> QED
    BY <2>2 DEF InText
<1>2. Familiar(s, to)
  BY DEF TokensOk, Familiar
<1> HIDE DEF from, to
<1>3. I \in SUBSET Nat /\ I # {} /\ I \subseteq from .. to
  BY <1>1, <1>2
<1> DEFINE m == Min(I)
<1>4. m \in I /\ \A i \in I : m <= i
  BY <1>3, MinFacts
<1> HIDE DEF m
<1>5. \A q \in from .. m - 1 : ~Familiar(s, q)
  BY <1>1, <1>3, <1>4
<1>6. \E p \in from .. to : Familiar(s, p) /\ \A q \in from .. p - 1 : ~Familiar(s, q)
  BY <1>4, <1>5
<1> QED
  BY <1>6 DEF from, to

(* Recovery ends panic mode and skips tokens, and does nothing else. *)
LEMMA RecoveredFacts ==
  ASSUME NEW c \in CompilerType, NEW stop \in Nat, stop >= c.current
  PROVE  LET d == Recovered(c, stop)
         IN  /\ d \in CompilerType
             /\ d.function = c.function /\ d.scope_depth = c.scope_depth
             /\ d.upvalues = c.upvalues /\ d.locals = c.locals
             /\ d.had_error = c.had_error /\ d.panic_mode = FALSE
             /\ d.current = stop
             /\ d.previous = IF stop = c.current THEN c.previous ELSE stop - 1
<1>1. (IF stop = c.current THEN c.previous ELSE stop - 1) \in Nat
  BY DEF CompilerType
<1> QED
  BY <1>1 DEF Recovered, CompilerType

(* synchronize keeps everything, and stays in the text. *)
LEMMA SynchronizeFacts ==
  ASSUME TokensOk, NEW s, Base(s), InText(s)
  PROVE  Keeps(s, Synchronize(s))
<1> DEFINE me == This(s)
           stop == CHOOSE p \in me.current .. Len(tokens) :
                     /\ Familiar(s, p)
                     /\ \A q \in me.current .. p - 1 : ~Familiar(s, q)
           d == Recovered(me, stop)
<1>1. stop \in me.current .. Len(tokens)
  BY FamiliarFound
<1>2. Synchronize(s) = WithCompiler(s, Me(s), d)
  BY BaseFacts DEF Synchronize, WithCompiler, Recovered, IsState, This
<1> HIDE DEF stop
<1>3. me \in CompilerType /\ me.current \in 1 .. Len(tokens) /\ me.previous \in 1 .. Len(tokens)
  BY BaseFacts DEF InText
<1>4. stop \in Nat /\ stop >= me.current /\ stop \in 1 .. Len(tokens)
  BY <1>1, <1>3
<1>5. /\ d \in CompilerType
      /\ d.function = me.function /\ d.scope_depth = me.scope_depth
      /\ d.upvalues = me.upvalues /\ d.locals = me.locals
      /\ d.had_error = me.had_error /\ d.panic_mode = FALSE
      /\ d.current = stop
      /\ d.previous = IF stop = me.current THEN me.previous ELSE stop - 1
  BY <1>3, <1>4, RecoveredFacts, ZenonT(60)
<1>6. d.previous \in 1 .. Len(tokens)
  BY <1>3, <1>4, <1>5
<1>7. d.panic_mode \/ d.had_error => s.errors # {}
  BY <1>5, OwnFacts
<1> HIDE DEF d
<1>8. me = s.compilers[Me(s)] /\ Me(s) \in DOMAIN s.compilers
  BY BaseFacts
<1> HIDE DEF me
<1>9. Keeps(s, WithCompiler(s, Me(s), d))
  BY <1>4, <1>5, <1>6, <1>7, <1>8, CompilerKeeps
<1> QED
  BY <1>2, <1>9

(* `synchronize' keeps the invariant. *)
LEMMA SynchronizeStep ==
  ASSUME TokensOk, NEW s, NEW c, Ready(s, c), c.do = "synchronize"
  PROVE  Ok(RunSynchronize(s, c))
<1>1. c \in StatementCall /\ Base(s) /\ InText(s)
  BY ReadyFacts DEF StatementName
<1>2. Keeps(s, RunSynchronize(s, c))
  BY <1>1, KeepsReflexive, SynchronizeFacts DEF RunSynchronize
<1> QED
  BY <1>1, <1>2, StatementKept

(* `for_condition' keeps the invariant. *)
LEMMA ForConditionStep ==
  ASSUME NEW s, NEW c, Ready(s, c), c.do = "for_condition"
  PROVE  Ok(RunForCondition(s, c))
<1>1. c \in ClosingCall /\ Base(s) /\ Keeps(s, s)
  BY ReadyFacts, KeepsReflexive DEF ClosingName
<1> DEFINE none == [do |-> "for_increment", start |-> CodeSize(s), exit |-> <<>>]
           some == [do |-> "for_exit", start |-> CodeSize(s)]
<1>2. RunForCondition(s, c) = IF Check(s, "SEMICOLON") THEN Then(s, <<none>>)
                              ELSE Then(s, <<Expression, some>>)
  BY DEF RunForCondition
<1>3. none \in ClosingCall /\ some \in ClosingCall /\ Expression \in Part
  BY <1>1, CodeSizeFacts, ExitFacts, StatementCallFacts, ExpressionCallFacts, PartFacts
<1> HIDE DEF none, some
<1> QED
  BY <1>1, <1>2, <1>3, ClosingKept

(* `for_exit' keeps the invariant. *)
LEMMA ForExitStep ==
  ASSUME NEW s, NEW c, Ready(s, c), c.do = "for_exit"
  PROVE  Ok(RunForExit(s, c))
<1>1. c \in ClosingCall /\ Base(s) /\ c.start \in Nat
  BY ReadyFacts, ShapeFacts DEF ClosingName
<1> DEFINE t == Emit(EmitJump(s, "OP_JUMP_IF_FALSE"), "OP_POP")
           exit == <<JumpAddress(s)>>
           last == [do |-> "for_increment", start |-> c.start, exit |-> exit]
<1>2. RunForExit(s, c) = Then(t, <<last>>)
  BY DEF RunForExit
<1>3. Keeps(s, t)
  BY <1>1, ConditionFacts
<1>4. exit \in Exits
  BY <1>1, CodeSizeFacts, ExitFacts
<1> HIDE DEF exit
<1>5. last \in ClosingCall
  BY <1>1, <1>4, StatementCallFacts
<1> HIDE DEF t, last
<1> QED
  BY <1>1, <1>2, <1>3, <1>5, ClosingKept

(* `for_increment' keeps the invariant. *)
LEMMA ForIncrementStep ==
  ASSUME TokensOk, NEW s, NEW c, Ready(s, c), c.do = "for_increment"
  PROVE  Ok(RunForIncrement(s, c))
<1>1. /\ c \in ClosingCall /\ Base(s) /\ InText(s)
      /\ c \in [do : {"for_increment", "for_body"}, start : Nat, exit : Exits]
  BY ReadyFacts, ShapeFacts DEF ClosingName
<1> DEFINE t == Consume(s, "SEMICOLON")
           u == EmitJump(t, "OP_JUMP")
           none == [c EXCEPT !.do = "for_body"]
           some == [do |-> "for_resume", start |-> c.start, exit |-> c.exit,
                    jump |-> JumpAddress(t), increment |-> AsUint16(CodeSize(u))]
           pop == Emitting(<<"OP_POP">>)
<1>2. RunForIncrement(s, c) = IF Check(t, "RIGHT_PAREN") THEN Then(t, <<none>>)
                              ELSE Then(u, <<Expression, pop, some>>)
  BY DEF RunForIncrement
<1>3. Keeps(s, t)
  BY <1>1, ConsumeFacts
<1> HIDE DEF t
<1>4. Base(t)
  BY <1>3 DEF Keeps
<1>5. Keeps(t, u)
  BY <1>4, OpcodeNames, EmitJumpFacts
<1> HIDE DEF u
<1>6. Base(u) /\ Keeps(s, u)
  BY <1>1, <1>3, <1>5, KeepsTransitive DEF Keeps
<1>7. none \in ClosingCall
  BY <1>1 DEF ClosingCall
<1>8. some \in ClosingCall
  <2>1. JumpAddress(t) \in Nat /\ AsUint16(CodeSize(u)) \in Nat
    BY <1>4, <1>6, CodeSizeFacts
  <2> QED
    BY <1>1, <2>1, StatementCallFacts
<1>9. Expression \in Part /\ pop \in Part
  <2>1. <<"OP_POP">> \in Seq(OpCode)
    BY OpcodeNames
  <2> QED
    BY <2>1, ExpressionCallFacts, PartFacts
<1> HIDE DEF none, some, pop
<1> QED
  BY <1>1, <1>2, <1>3, <1>6, <1>7, <1>8, <1>9, ClosingKept

(* `for_resume' keeps the invariant. *)
LEMMA ForResumeStep ==
  ASSUME NEW s, NEW c, Ready(s, c), c.do = "for_resume"
  PROVE  Ok(RunForResume(s, c))
<1>1. /\ c \in ClosingCall /\ Base(s)
      /\ c.start \in Nat /\ c.exit \in Exits /\ c.jump \in Nat /\ c.increment \in Nat
  BY ReadyFacts, ShapeFacts DEF ClosingName
<1> DEFINE t == EmitLoop(s, c.start)
           u == PatchJump(t, c.jump)
           last == [do |-> "for_body", start |-> c.increment, exit |-> c.exit]
<1>2. RunForResume(s, c) = Then(u, <<last>>)
  BY DEF RunForResume
<1>3. Keeps(s, t)
  BY <1>1, EmitLoopFacts
<1> HIDE DEF t
<1>4. Keeps(t, u)
  BY <1>1, <1>3, PatchJumpFacts DEF Keeps
<1> HIDE DEF u
<1>5. Keeps(s, u)
  BY <1>1, <1>3, <1>4, KeepsTransitive
<1>6. last \in ClosingCall
  BY <1>1, StatementCallFacts
<1> HIDE DEF last
<1> QED
  BY <1>1, <1>2, <1>5, <1>6, ClosingKept

(* `for_body' keeps the invariant. *)
LEMMA ForBodyStep ==
  ASSUME TokensOk, NEW s, NEW c, Ready(s, c), c.do = "for_body"
  PROVE  Ok(RunForBody(s, c))
<1>1. /\ c \in ClosingCall /\ Base(s) /\ InText(s)
      /\ c \in [do : {"for_increment", "for_body"}, start : Nat, exit : Exits]
  BY ReadyFacts, ShapeFacts DEF ClosingName
<1> DEFINE t == Consume(s, "RIGHT_PAREN")
           loop == [c EXCEPT !.do = "end_loop"]
<1>2. RunForBody(s, c) = Then(t, <<Call("statement"), loop, Call("end_scope")>>)
  BY DEF RunForBody
<1>3. Keeps(s, t)
  BY <1>1, ConsumeFacts
<1>4. loop \in StatementCall
  BY <1>1 DEF StatementCall
<1>5. Call("statement") \in Part /\ loop \in Part /\ Call("end_scope") \in ClosingCall
  BY <1>4, StatementCallFacts, PartFacts
<1> HIDE DEF t, loop
<1> QED
  BY <1>1, <1>2, <1>3, <1>5, ClosingKept

(* What each kind of call does to the depths. *)
LEMMA AfterFacts ==
  ASSUME NEW c, NEW depths
  PROVE  /\ c \in ExpressionCall \cup StatementCall \cup BeginFunction \cup Define \cup Outermost =>
              After(depths, c) = depths
         /\ c \in ClosingCall => After(depths, c) = [depths EXCEPT ![Len(depths)] = @ - 1]
         /\ c \in EndFunction => After(depths, c) = Front(depths)
BY KindsDiffer DEF After

(* A call returns, and leaves nothing to be called. *)
LEMMA PushNone ==
  ASSUME NEW s, NEW c, Ready(s, c), c \notin ExpressionCall,
         NEW t, Base(t), t.work = s.work, Depths(t) = After(Depths(s), c),
         Settled(t), InText(t) \/ s.work = <<>>
  PROVE  Ok(t)
<1> DEFINE none == <<>>
<1>1. /\ none \in Seq(CallType) /\ Len(none) = 0 /\ DOMAIN none = {} /\ none = <<>>
      /\ t.work = none \o s.work
  BY BaseFacts DEF IsState, Ready
<1> HIDE DEF none
<1>2. ~Defining(none)
  BY <1>1 DEF Defining
<1> QED
  BY <1>1, <1>2, PushFacts

(* A call that leaves calls to be made first. *)
LEMMA PushThen ==
  ASSUME NEW s, NEW c, Ready(s, c), c \notin ExpressionCall,
         NEW t, Base(t), t.work = s.work, NEW cs \in Seq(CallType), cs # <<>>,
         \A i \in 1 .. Len(cs) - 1 : cs[i] \notin EndFunction \cup ClosingCall,
         After(Depths(t), cs[Len(cs)]) = After(Depths(s), c),
         \A i \in DOMAIN cs : cs[i] \in Define => \A j \in 1 .. i - 1 : cs[j] \in ExpressionCall,
         \A i \in DOMAIN cs : cs[i] \in Outermost => i = Len(cs) /\ c \in Outermost,
         \A i \in DOMAIN cs : cs[i] \in BeginFunction => i = 1 /\ This(t).current >= 2,
         IF Defining(cs) THEN Nearly(t) /\ Declared(This(t)) ELSE Settled(t),
         InText(t) \/ cs[1].do = "end_compiler"
  PROVE  Ok(Then(t, cs))
<1> DEFINE u == Then(t, cs)
<1>1. /\ Base(u) /\ u.work = cs \o s.work /\ This(u) = This(t)
      /\ InText(u) <=> InText(t)
      /\ Depths(u) = Depths(t)
      /\ Nearly(u) <=> Nearly(t)
      /\ Settled(u) <=> Settled(t)
  BY ThenFacts, ThenSites, SMTT(30)
<1> HIDE DEF u
<1>2. Ok(u)
  BY <1>1, PushFacts
<1> QED
  BY <1>2 DEF u

(* A scope is entered. *)
EntersScope(s, t) ==
  /\ Base(t)
  /\ t.work = s.work
  /\ Len(t.compilers) = Len(s.compilers)
  /\ \A j \in DOMAIN s.compilers :
       t.compilers[j].scope_depth = s.compilers[j].scope_depth + IF j = Me(s) THEN 1 ELSE 0
  /\ Settled(t)
  /\ InText(t)

(* A scope that is entered stays entered, whatever is emitted or read before or after. *)
LEMMA EntersScopeFacts ==
  ASSUME NEW s, Base(s), Settled(s), InText(s)
  PROVE  /\ EntersScope(s, BeginScope(s))
         /\ \A r, t : Keeps(s, r) /\ EntersScope(r, t) => EntersScope(s, t)
         /\ \A t, u : EntersScope(s, t) /\ Keeps(t, u) => EntersScope(s, u)
<1>1. EntersScope(s, BeginScope(s))
  BY BeginScopeFacts DEF EntersScope
<1>2. ASSUME NEW r, NEW t, Keeps(s, r), EntersScope(r, t)
      PROVE  EntersScope(s, t)
  <2>1. Base(r) /\ SameDepths(s, r)
    BY <1>2, ScopesKept DEF Keeps
  <2>2. Me(r) = Me(s) /\ DOMAIN r.compilers = DOMAIN s.compilers
    BY <2>1, BaseFacts DEF SameDepths
  <2> QED
    BY <1>2, <2>1, <2>2 DEF EntersScope, SameDepths, Keeps
<1>3. ASSUME NEW t, NEW u, EntersScope(s, t), Keeps(t, u)
      PROVE  EntersScope(s, u)
  <2>1. Base(t) /\ Settled(t) /\ InText(t)
    BY <1>3 DEF EntersScope
  <2>2. Base(u) /\ SameDepths(t, u) /\ Settled(u) /\ InText(u) /\ u.work = t.work
    BY <1>3, <2>1, KeepsSettled
  <2>3. DOMAIN t.compilers = DOMAIN s.compilers
    BY <1>3, <2>1, BaseFacts DEF EntersScope
  <2> QED
    BY <1>3, <2>2, <2>3 DEF EntersScope, SameDepths
<1> QED
  BY <1>1, <1>2, <1>3

(* Entering a scope and leaving it again restores the depths. *)
LEMMA ScopeLeft ==
  ASSUME NEW s, Base(s), NEW t, EntersScope(s, t), NEW last \in ClosingCall
  PROVE  After(Depths(t), last) = Depths(s)
<1>1. Base(t) /\ Me(t) = Me(s) /\ DOMAIN s.compilers = 1 .. Me(s) /\ Me(s) \in Nat \ {0}
  BY BaseFacts DEF EntersScope
<1>2. /\ DOMAIN Depths(s) = 1 .. Me(s) /\ DOMAIN Depths(t) = 1 .. Me(s) /\ Len(Depths(t)) = Me(s)
      /\ \A k \in 1 .. Me(s) : /\ Depths(s)[k] \in Nat
                               /\ Depths(t)[k] = Depths(s)[k] + IF k = Me(s) THEN 1 ELSE 0
  <2>1. Depths(s) \in Seq(Nat)
    BY DepthsFacts DEF DepthsType
  <2>2. /\ DOMAIN Depths(s) = 1 .. Me(s) /\ DOMAIN Depths(t) = 1 .. Me(s) /\ Len(Depths(t)) = Me(s)
        /\ \A k \in 1 .. Me(s) : /\ Depths(s)[k] = s.compilers[k].scope_depth
                                 /\ Depths(t)[k] = t.compilers[k].scope_depth
    BY <1>1, DepthsFacts
  <2>3. \A k \in 1 .. Me(s) : Depths(s)[k] \in Nat
    BY <2>1, <2>2
  <2> QED
    BY <1>1, <2>2, <2>3 DEF EntersScope
<1>3. After(Depths(t), last) = [Depths(t) EXCEPT ![Me(s)] = @ - 1]
  BY <1>2, AfterFacts
<1>4. \A k \in 1 .. Me(s) : [Depths(t) EXCEPT ![Me(s)] = @ - 1][k] = Depths(s)[k]
  BY <1>1, <1>2
<1>5. Depths(s) = [k \in 1 .. Me(s) |-> Depths(s)[k]]
  BY <1>1 DEF Depths
<1>6. [Depths(t) EXCEPT ![Me(s)] = @ - 1] = [k \in 1 .. Me(s) |-> [Depths(t) EXCEPT ![Me(s)] = @ - 1][k]]
  BY <1>2
<1> QED
  BY <1>3, <1>4, <1>5, <1>6

(* A statement that is a scope. *)
LEMMA ScopeMade ==
  ASSUME NEW s, NEW c, Ready(s, c), c \in StatementCall, NEW t, EntersScope(s, t)
  PROVE  \A cs \in Seq(Part) : \A last \in ClosingCall : Ok(Then(t, Append(cs, last)))
<1> SUFFICES ASSUME NEW front \in Seq(Part), NEW last \in ClosingCall
             PROVE  Ok(Then(t, Append(front, last)))
  OBVIOUS
<1> DEFINE cs == Append(front, last)
<1>1. Base(s) /\ Base(t) /\ t.work = s.work /\ Settled(t) /\ InText(t)
  BY DEF Ready, EntersScope
<1>2. Part \subseteq CallType /\ ClosingCall \subseteq CallType
  BY CallKinds DEF Part
<1>3. /\ cs \in Seq(CallType) /\ cs # <<>> /\ Len(cs) = Len(front) + 1 /\ cs[Len(cs)] = last
      /\ Len(front) \in Nat /\ DOMAIN cs = 1 .. Len(cs)
      /\ \A i \in 1 .. Len(front) : cs[i] \in Part
  <2>1. front \in Seq(CallType)
    BY <1>2, SeqMonotonic
  <2>2. \A i \in 1 .. Len(front) : front[i] \in Part /\ cs[i] = front[i]
    BY <2>1, AppendProperties
  <2> QED
    BY <1>2, <2>1, <2>2, AppendProperties
<1> HIDE DEF cs
<1>4. After(Depths(t), last) = After(Depths(s), c)
  BY <1>1, AfterFacts, ScopeLeft
<1>5. \A i \in 1 .. Len(cs) - 1 : cs[i] \notin EndFunction \cup ClosingCall
  <2>1. Len(cs) - 1 = Len(front)
    BY <1>3
  <2> QED
    BY <1>3, <2>1, KindsDiffer DEF Part
<1>6. \A i \in DOMAIN cs : cs[i] \in Part \cup ClosingCall
  BY <1>3
<1>7. \A i \in DOMAIN cs : cs[i] \notin Define /\ cs[i] \notin Outermost /\ cs[i] \notin BeginFunction
  BY <1>6, KindsDiffer DEF Part
<1>8. ~Defining(cs)
  BY <1>7 DEF Defining
<1>9. c \notin ExpressionCall
  BY KindsDiffer
<1>10. Ok(Then(t, cs))
  BY <1>1, <1>3, <1>4, <1>5, <1>7, <1>8, <1>9, PushThen
<1> QED
  BY <1>10 DEF cs

(* A statement that enters a scope may leave calls of which the last closes it. *)
LEMMA ScopeCalls ==
  ASSUME NEW s, NEW c, Ready(s, c), c \in StatementCall, NEW t, EntersScope(s, t),
         NEW a \in Part, NEW last \in ClosingCall
  PROVE  Ok(Then(t, <<last>>)) /\ Ok(Then(t, <<a, last>>))
<1>1. <<>> \in Seq(Part) /\ <<a>> \in Seq(Part)
  BY PairFacts
<1>2. <<last>> = Append(<<>>, last) /\ <<a, last>> = Append(<<a>>, last)
  OBVIOUS
<1>3. Ok(Then(t, Append(<<>>, last))) /\ Ok(Then(t, Append(<<a>>, last)))
  BY <1>1, ScopeMade
<1> QED
  BY <1>2, <1>3

(* `statement' keeps the invariant. *)
LEMMA StatementStepMade ==
  ASSUME TokensOk, NEW s, NEW c, Ready(s, c), c.do = "statement"
  PROVE  Ok(RunStatement(s, c))
<1>1. c \in StatementCall /\ Base(s) /\ InText(s) /\ Settled(s)
  BY ReadyFacts DEF StatementName
<1> DEFINE t == Advance(s)
           while == [do |-> "while_body", start |-> CodeSize(s)]
           print_calls == <<Expression, Expect("SEMICOLON"), Emitting(<<"OP_PRINT">>)>>
           if_calls == <<Expect("LEFT_PAREN"), Expression, Expect("RIGHT_PAREN"), Call("if_then")>>
           while_calls == <<Expect("LEFT_PAREN"), Expression, Expect("RIGHT_PAREN"), while>>
           for_calls == <<Call("for_statement")>>
           return_calls == <<Call("return_statement")>>
           other_calls == <<Call("expression_statement")>>
           block_calls == <<Call("block"), Call("end_scope")>>
<1>2. RunStatement(s, c) =
        CASE Check(s, "PRINT") -> Then(t, print_calls)
          [] Check(s, "LEFT_BRACE") -> Then(BeginScope(t), block_calls)
          [] Check(s, "IF") -> Then(t, if_calls)
          [] Check(s, "WHILE") -> Then(t, while_calls)
          [] Check(s, "FOR") -> Then(t, for_calls)
          [] Check(s, "RETURN") -> Then(t, return_calls)
          [] OTHER -> Then(s, other_calls)
  BY DEF RunStatement
<1>3. while \in Part
  BY <1>1, CodeSizeFacts, StatementCallFacts, PartFacts
<1> HIDE DEF while
<1>4. <<"OP_PRINT">> \in Seq(OpCode)
  BY OpcodeNames
<1>5. /\ print_calls \in Seq(Part) /\ if_calls \in Seq(Part) /\ while_calls \in Seq(Part)
  BY <1>3, <1>4, ExpressionCallFacts, StatementCallFacts, PartFacts, TripleFacts
<1>6. for_calls \in Seq(Part) /\ return_calls \in Seq(Part) /\ other_calls \in Seq(Part)
  BY StatementCallFacts, PartFacts, PairFacts
<1>7. ~Check(s, "LOX_EOF") => Keeps(s, t)
  BY <1>1, AdvanceFacts
<1>8. ASSUME Check(s, "LEFT_BRACE")
      PROVE  Ok(Then(BeginScope(t), block_calls))
  <2>1. Keeps(s, t)
    BY <1>7, <1>8 DEF Check
  <2>2. Base(t) /\ Settled(t) /\ InText(t)
    BY <1>1, <2>1, KeepsSettled
  <2> HIDE DEF t
  <2>3. EntersScope(t, BeginScope(t))
    BY <2>2, EntersScopeFacts
  <2>4. EntersScope(s, BeginScope(t))
    BY <1>1, <2>1, <2>3, EntersScopeFacts
  <2>5. Call("block") \in Part /\ Call("end_scope") \in ClosingCall
    BY StatementCallFacts, PartFacts
  <2> QED
    BY <1>1, <2>4, <2>5, ScopeCalls
<1> HIDE DEF t, print_calls, if_calls, while_calls, for_calls, return_calls, other_calls, block_calls
<1>9. CASE Check(s, "LEFT_BRACE")
  BY <1>2, <1>8, <1>9 DEF Check
<1>10. CASE Current(s).type \in {"PRINT", "IF", "WHILE", "FOR", "RETURN"}
  <2>1. Keeps(s, t)
    BY <1>7, <1>10 DEF Check
  <2>2. /\ Ok(Then(t, print_calls)) /\ Ok(Then(t, if_calls)) /\ Ok(Then(t, while_calls))
        /\ Ok(Then(t, for_calls)) /\ Ok(Then(t, return_calls))
    BY <1>1, <1>5, <1>6, <2>1, StatementKept
  <2> QED
    BY <1>2, <1>10, <2>2 DEF Check
<1>11. CASE Current(s).type \notin {"PRINT", "LEFT_BRACE", "IF", "WHILE", "FOR", "RETURN"}
  <2>1. RunStatement(s, c) = Then(s, other_calls)
    BY <1>2, <1>11 DEF Check
  <2> QED
    BY <1>1, <1>6, <2>1, KeepsReflexive, StatementKept
<1> QED
  BY <1>9, <1>10, <1>11 DEF Check

(* `for_statement' keeps the invariant. *)
LEMMA ForStatementStep ==
  ASSUME TokensOk, NEW s, NEW c, Ready(s, c), c.do = "for_statement"
  PROVE  Ok(RunForStatement(s, c))
<1>1. c \in StatementCall /\ Base(s) /\ InText(s) /\ Settled(s)
  BY ReadyFacts DEF StatementName
<1> DEFINE r == BeginScope(s)
           t == Consume(r, "LEFT_PAREN")
           var_calls == <<Call("var_declaration"), Call("for_condition")>>
           none == <<Call("for_condition")>>
           other_calls == <<Call("expression_statement"), Call("for_condition")>>
<1>2. RunForStatement(s, c) =
        CASE Check(t, "VAR") -> Then(Advance(t), var_calls)
          [] Check(t, "SEMICOLON") -> Then(Advance(t), none)
          [] OTHER -> Then(t, other_calls)
  BY DEF RunForStatement
<1>3. EntersScope(s, r)
  BY <1>1, EntersScopeFacts
<1> HIDE DEF r
<1>4. Keeps(r, t)
  BY <1>3, ConsumeFacts DEF EntersScope
<1> HIDE DEF t
<1>5. EntersScope(s, t)
  BY <1>1, <1>3, <1>4, EntersScopeFacts
<1>6. ASSUME Check(t, "VAR") \/ Check(t, "SEMICOLON")
      PROVE  EntersScope(s, Advance(t))
  <2>1. Keeps(t, Advance(t))
    BY <1>5, <1>6, AdvanceFacts DEF EntersScope, Check
  <2> QED
    BY <1>1, <1>5, <2>1, EntersScopeFacts
<1>7. ASSUME NEW u, EntersScope(s, u)
      PROVE  Ok(Then(u, var_calls)) /\ Ok(Then(u, none)) /\ Ok(Then(u, other_calls))
  <2>1. /\ Call("var_declaration") \in Part /\ Call("expression_statement") \in Part
        /\ Call("for_condition") \in ClosingCall
    BY StatementCallFacts, PartFacts
  <2> QED
    BY <1>1, <1>7, <2>1, ScopeCalls
<1> HIDE DEF var_calls, none, other_calls
<1>8. CASE Check(t, "VAR") \/ Check(t, "SEMICOLON")
  BY <1>2, <1>6, <1>7, <1>8 DEF Check
<1>9. CASE ~(Check(t, "VAR") \/ Check(t, "SEMICOLON"))
  BY <1>2, <1>5, <1>7, <1>9
<1> QED
  BY <1>8, <1>9

(* Counting a parameter keeps everything else. *)
LEMMA CountedFacts ==
  ASSUME NEW s, Base(s), Function(s).arity < UINT8_MAX
  PROVE  Keeps(s, [s EXCEPT !.functions[This(s).function].arity = @ + 1])
<1> DEFINE f == This(s).function
           g == [Function(s) EXCEPT !.arity = @ + 1]
<1>1. f \in DOMAIN s.functions /\ Function(s) = s.functions[f] /\ Function(s) \in FunctionType
  BY BaseFacts
<1>2. [s EXCEPT !.functions[f].arity = @ + 1] = WithFunction(s, f, g)
  BY <1>1, BaseFacts DEF WithFunction, IsState
<1>3. /\ g \in FunctionType /\ g.upvalue_count = Function(s).upvalue_count
      /\ g.constants = Function(s).constants
  BY <1>1, ByteAssumption DEF FunctionType
<1> HIDE DEF g
<1>4. FunctionOk(s, f)
  BY <1>1 DEF Base
<1>5. /\ s.errors = {} => Len(g.constants) <= UINT8_MAX + 1
      /\ \A i \in DOMAIN g.constants : IsConstant(s.functions, g.constants[i])
  BY <1>1, <1>3, <1>4 DEF FunctionOk
<1> HIDE DEF f
<1>6. Keeps(s, WithFunction(s, f, g))
  BY <1>1, <1>3, <1>5, FunctionChange
<1> QED
  BY <1>2, <1>6 DEF f

(* `parameter' keeps the invariant. *)
LEMMA ParameterStep ==
  ASSUME TokensOk, NEW s, NEW c, Ready(s, c), c.do = "parameter"
  PROVE  Ok(RunParameter(s, c))
<1>1. c \in StatementCall /\ Base(s) /\ InText(s) /\ Settled(s)
  BY ReadyFacts DEF StatementName
<1> DEFINE counted == [s EXCEPT !.functions[This(s).function].arity = @ + 1]
           named == ParseVariable(counted)
           t == DefineVariable(named, 0)
           more == <<Call("parameter")>>
           last == <<Call("function_body")>>
           limit == ErrorAtCurrent(s, "Functions accept at most 255 parameters.")
<1>2. RunParameter(s, c) =
        IF Function(s).arity >= UINT8_MAX THEN limit
        ELSE IF Check(t, "COMMA") THEN Then(Advance(t), more) ELSE Then(t, last)
  BY DEF RunParameter
<1>3. Keeps(s, limit)
  BY <1>1, ErrorFacts
<1>4. more \in Seq(Part) /\ last \in Seq(Part)
  BY StatementCallFacts, PartFacts, PairFacts
<1> HIDE DEF more, last, limit
<1>5. CASE Function(s).arity >= UINT8_MAX
  BY <1>1, <1>2, <1>3, <1>5, StatementKept
<1>6. CASE ~(Function(s).arity >= UINT8_MAX)
  <2>1. Function(s).arity < UINT8_MAX
    BY <1>1, <1>6, BaseFacts, ByteAssumption DEF FunctionType
  <2>2. Keeps(s, counted)
    BY <1>1, <2>1, CountedFacts
  <2> HIDE DEF counted
  <2>3. Base(counted) /\ InText(counted) /\ SameDepths(s, counted) /\ Settled(counted)
        /\ counted.work = s.work
    BY <1>1, <2>2, KeepsSettled
  <2>4. Declares(counted, named)
    BY <2>3, ParseVariableFacts
  <2> HIDE DEF named
  <2>5. 0 \in 0 .. UINT8_MAX
    BY ByteAssumption
  <2>6. Base(named) /\ Nearly(named) /\ Declared(This(named)) /\ InText(named)
    BY <2>3, <2>4 DEF Declares
  <2>7. Defines(named, t)
    BY <2>5, <2>6, DefineVariableFacts
  <2> HIDE DEF t
  <2>8. Base(t) /\ Settled(t) /\ InText(t) /\ t.work = s.work
    BY <2>3, <2>4, <2>6, <2>7 DEF Declares, Defines
  <2>9. SameDepths(s, t)
    <3>1. DOMAIN s.compilers = DOMAIN counted.compilers /\ DOMAIN counted.compilers = DOMAIN named.compilers
      BY <1>1, <2>3, <2>4, <2>6, BaseFacts DEF SameDepths, Declares
    <3> QED
      BY <2>3, <2>4, <2>7, <3>1 DEF SameDepths, Declares, Defines
  <2>10. CASE Check(t, "COMMA")
    <3>1. Keeps(t, Advance(t))
      BY <2>8, <2>10, AdvanceFacts DEF Check
    <3>2. /\ Base(Advance(t)) /\ SameDepths(t, Advance(t)) /\ Settled(Advance(t)) /\ InText(Advance(t))
          /\ Advance(t).work = s.work
      BY <2>8, <3>1, KeepsSettled
    <3>3. SameDepths(s, Advance(t))
      <4>1. DOMAIN s.compilers = DOMAIN t.compilers
        BY <1>1, <2>8, <2>9, BaseFacts DEF SameDepths
      <4> QED
        BY <2>9, <3>2, <4>1 DEF SameDepths
    <3>4. Ok(Then(Advance(t), more))
      BY <1>1, <1>4, <3>2, <3>3, StatementMade DEF Part
    <3> QED
      BY <1>2, <1>6, <2>10, <3>4
  <2>11. CASE ~Check(t, "COMMA")
    <3>1. Ok(Then(t, last))
      BY <1>1, <1>4, <2>8, <2>9, StatementMade DEF Part
    <3> QED
      BY <1>2, <1>6, <2>11, <3>1
  <2> QED
    BY <2>10, <2>11
<1> QED
  BY <1>5, <1>6

(* `declaration' keeps the invariant. *)
LEMMA DeclarationStep ==
  ASSUME TokensOk, NEW s, NEW c, Ready(s, c), c.do = "declaration"
  PROVE  Ok(RunDeclaration(s, c))
<1>1. c \in StatementCall /\ Base(s) /\ InText(s) /\ Settled(s)
  BY ReadyFacts DEF StatementName
<1> DEFINE sync == [do |-> "synchronize", from |-> This(s).current]
           t == Advance(s)
           var_calls == <<Call("var_declaration"), sync>>
           fun_calls == <<Call("function_declaration"), sync>>
           other_calls == <<Call("statement"), sync>>
<1>2. RunDeclaration(s, c) =
        CASE Check(s, "VAR") -> Then(t, var_calls)
          [] Check(s, "FUN") -> Then(t, fun_calls)
          [] OTHER           -> Then(s, other_calls)
  BY DEF RunDeclaration
<1>3. sync \in StatementCall
  <2>1. This(s).current \in Nat
    BY <1>1 DEF InText
  <2> QED
    BY <2>1, StatementCallFacts
<1>4. ~Check(s, "LOX_EOF") => Keeps(s, t) /\ This(t).current = This(s).current + 1
  BY <1>1, AdvanceFacts
<1> HIDE DEF sync
<1>5. var_calls \in Seq(Part) /\ other_calls \in Seq(Part)
  BY <1>3, StatementCallFacts, PartFacts, PairFacts
<1>6. ASSUME Check(s, "FUN")
      PROVE  Ok(Then(t, fun_calls))
  <2> DEFINE begin == Call("function_declaration")
  <2>1. Keeps(s, t) /\ This(t).current >= 2
    <3>1. Keeps(s, t) /\ This(t).current = This(s).current + 1
      BY <1>4, <1>6 DEF Check
    <3>2. This(s).current \in Nat /\ This(s).current >= 1
      BY <1>1 DEF InText
    <3> QED
      BY <3>1, <3>2
  <2>2. Base(t) /\ SameDepths(s, t) /\ Settled(t) /\ InText(t) /\ t.work = s.work
    BY <1>1, <2>1, KeepsSettled
  <2>3. begin \in BeginFunction
    BY StatementCallFacts
  <2> HIDE DEF begin
  <2>4. begin \in CallType /\ sync \in CallType
    BY <1>3, <2>3 DEF CallType
  <2> HIDE DEF t
  <2>5. /\ <<begin, sync>> \in Seq(CallType) /\ <<begin, sync>> # <<>>
        /\ Len(<<begin, sync>>) = 2 /\ DOMAIN <<begin, sync>> = {1, 2}
        /\ <<begin, sync>>[1] = begin /\ <<begin, sync>>[2] = sync
    BY <2>4
  <2> DEFINE cs == <<begin, sync>>
  <2> HIDE DEF cs
  <2>6. /\ cs \in Seq(CallType) /\ cs # <<>>
        /\ Len(cs) = 2 /\ DOMAIN cs = {1, 2}
        /\ cs[1] = begin /\ cs[2] = sync
    BY <2>5 DEF cs
  <2>7. /\ begin \notin EndFunction \cup ClosingCall \cup Define \cup Outermost
        /\ sync \notin Define \cup Outermost \cup BeginFunction
    BY <1>3, <2>3, KindsDiffer
  <2>8. After(Depths(t), cs[Len(cs)]) = After(Depths(s), c)
    <3>1. Depths(t) = Depths(s)
      BY <1>1, <2>2, SameDepthsFacts
    <3> QED
      BY <1>1, <1>3, <2>6, <3>1, AfterFacts
  <2>9. \A i \in 1 .. Len(cs) - 1 : cs[i] \notin EndFunction \cup ClosingCall
    BY <2>6, <2>7
  <2>10. \A i \in DOMAIN cs : /\ cs[i] \notin Define /\ cs[i] \notin Outermost
                              /\ cs[i] \in BeginFunction => i = 1
    BY <2>6, <2>7
  <2>11. ~Defining(cs) /\ c \notin ExpressionCall
    BY <1>1, <2>10, KindsDiffer DEF Defining
  <2>12. Ok(Then(t, cs))
    BY <2>1, <2>2, <2>6, <2>8, <2>9, <2>10, <2>11, PushThen
  <2> QED
    BY <2>12 DEF cs, begin
<1> HIDE DEF t, var_calls, fun_calls, other_calls
<1>7. CASE Check(s, "VAR")
  <2>1. Keeps(s, t) /\ RunDeclaration(s, c) = Then(t, var_calls)
    BY <1>2, <1>4, <1>7 DEF Check
  <2> QED
    BY <1>1, <1>5, <2>1, StatementKept
<1>8. CASE Check(s, "FUN")
  BY <1>2, <1>6, <1>8 DEF Check
<1>9. CASE ~Check(s, "VAR") /\ ~Check(s, "FUN")
  BY <1>1, <1>2, <1>5, <1>9, KeepsReflexive, StatementKept
<1> QED
  BY <1>7, <1>8, <1>9

(* Three calls, one after the other. *)
LEMMA ConsFacts ==
  ASSUME NEW a, NEW b, NEW c
  PROVE  <<a>> \o <<b, c>> = <<a, b, c>>
<1> DEFINE S == {a, b, c}
           both == <<a>> \o <<b, c>>
           all == <<a, b, c>>
<1>1. <<a>> \in Seq(S) /\ <<b, c>> \in Seq(S) /\ all \in Seq(S)
  OBVIOUS
<1>2. Len(<<a>>) = 1 /\ Len(<<b, c>>) = 2 /\ Len(all) = 3
  OBVIOUS
<1>3. both \in Seq(S) /\ Len(both) = 3
  BY <1>1, <1>2, ConcatProperties
<1>4. \A i \in 1 .. 3 : both[i] = IF i <= 1 THEN <<a>>[i] ELSE <<b, c>>[i - 1]
  BY <1>1, <1>2, ConcatProperties
<1>5. both[1] = <<a>>[1] /\ both[2] = <<b, c>>[1] /\ both[3] = <<b, c>>[2]
  <2> HIDE DEF both
  <2>1. both[1] = <<a>>[1]
    BY <1>4
  <2>2. both[2] = <<b, c>>[2 - 1]
    BY <1>4
  <2>3. both[3] = <<b, c>>[3 - 1]
    BY <1>4
  <2> QED
    BY <2>1, <2>2, <2>3
<1>6. both[1] = all[1] /\ both[2] = all[2] /\ both[3] = all[3]
  BY <1>5
<1> HIDE DEF both, all
<1>7. \A i \in 1 .. 3 : both[i] = all[i]
  BY <1>6
<1>8. both = all
  BY <1>1, <1>2, <1>3, <1>7, SeqEqual
<1> QED
  BY <1>8 DEF both, all

(* `var_declaration' keeps the invariant. *)
LEMMA VarDeclarationStep ==
  ASSUME TokensOk, NEW s, NEW c, Ready(s, c), c.do = "var_declaration"
  PROVE  Ok(RunVarDeclaration(s, c))
<1>1. c \in StatementCall /\ Base(s) /\ InText(s) /\ Settled(s)
  BY ReadyFacts DEF StatementName
<1> DEFINE t == ParseVariable(s)
           define == [do |-> "define_variable", index |-> VariableIndex(s)]
           semicolon == Expect("SEMICOLON")
           long == <<Expression, semicolon, define>>
           short == <<semicolon, define>>
<1>2. RunVarDeclaration(s, c) = IF Check(t, "EQUAL") THEN Then(Advance(t), long)
                                ELSE Then(Emit(t, "OP_NIL"), short)
  <2> DEFINE end == <<semicolon, define>>
  <2>1. RunVarDeclaration(s, c) = IF Check(t, "EQUAL") THEN Then(Advance(t), <<Expression>> \o end)
                                  ELSE Then(Emit(t, "OP_NIL"), end)
    BY DEF RunVarDeclaration
  <2>2. <<Expression>> \o end = long
    BY ConsFacts
  <2> QED
    BY <2>1, <2>2
<1>3. Declares(s, t) /\ define \in Define
  BY <1>1, ParseVariableFacts, StatementCallFacts
<1> HIDE DEF t, define
<1>4. semicolon \in ExpressionCall /\ Expression \in ExpressionCall
  BY ExpressionCallFacts
<1> HIDE DEF semicolon
<1>5. c \notin ExpressionCall
  BY <1>1, KindsDiffer
<1>6. ASSUME NEW u, Keeps(t, u), NEW cs \in {long, short}
      PROVE  Ok(Then(u, cs))
  <2>1. Declares(s, u)
    BY <1>1, <1>3, <1>6, DeclaresLast
  <2>2. /\ Base(u) /\ u.work = s.work /\ SameDepths(s, u) /\ Nearly(u) /\ Declared(This(u)) /\ InText(u)
    BY <1>1, <2>1 DEF Declares
  <2>3. Expression \in CallType /\ semicolon \in CallType /\ define \in CallType
    BY <1>3, <1>4 DEF CallType
  <2>4. /\ cs \in Seq(CallType) /\ cs # <<>> /\ Len(cs) \in {2, 3} /\ DOMAIN cs = 1 .. Len(cs)
        /\ cs[Len(cs)] = define
        /\ \A i \in 1 .. Len(cs) - 1 : cs[i] \in {Expression, semicolon}
    <3>1. CASE cs = long
      <4>1. /\ long \in Seq(CallType) /\ long # <<>> /\ Len(long) = 3 /\ DOMAIN long = 1 .. 3
            /\ long[1] = Expression /\ long[2] = semicolon /\ long[3] = define
        BY <2>3
      <4> HIDE DEF long
      <4> QED
        BY <3>1, <4>1
    <3>2. CASE cs = short
      <4>1. /\ short \in Seq(CallType) /\ short # <<>> /\ Len(short) = 2 /\ DOMAIN short = 1 .. 2
            /\ short[1] = semicolon /\ short[2] = define
        BY <2>3
      <4> HIDE DEF short
      <4> QED
        BY <3>2, <4>1
    <3> QED
      BY <1>6, <3>1, <3>2
  <2>5. \A i \in 1 .. Len(cs) - 1 : cs[i] \in ExpressionCall
    BY <1>4, <2>4
  <2>6. \A i \in 1 .. Len(cs) - 1 : cs[i] \notin EndFunction \cup ClosingCall
    BY <2>5, KindsDiffer
  <2>7. After(Depths(u), cs[Len(cs)]) = After(Depths(s), c)
    <3>1. Depths(u) = Depths(s)
      BY <1>1, <2>2, SameDepthsFacts
    <3> QED
      BY <1>1, <1>3, <2>4, <3>1, AfterFacts
  <2>8. \A i \in DOMAIN cs : cs[i] \in ExpressionCall \/ (i = Len(cs) /\ cs[i] \in Define)
    <3>1. Len(cs) \in Nat
      BY <2>4
    <3>2. \A i \in 1 .. Len(cs) : i = Len(cs) \/ i \in 1 .. Len(cs) - 1
      BY <3>1
    <3> HIDE DEF long, short
    <3> QED
      BY <1>3, <2>4, <2>5, <3>2
  <2>9. \A i \in DOMAIN cs : /\ cs[i] \notin Outermost /\ cs[i] \notin BeginFunction
                             /\ cs[i] \in Define => i = Len(cs)
    BY <2>8, KindsDiffer
  <2>10. \A i \in DOMAIN cs : cs[i] \in Define => \A j \in 1 .. i - 1 : cs[j] \in ExpressionCall
    BY <2>5, <2>9
  <2>11. Defining(cs)
    BY <1>3, <2>4 DEF Defining
  <2> QED
    BY <1>5, <2>2, <2>4, <2>6, <2>7, <2>9, <2>10, <2>11, PushThen
<1>7. Base(t) /\ InText(t)
  BY <1>1, <1>3 DEF Declares
<1>8. Keeps(t, Emit(t, "OP_NIL"))
  BY <1>7, OpcodeNames, EmitKeeps
<1>9. Check(t, "EQUAL") => Keeps(t, Advance(t))
  BY <1>7, AdvanceFacts DEF Check
<1> HIDE DEF long, short
<1> QED
  BY <1>2, <1>6, <1>8, <1>9

(* `end_scope' keeps the invariant. *)
LEMMA EndScopeStep ==
  ASSUME NEW s, NEW c, Ready(s, c), c.do = "end_scope"
  PROVE  Ok(RunEndScope(s, c))
<1>1. c \in ClosingCall /\ Base(s) /\ InText(s) /\ Settled(s)
  BY ReadyFacts DEF ClosingName
<1> DEFINE t == EndScope(s)
           d == Depths(s)
           e == [d EXCEPT ![Me(s)] = @ - 1]
<1>2. /\ d \in Seq(Nat) /\ DOMAIN d = 1 .. Me(s) /\ Len(d) = Me(s) /\ Me(s) \in Nat \ {0}
      /\ \A k \in 1 .. Me(s) : d[k] = s.compilers[k].scope_depth
      /\ DOMAIN s.compilers = 1 .. Me(s) /\ This(s) = s.compilers[Me(s)]
  BY <1>1, DepthsFacts, BaseFacts DEF DepthsType
<1>3. After(d, c) = e
  BY <1>1, <1>2, AfterFacts
<1>4. e \in Seq(Nat)
  BY <1>3 DEF Ready, DepthsType
<1> HIDE DEF d
<1>5. This(s).scope_depth >= 1
  <2>1. Me(s) \in 1 .. Me(s)
    BY <1>2
  <2>2. e[Me(s)] = d[Me(s)] - 1 /\ Me(s) \in DOMAIN e
    BY <1>2, <2>1
  <2>3. e[Me(s)] \in Nat
    <3> HIDE DEF e
    <3> QED
      BY <1>4, <2>2
  <2>4. d[Me(s)] = This(s).scope_depth /\ d[Me(s)] \in Nat
    BY <1>2, <2>1
  <2> QED
    BY <2>2, <2>3, <2>4
<1>6. /\ Base(t)
      /\ t.work = s.work
      /\ Len(t.compilers) = Len(s.compilers)
      /\ \A j \in DOMAIN s.compilers :
           t.compilers[j].scope_depth = s.compilers[j].scope_depth - IF j = Me(s) THEN 1 ELSE 0
      /\ Settled(t)
      /\ InText(t)
  BY <1>1, <1>5, EndScopeFacts
<1> HIDE DEF t
<1>7. Depths(t) = e
  <2>1. DOMAIN t.compilers = 1 .. Me(s) /\ Me(t) = Me(s)
    BY <1>1, <1>2, <1>6, BaseFacts DEF Me
  <2>2. \A k \in 1 .. Me(s) : t.compilers[k].scope_depth = e[k]
    <3>1. \A k \in 1 .. Me(s) : d[k] \in Nat
      BY <1>2
    <3> QED
      BY <1>2, <1>6, <3>1
  <2>3. e = [k \in 1 .. Me(s) |-> e[k]]
    BY <1>2
  <2> QED
    BY <2>1, <2>2, <2>3 DEF Depths
<1>8. c \notin ExpressionCall
  BY <1>1, KindsDiffer
<1>9. Ok(t)
  BY <1>3, <1>6, <1>7, <1>8, PushNone DEF d
<1> QED
  BY <1>9 DEF RunEndScope, t

(* `define_variable' keeps the invariant. *)
LEMMA DefineVariableStep ==
  ASSUME NEW s, NEW c, Ready(s, c), c.do = "define_variable"
  PROVE  Ok(RunDefineVariable(s, c))
<1>1. c \in Define /\ c.index \in 0 .. UINT8_MAX /\ Base(s) /\ InText(s)
  BY ReadyFacts, KindFacts, ShapeFacts
<1>2. Nearly(s) /\ Declared(This(s))
  BY <1>1 DEF Ready
<1> DEFINE t == DefineVariable(s, c.index)
<1>3. Defines(s, t)
  BY <1>1, <1>2, DefineVariableFacts
<1> HIDE DEF t
<1>4. Base(t) /\ t.work = s.work /\ SameDepths(s, t) /\ Settled(t) /\ InText(t)
  BY <1>1, <1>2, <1>3 DEF Defines
<1>5. Depths(t) = After(Depths(s), c)
  BY <1>1, <1>4, SameDepthsFacts, AfterFacts
<1>6. c \notin ExpressionCall
  BY <1>1, KindsDiffer
<1>7. Ok(t)
  BY <1>4, <1>5, <1>6, PushNone
<1> QED
  BY <1>7 DEF RunDefineVariable, t

(* When compile or end_compiler is called, nothing else waits. *)
LEMMA OutermostReady ==
  ASSUME NEW s, NEW c, Ready(s, c), c \in Outermost
  PROVE  /\ Base(s) /\ s.work = <<>> /\ Settled(s) /\ c \notin ExpressionCall
         /\ After(Depths(s), c) = Depths(s)
<1>1. c \notin Define /\ c \notin ExpressionCall /\ c \notin ClosingCall /\ c \notin EndFunction
  BY KindsDiffer
<1>2. s.work = <<>> /\ Base(s)
  BY DEF Ready
<1>3. Settled(s)
  BY <1>1 DEF Ready
<1> QED
  BY <1>1, <1>2, <1>3, AfterFacts

(* `end_compiler' keeps the invariant. *)
LEMMA EndCompilerStep ==
  ASSUME NEW s, NEW c, Ready(s, c), c.do = "end_compiler"
  PROVE  Ok(RunEndCompiler(s, c))
<1>1. c \in Outermost
  BY ReadyFacts, KindFacts
<1>2. /\ Base(s) /\ s.work = <<>> /\ Settled(s) /\ c \notin ExpressionCall
      /\ After(Depths(s), c) = Depths(s)
  BY <1>1, OutermostReady
<1> DEFINE t == EmitReturn(s)
<1>3. Keeps(s, t)
  BY <1>2, EmitReturnFacts
<1> HIDE DEF t
<1>4. Base(t) /\ t.work = s.work /\ SameDepths(s, t) /\ Settled(t)
  BY <1>2, <1>3, ScopesKept DEF Keeps
<1>5. Depths(t) = Depths(s)
  BY <1>2, <1>4, SameDepthsFacts
<1>6. Ok(t)
  BY <1>2, <1>4, <1>5, PushNone
<1> QED
  BY <1>6 DEF RunEndCompiler, t

(* Reading on behind the end of the text. *)
LEMMA AdvanceBase ==
  ASSUME NEW s, Base(s)
  PROVE  /\ Base(Advance(s)) /\ Advance(s).work = s.work
         /\ SameScopes(s, Advance(s))
         /\ This(Advance(s)).previous = This(s).current
<1> DEFINE k == Me(s)
           c == Placed(This(s), This(s).current, This(s).current + 1)
<1>1. /\ IsState(s) /\ This(s) \in CompilerType /\ k \in DOMAIN s.compilers /\ This(s) = s.compilers[k]
      /\ CompilerOk(s, k)
  BY BaseFacts DEF Base
<1>2. Advance(s) = WithCompiler(s, k, c)
  BY <1>1 DEF Advance, WithCompiler, IsState, CompilerType, Placed
<1>3. This(s).current \in Nat /\ This(s).current + 1 \in Nat
  BY <1>1 DEF CompilerType
<1>4. /\ c \in CompilerType
      /\ c.function = This(s).function
      /\ c.scope_depth = This(s).scope_depth
      /\ c.upvalues = This(s).upvalues
      /\ c.locals = This(s).locals
      /\ c.previous = This(s).current
      /\ c.panic_mode = This(s).panic_mode
      /\ c.had_error = This(s).had_error
  BY <1>1, <1>3, PlacedFacts, ZenonT(60)
<1> HIDE DEF c
<1>5. c.panic_mode \/ c.had_error => s.errors # {}
  BY <1>1, <1>4 DEF CompilerOk
<1>6. /\ Base(WithCompiler(s, k, c))
      /\ WithCompiler(s, k, c).work = s.work
      /\ SameScopes(s, WithCompiler(s, k, c))
      /\ This(WithCompiler(s, k, c)) = c
  BY <1>1, <1>4, <1>5, CompilerChange
<1> QED
  BY <1>2, <1>4, <1>6

(* `compile' keeps the invariant. *)
LEMMA CompileStep ==
  ASSUME TokensOk, NEW s, NEW c, Ready(s, c), c.do = "compile"
  PROVE  Ok(RunCompile(s, c))
<1>1. c \in Outermost /\ InText(s)
  BY ReadyFacts, KindFacts
<1>2. /\ Base(s) /\ s.work = <<>> /\ Settled(s) /\ c \notin ExpressionCall
      /\ After(Depths(s), c) = Depths(s)
  BY <1>1, OutermostReady
<1> DEFINE t == Advance(s)
           more == <<Call("declaration"), Call("compile")>>
           last == <<Call("end_compiler")>>
<1>3. This(s).current <= Len(tokens)
  BY <1>1 DEF InText
<1>4. RunCompile(s, c) =
        IF ~Check(s, "LOX_EOF") THEN Then(s, more)
        ELSE Then(IF Previous(t).type = "LOX_EOF" THEN t
                  ELSE ErrorAtPrevious(t, "Expected end of file."), last)
  BY <1>3 DEF RunCompile
<1>5. /\ Base(t) /\ t.work = s.work /\ SameScopes(s, t) /\ This(t).previous = This(s).current
  BY <1>2, AdvanceBase
<1> HIDE DEF t
<1>6. Call("declaration") \in StatementCall /\ Call("compile") \in Outermost /\ Call("end_compiler") \in Outermost
  BY StatementCallFacts
<1>7. /\ Call("declaration") \in CallType /\ Call("compile") \in CallType /\ Call("end_compiler") \in CallType
  BY <1>6 DEF CallType
<1>8. CASE ~Check(s, "LOX_EOF")
  <2>1. /\ more \in Seq(CallType) /\ more # <<>> /\ Len(more) = 2 /\ DOMAIN more = {1, 2}
        /\ more[1] = Call("declaration") /\ more[2] = Call("compile")
    BY <1>7
  <2> HIDE DEF more
  <2>2. /\ more[1] \notin EndFunction \cup ClosingCall \cup Define \cup Outermost \cup BeginFunction
        /\ more[2] \notin Define \cup BeginFunction
    BY <1>6, <2>1, KindsDiffer
  <2>3. After(Depths(s), more[Len(more)]) = After(Depths(s), c)
    BY <1>2, <1>6, <2>1, AfterFacts
  <2>4. \A i \in 1 .. Len(more) - 1 : more[i] \notin EndFunction \cup ClosingCall
    BY <2>1, <2>2
  <2>5. \A i \in DOMAIN more : /\ more[i] \notin Define /\ more[i] \notin BeginFunction
                               /\ more[i] \in Outermost => i = Len(more) /\ c \in Outermost
    BY <1>1, <2>1, <2>2
  <2>6. ~Defining(more)
    BY <2>5 DEF Defining
  <2>7. Ok(Then(s, more))
    BY <1>1, <1>2, <2>1, <2>3, <2>4, <2>5, <2>6, PushThen
  <2> QED
    BY <1>4, <1>8, <2>7
<1>9. CASE Check(s, "LOX_EOF")
  <2>1. Previous(t).type = "LOX_EOF"
    BY <1>5, <1>9 DEF Previous, Check, Current
  <2>2. SameDepths(s, t) /\ Settled(t)
    BY <1>2, <1>5, ScopesKept
  <2>3. Depths(t) = Depths(s)
    BY <1>2, <1>5, <2>2, SameDepthsFacts
  <2>4. /\ last \in Seq(CallType) /\ last # <<>> /\ Len(last) = 1 /\ DOMAIN last = {1}
        /\ last[1] = Call("end_compiler") /\ last[1].do = "end_compiler"
    BY <1>7 DEF Call
  <2> HIDE DEF last
  <2>5. last[1] \notin Define \cup BeginFunction
    BY <1>6, <2>4, KindsDiffer
  <2>6. After(Depths(t), last[Len(last)]) = After(Depths(s), c)
    BY <1>2, <1>6, <2>3, <2>4, AfterFacts
  <2>7. \A i \in 1 .. Len(last) - 1 : last[i] \notin EndFunction \cup ClosingCall
    BY <2>4
  <2>8. \A i \in DOMAIN last : /\ last[i] \notin Define /\ last[i] \notin BeginFunction
                               /\ last[i] \in Outermost => i = Len(last) /\ c \in Outermost
    BY <1>1, <2>4, <2>5
  <2>9. ~Defining(last)
    BY <2>8 DEF Defining
  <2>10. Ok(Then(t, last))
    BY <1>2, <1>5, <2>2, <2>4, <2>6, <2>7, <2>8, <2>9, PushThen
  <2> QED
    BY <1>4, <1>9, <2>1, <2>10
<1> QED
  BY <1>8, <1>9

(* An error makes no function, and no other error is forgotten. *)
LEMMA ErrorAtStays ==
  ASSUME NEW s, DOMAIN s = {"compilers", "functions", "errors", "work"}, NEW k, NEW at, NEW msg
  PROVE  /\ ErrorAt(s, k, at, msg).functions = s.functions
         /\ s.errors \subseteq ErrorAt(s, k, at, msg).errors
BY DEF ErrorAt

(* No function is made by adding a constant, and no error forgotten. *)
LEMMA AddConstantStays ==
  ASSUME NEW s, Base(s), NEW val
  PROVE  /\ Len(AddConstant(s, val).functions) = Len(s.functions)
         /\ s.errors \subseteq AddConstant(s, val).errors
<1> DEFINE f == This(s).function
           g == [s.functions[f] EXCEPT !.constants = Append(@, val)]
           fs == [s.functions EXCEPT ![f] = g]
           t == [s EXCEPT !.functions[f].constants = Append(@, val)]
<1>1. DOMAIN s = {"compilers", "functions", "errors", "work"}
  BY BaseFacts DEF IsState
<1>2. DOMAIN t = {"compilers", "functions", "errors", "work"} /\ t.errors = s.errors
  BY <1>1
<1>3. t.functions = fs
  BY <1>1
<1>4. Len(fs) = Len(s.functions)
  <2>1. s.functions \in Seq(FunctionType) /\ IsSeq(s.functions)
    BY BaseFacts, SeqIsSeq
  <2>2. f \in 1 .. Len(s.functions)
    BY BaseFacts
  <2> HIDE DEF f, g
  <2> QED
    BY <2>1, <2>2, ExceptFacts
<1>5. AddConstant(s, val) = IF Len(Function(s).constants) > UINT8_MAX
                            THEN ErrorAt(t, Me(t), This(t).previous, "Too many constants in code chunk.") ELSE t
  BY DEF AddConstant, ErrorAtPrevious
<1> DEFINE at == This(t).previous
           k == Me(t)
           msg == "Too many constants in code chunk."
<1> HIDE DEF t, fs, at, k, msg
<1>6. /\ ErrorAt(t, k, at, msg).functions = t.functions
      /\ t.errors \subseteq ErrorAt(t, k, at, msg).errors
  BY <1>2, ErrorAtStays
<1>7. AddConstant(s, val) = IF Len(Function(s).constants) > UINT8_MAX THEN ErrorAt(t, k, at, msg) ELSE t
  BY <1>5 DEF k, at, msg
<1> QED
  BY <1>2, <1>3, <1>4, <1>6, <1>7

(* Emitting bytes reports nothing, *)
LEMMA EmitBytesStays ==
  ASSUME NEW s, Base(s), NEW bytes
  PROVE  EmitBytes(s, bytes).errors = s.errors
BY BaseFacts DEF EmitBytes, IsState

(* and neither does defining a variable. *)
LEMMA DefineVariableStays ==
  ASSUME NEW s, Base(s), NEW index
  PROVE  DefineVariable(s, index).errors = s.errors
<1>1. DOMAIN s = {"compilers", "functions", "errors", "work"}
  BY BaseFacts DEF IsState
<1>2. MarkReady(s).errors = s.errors
  BY <1>1 DEF MarkReady
<1>3. EmitWith(s, "OP_DEFINE_GLOBAL", index).errors = s.errors
  BY EmitBytesStays DEF EmitWith
<1> QED
  BY <1>2, <1>3 DEF DefineVariable

(* Reading the name of a variable makes no function. *)
LEMMA ParseVariableStays ==
  ASSUME TokensOk, NEW s, Base(s), InText(s)
  PROVE  Len(ParseVariable(s).functions) = Len(s.functions)
<1> DEFINE r == Consume(s, "IDENTIFIER")
           t == DeclareVariable(r)
           val == Str(Previous(t).lexeme)
<1>1. Keeps(s, r) /\ InText(r) /\ r.functions = s.functions
  BY ConsumeFacts
<1>2. ParseVariable(s) = IF This(s).scope_depth = 0 THEN AddConstant(t, val) ELSE t
  BY DEF ParseVariable
<1> HIDE DEF r
<1>3. Base(r)
  BY <1>1 DEF Keeps
<1>4. Declares(r, t) /\ t.functions = r.functions
  BY <1>1, <1>3, DeclareVariableFacts
<1>5. Base(t)
  BY <1>4 DEF Declares
<1> HIDE DEF t, val
<1>6. Len(AddConstant(t, val).functions) = Len(t.functions)
  BY <1>5, AddConstantStays
<1> QED
  BY <1>1, <1>2, <1>4, <1>6

-----------------------------------------------------------------------------
(* A function is begun. *)

(* The variable that names the function, ready at once when it is local. *)
Titled(s) ==
  LET named == ParseVariable(s)
  IN  IF This(s).scope_depth > 0 THEN MarkReady(named) ELSE named

(* The function has its name, and no scope is entered yet. *)
LEMMA TitledFacts ==
  ASSUME TokensOk, NEW s, Base(s), InText(s), Settled(s)
  PROVE  LET t == Titled(s)
         IN  /\ Base(t) /\ t.work = s.work
             /\ SameDepths(s, t) /\ Settled(t) /\ Declared(This(t))
             /\ InText(t) /\ This(s).current <= This(t).current
             /\ Len(t.functions) = Len(s.functions)
<1> DEFINE named == ParseVariable(s)
           t == Titled(s)
<1>1. t = IF This(s).scope_depth > 0 THEN MarkReady(named) ELSE named
  BY DEF Titled
<1>2. Declares(s, named) /\ Len(named.functions) = Len(s.functions)
  BY ParseVariableFacts, ParseVariableStays
<1> HIDE DEF named, t
<1>3. Base(named) /\ Nearly(named) /\ Declared(This(named)) /\ InText(named) /\ SameDepths(s, named)
      /\ named.work = s.work /\ This(s).current <= This(named).current
  BY <1>2 DEF Declares
<1>4. This(named).scope_depth = This(s).scope_depth /\ DOMAIN named.compilers = DOMAIN s.compilers
  BY <1>3, BaseFacts DEF SameDepths
<1>5. CASE This(s).scope_depth > 0
  <2>1. Defines(named, t) /\ t.functions = named.functions
    BY <1>1, <1>3, <1>4, <1>5, MarkReadyFacts
  <2>2. SameDepths(s, t)
    BY <1>3, <1>4, <2>1 DEF SameDepths, Defines
  <2>3. This(s).current <= This(t).current
    <3>1. Base(t)
      BY <2>1 DEF Defines
    <3>2. This(s).current \in Nat /\ This(t).current \in Nat /\ This(named).current \in Nat
      BY <1>3, <3>1, BaseFacts DEF CompilerType
    <3> QED
      BY <1>3, <2>1, <3>2 DEF Defines
  <2> QED
    BY <1>2, <1>3, <2>1, <2>2, <2>3 DEF t, Defines
<1>6. CASE ~(This(s).scope_depth > 0)
  <2>1. This(named).scope_depth = 0
    BY <1>4, <1>6, OwnFacts
  <2>2. Settled(named)
    BY <1>3, <2>1, OutermostSettled
  <2> QED
    BY <1>1, <1>2, <1>3, <1>6, <2>2 DEF t
<1> QED
  BY <1>5, <1>6

(* A Compiler of its own for the function. *)
Entered(s, name, at) ==
  [s EXCEPT !.functions = Append(@, NewFunction(name)),
            !.compilers = Append(@, NewCompiler(Len(s.functions) + 1, at, at - 1))]

(* A new function is one, and has no constants and no upvalues. *)
LEMMA NewFunctionType ==
  ASSUME NEW name \in Lexeme \cup {"script"}
  PROVE  /\ NewFunction(name) \in FunctionType
         /\ NewFunction(name).upvalue_count = 0 /\ NewFunction(name).constants = <<>>
         /\ NewFunction(name).name = name
<1>1. 0 \in 0 .. UINT8_MAX
  BY ByteAssumption
<1> QED
  BY <1>1 DEF NewFunction, FunctionType

(* A compiler that has only begun. *)
Fresh(c, f, at, before) ==
  /\ c \in CompilerType
  /\ c.function = f /\ c.current = at /\ c.previous = before
  /\ c.scope_depth = 0 /\ c.upvalues = <<>>
  /\ c.panic_mode = FALSE /\ c.had_error = FALSE
  /\ Len(c.locals) = 1 /\ DOMAIN c.locals = {1} /\ c.locals[1].depth = 0

(* A new compiler has a local that nobody can name, and nothing else. *)
LEMMA NewCompilerType ==
  ASSUME NEW f \in Nat, NEW at \in Nat, NEW before \in Nat
  PROVE  Fresh(NewCompiler(f, at, before), f, at, before)
<1> DEFINE local == NewLocal("", 0)
           locals == <<local>>
<1>3. local \in LocalType /\ local.depth = 0
  <2> DEFINE nobody == ""
  <2>1. nobody \in Lexeme
    BY DEF Lexeme
  <2>2. local = [name |-> nobody, depth |-> 0, ready |-> FALSE, is_captured |-> FALSE]
    BY DEF NewLocal
  <2> HIDE DEF local, nobody
  <2> QED
    BY <2>1, <2>2 DEF LocalType
<1> HIDE DEF local
<1>4. locals \in Seq(LocalType) /\ Len(locals) = 1 /\ DOMAIN locals = {1} /\ locals[1] = local
  BY <1>3
<1>5. NewCompiler(f, at, before) =
        [function |-> f, locals |-> locals, upvalues |-> <<>>,
         current |-> at, previous |-> before,
         had_error |-> FALSE, panic_mode |-> FALSE, scope_depth |-> 0]
  BY DEF NewCompiler, local
<1> HIDE DEF locals
<1>6. /\ NewCompiler(f, at, before) \in CompilerType
      /\ NewCompiler(f, at, before).function = f
      /\ NewCompiler(f, at, before).current = at
      /\ NewCompiler(f, at, before).previous = before
      /\ NewCompiler(f, at, before).scope_depth = 0
      /\ NewCompiler(f, at, before).upvalues = <<>>
      /\ NewCompiler(f, at, before).locals = locals
      /\ NewCompiler(f, at, before).panic_mode = FALSE
      /\ NewCompiler(f, at, before).had_error = FALSE
  BY <1>4, <1>5 DEF CompilerType
<1> QED
  BY <1>3, <1>4, <1>6 DEF Fresh

(* The new compiler is the innermost, and the others are as they were. *)
LEMMA EnteredFacts ==
  ASSUME NEW s, Base(s), Settled(s), Declared(This(s)), NEW name \in Lexeme, NEW at \in Nat \ {0}
  PROVE  LET t == Entered(s, name, at)
         IN  /\ Base(t) /\ t.work = s.work /\ Settled(t)
             /\ Len(t.compilers) = Len(s.compilers) + 1
             /\ \A k \in DOMAIN s.compilers : t.compilers[k] = s.compilers[k]
             /\ This(t).current = at /\ This(t).previous = at - 1 /\ This(t).scope_depth = 0
<1> DEFINE m == Len(s.compilers)
           n == Len(s.functions)
           g == NewFunction(name)
           c == NewCompiler(n + 1, at, at - 1)
           t == Entered(s, name, at)
           fs == Append(s.functions, g)
           cs == Append(s.compilers, c)
<1>1. /\ IsState(s) /\ s.compilers \in Seq(CompilerType) /\ s.functions \in Seq(FunctionType)
      /\ m \in Nat \ {0} /\ n \in Nat /\ DOMAIN s.compilers = 1 .. m /\ DOMAIN s.functions = 1 .. n
      /\ Me(s) = m /\ This(s) = s.compilers[m]
  BY BaseFacts
<1>2. /\ g \in FunctionType /\ g.upvalue_count = 0 /\ g.constants = <<>>
      /\ c \in CompilerType
      /\ c.function = n + 1 /\ c.current = at /\ c.previous = at - 1 /\ c.scope_depth = 0
      /\ c.upvalues = <<>> /\ c.panic_mode = FALSE /\ c.had_error = FALSE
      /\ Len(c.locals) = 1 /\ DOMAIN c.locals = {1} /\ c.locals[1].depth = 0
  <2> DEFINE f == n + 1
             before == at - 1
  <2>1. f \in Nat /\ before \in Nat /\ at \in Nat
    BY <1>1
  <2>2. c = NewCompiler(f, at, before) /\ g = NewFunction(name)
    OBVIOUS
  <2> HIDE DEF f, before, c, g, m, n, t, fs, cs
  <2>3. /\ NewFunction(name) \in FunctionType
        /\ NewFunction(name).upvalue_count = 0 /\ NewFunction(name).constants = <<>>
    BY NewFunctionType
  <2>4. Fresh(NewCompiler(f, at, before), f, at, before)
    BY <2>1, NewCompilerType
  <2> QED
    BY <2>2, <2>3, <2>4 DEF f, before, Fresh
<1> HIDE DEF g, c
<1>3. t.compilers = cs /\ t.functions = fs /\ t.errors = s.errors /\ t.work = s.work
      /\ t = [s EXCEPT !.functions = fs, !.compilers = cs]
  BY <1>1 DEF Entered, IsState, g, c
<1>4. /\ fs \in Seq(FunctionType) /\ Len(fs) = n + 1 /\ DOMAIN fs = 1 .. n + 1
      /\ \A f \in 1 .. n : fs[f] = s.functions[f]
      /\ fs[n + 1] = g
  <2>1. /\ fs \in Seq(FunctionType) /\ Len(fs) = n + 1
        /\ \A f \in 1 .. n : fs[f] = s.functions[f]
        /\ fs[n + 1] = g
    BY <1>1, <1>2, AppendProperties
  <2> HIDE DEF fs, n
  <2> QED
    BY <2>1
<1>5. /\ cs \in Seq(CompilerType) /\ Len(cs) = m + 1 /\ DOMAIN cs = 1 .. m + 1
      /\ \A k \in 1 .. m : cs[k] = s.compilers[k]
      /\ cs[m + 1] = c
  <2>1. /\ cs \in Seq(CompilerType) /\ Len(cs) = m + 1
        /\ \A k \in 1 .. m : cs[k] = s.compilers[k]
        /\ cs[m + 1] = c
    BY <1>1, <1>2, AppendProperties
  <2> HIDE DEF cs, m
  <2> QED
    BY <2>1
<1> HIDE DEF fs, cs, t, m, n
<1>6. IsState(t)
  BY <1>1, <1>3, <1>4, <1>5 DEF IsState
<1>7. ASSUME NEW k \in DOMAIN t.compilers PROVE CompilerOk(t, k)
  <2>1. CASE k \in 1 .. m
    <3>1. t.compilers[k] = s.compilers[k] /\ CompilerOk(s, k)
      BY <1>1, <1>3, <1>5, <2>1 DEF Base
    <3>2. s.compilers[k].function \in DOMAIN s.functions
      BY <3>1 DEF CompilerOk
    <3>3. /\ s.compilers[k].function \in DOMAIN t.functions
          /\ t.functions[s.compilers[k].function] = s.functions[s.compilers[k].function]
      BY <1>1, <1>3, <1>4, <3>2
    <3>4. \A j \in 1 .. k - 1 : t.compilers[j] = s.compilers[j]
      BY <1>1, <1>3, <1>5, <2>1
    <3>5. Declared(s.compilers[k])
      <4>1. k < m \/ k = m
        BY <1>1, <2>1
      <4> QED
        BY <1>1, <3>1, <4>1 DEF CompilerOk, m
    <3> QED
      BY <1>3, <3>1, <3>3, <3>4, <3>5 DEF CompilerOk
  <2>2. CASE k = m + 1
    <3>1. t.compilers[k] = c /\ ~(k < Len(t.compilers))
      BY <1>1, <1>3, <1>5, <2>2
    <3>2. c.function \in DOMAIN t.functions /\ t.functions[c.function].upvalue_count = 0
      BY <1>1, <1>2, <1>3, <1>4
    <3>3. \A j \in 1 .. k - 1 : t.compilers[j].function < c.function
      <4> TAKE j \in 1 .. k - 1
      <4>1. j \in 1 .. m
        BY <1>1, <2>2
      <4>2. t.compilers[j] = s.compilers[j] /\ s.compilers[j].function \in 1 .. n
        BY <1>1, <1>3, <1>5, <4>1, BaseFacts
      <4> QED
        BY <1>1, <1>2, <4>2
    <3>4. Len(c.locals) \in 1 .. UINT8_MAX + 1
      BY <1>2, ByteAssumption
    <3>5. \A i \in DOMAIN c.locals : DepthOk(i, c.locals[i].depth)
      BY <1>2 DEF DepthOk
    <3>6. Len(c.upvalues) = 0
      BY <1>2
    <3> QED
      BY <1>2, <3>1, <3>2, <3>3, <3>4, <3>5, <3>6 DEF CompilerOk
  <2> QED
    BY <1>1, <1>3, <1>5, <2>1, <2>2
<1>8. ASSUME NEW f \in DOMAIN t.functions PROVE FunctionOk(t, f)
  <2>1. CASE f \in 1 .. n
    <3>1. t.functions[f] = s.functions[f] /\ FunctionOk(s, f) /\ DOMAIN s.functions \subseteq DOMAIN t.functions
      BY <1>1, <1>3, <1>4, <2>1 DEF Base
    <3> QED
      BY <1>3, <3>1, ConstantsStay DEF FunctionOk
  <2>2. CASE f = n + 1
    <3>1. t.functions[f] = g
      BY <1>3, <1>4, <2>2
    <3>2. Len(g.constants) = 0 /\ DOMAIN g.constants = {}
      BY <1>2
    <3> QED
      BY <1>2, <3>1, <3>2, ByteAssumption DEF FunctionOk
  <2> QED
    BY <1>1, <1>3, <1>4, <2>1, <2>2
<1>9. Resolved(t)
  <2> SUFFICES ASSUME s.errors = {}, NEW k \in 2 .. Len(t.compilers), NEW i \in DOMAIN t.compilers[k].upvalues
               PROVE  UpvalueResolves(t.compilers[k - 1], t.compilers[k].upvalues[i])
    BY <1>3 DEF Resolved
  <2>1. k \in 1 .. m
    <3>1. k \in 1 .. m + 1
      BY <1>1, <1>3, <1>5
    <3>2. k # m + 1
      BY <1>2, <1>3, <1>5
    <3> QED
      BY <1>1, <3>1, <3>2
  <2>2. k - 1 \in 1 .. m /\ k \in 2 .. Len(s.compilers)
    BY <1>1, <2>1 DEF m
  <2>3. t.compilers[k] = s.compilers[k] /\ t.compilers[k - 1] = s.compilers[k - 1]
    BY <1>3, <1>5, <2>1, <2>2
  <2> QED
    BY <2>2, <2>3 DEF Base, Resolved
<1>10. Base(t)
  <2>1. t.compilers # <<>>
    BY <1>1, <1>3, <1>5
  <2> QED
    BY <1>6, <1>7, <1>8, <1>9, <2>1 DEF Base
<1>11. Settled(t)
  <2> SUFFICES ASSUME NEW k \in DOMAIN t.compilers, NEW i \in DOMAIN t.compilers[k].locals
               PROVE  t.compilers[k].locals[i].depth # -1
    BY DEF Settled
  <2>1. CASE k \in 1 .. m
    <3>1. t.compilers[k] = s.compilers[k] /\ k \in DOMAIN s.compilers
      BY <1>1, <1>3, <1>5, <2>1
    <3> QED
      BY <3>1 DEF Settled
  <2>2. CASE k = m + 1
    BY <1>2, <1>3, <1>5, <2>2
  <2> QED
    BY <1>1, <1>3, <1>5, <2>1, <2>2
<1>12. This(t) = c
  BY <1>1, <1>3, <1>5 DEF This, Me
<1> QED
  BY <1>1, <1>2, <1>3, <1>5, <1>10, <1>11, <1>12 DEF t, m

(* The token before the one that is read next is one of the text. *)
LEMMA TokenBefore ==
  ASSUME TokensOk, NEW at \in 2 .. Len(tokens)
  PROVE  tokens[at - 1].lexeme \in Lexeme
<1> DEFINE T == [type : TokenType, lexeme : Lexeme]
           p == at - 1
<1>1. tokens \in Seq(T)
  BY DEF TokensOk
<1>2. p \in 1 .. Len(tokens)
  <2>1. Len(tokens) \in Nat
    BY <1>1
  <2> QED
    BY <2>1
<1> HIDE DEF T, p
<1>3. tokens[p] \in T
  BY <1>1, <1>2
<1> QED
  BY <1>3 DEF T, p

(* The depths without the last are those of the enclosing compilers. *)
LEMMA FrontOfAppend ==
  ASSUME NEW T, NEW d \in Seq(T), NEW e \in Seq(T), Len(e) = Len(d) + 1,
         \A k \in 1 .. Len(d) : e[k] = d[k]
  PROVE  Front(e) = d
<1>1. Len(d) \in Nat /\ d = [k \in 1 .. Len(d) |-> d[k]]
  OBVIOUS
<1> DEFINE n == Len(d)
<1>2. Front(e) = SubSeq(e, 1, n)
  BY <1>1 DEF Front
<1>3. SubSeq(e, 1, n) = [k \in 1 .. n |-> e[k]]
  <2>1. SubSeq(e, 1, n) = [k \in 1 .. (1 + n) - 1 |-> e[(1 + k) - 1]]
    OBVIOUS
  <2>2. (1 + n) - 1 = n /\ \A k \in 1 .. n : (1 + k) - 1 = k
    BY <1>1
  <2> HIDE DEF n
  <2> QED
    BY <2>1, <2>2
<1> QED
  BY <1>1, <1>2, <1>3

(* The inner compiler has its scope open, and reads on where the outer one stopped. *)
Begun(s) ==
  LET ready == Titled(s)
      at    == This(ready).current
  IN  BeginScope(Entered(ready, tokens[at - 1].lexeme, at))

(* With the inner compiler the depths of the others are as they were before the name was read. *)
LEMMA BegunFacts ==
  ASSUME TokensOk, NEW s, Base(s), InText(s), Settled(s), This(s).current >= 2
  PROVE  LET t == Begun(s)
         IN  /\ Base(t) /\ t.work = s.work /\ Settled(t) /\ InText(t)
             /\ Len(t.compilers) = Len(s.compilers) + 1
             /\ \A k \in DOMAIN s.compilers : t.compilers[k].scope_depth = s.compilers[k].scope_depth
<1> DEFINE ready == Titled(s)
           at == This(ready).current
           name == tokens[at - 1].lexeme
           e == Entered(ready, name, at)
           t == BeginScope(e)
<1>1. /\ Base(ready) /\ ready.work = s.work
      /\ SameDepths(s, ready) /\ Settled(ready) /\ Declared(This(ready))
      /\ InText(ready) /\ This(s).current <= This(ready).current
  BY TitledFacts
<1>2. Begun(s) = t
  BY DEF Begun
<1> HIDE DEF ready
<1>3. /\ at \in 2 .. Len(tokens) /\ at \in Nat \ {0}
      /\ at - 1 \in 1 .. Len(tokens) /\ at \in 1 .. Len(tokens)
  <2>1. This(s).current \in Nat
    BY BaseFacts DEF CompilerType
  <2>2. Len(tokens) \in Nat
    BY DEF TokensOk
  <2> QED
    BY <1>1, <2>1, <2>2 DEF InText
<1> HIDE DEF at
<1>4. name \in Lexeme
  BY <1>3, TokenBefore
<1> HIDE DEF name
<1>5. /\ Base(e) /\ e.work = ready.work /\ Settled(e)
      /\ Len(e.compilers) = Len(ready.compilers) + 1
      /\ \A k \in DOMAIN ready.compilers : e.compilers[k] = ready.compilers[k]
      /\ This(e).current = at /\ This(e).previous = at - 1
  BY <1>1, <1>3, <1>4, EnteredFacts
<1> HIDE DEF e
<1>6. InText(e)
  BY <1>3, <1>5 DEF InText
<1>7. /\ Base(t) /\ t.work = e.work
      /\ Len(t.compilers) = Len(e.compilers)
      /\ \A j \in DOMAIN e.compilers :
           t.compilers[j].scope_depth = e.compilers[j].scope_depth + IF j = Me(e) THEN 1 ELSE 0
      /\ Settled(t) /\ InText(t)
  BY <1>5, <1>6, BeginScopeFacts
<1> HIDE DEF t
<1>8. \A k \in DOMAIN s.compilers : t.compilers[k].scope_depth = s.compilers[k].scope_depth
  <2> TAKE k \in DOMAIN s.compilers
  <2>1. /\ k \in 1 .. Len(s.compilers) /\ Len(s.compilers) \in Nat
        /\ Len(ready.compilers) = Len(s.compilers)
        /\ DOMAIN ready.compilers = 1 .. Len(ready.compilers)
        /\ DOMAIN e.compilers = 1 .. Len(e.compilers) /\ Me(e) = Len(e.compilers)
    BY <1>1, <1>5, BaseFacts DEF SameDepths
  <2>2. k \in DOMAIN ready.compilers /\ k \in DOMAIN e.compilers /\ k # Me(e)
    BY <1>5, <2>1
  <2>3. e.compilers[k].scope_depth = s.compilers[k].scope_depth
    BY <1>1, <1>5, <2>2 DEF SameDepths
  <2>4. e.compilers[k].scope_depth \in Nat
    <3>1. e.compilers[k] \in CompilerType
      BY <1>5, <2>2, BaseFacts
    <3> QED
      BY <3>1 DEF CompilerType
  <2> QED
    BY <1>7, <2>2, <2>3, <2>4
<1> QED
  BY <1>1, <1>2, <1>5, <1>7, <1>8 DEF SameDepths

(* The compiler of a function is made, which the end of the function takes away. *)
LEMMA FunctionDeclarationStep ==
  ASSUME TokensOk, NEW s, NEW c, Ready(s, c), c.do = "function_declaration"
  PROVE  Ok(RunFunctionDeclaration(s, c))
<1>1. c \in BeginFunction /\ Base(s) /\ InText(s) /\ c \notin ExpressionCall
  <2>1. c \in BeginFunction /\ Base(s) /\ InText(s)
    BY KindFacts DEF Ready
  <2> QED
    BY <2>1, KindsDiffer
<1>2. Settled(s) /\ This(s).current >= 2
  <2>1. c \notin Define /\ ~Defining(s.work)
    BY <1>1, KindsDiffer DEF Ready
  <2> QED
    BY <1>1, <2>1 DEF Ready
<1> DEFINE begun == Begun(s)
           open == Consume(begun, "LEFT_PAREN")
           first == IF Check(open, "RIGHT_PAREN") THEN Call("function_body") ELSE Call("parameter")
           end == [do |-> "end_function", index |-> VariableIndex(s)]
           cs == <<first, end>>
<1>3. RunFunctionDeclaration(s, c) = Then(open, cs)
  <2> DEFINE ready == Titled(s)
             at == This(ready).current
             inner == NewCompiler(Len(s.functions) + 1, at, at - 1)
             other == BeginScope([ready EXCEPT
                        !.functions = Append(@, NewFunction(tokens[at - 1].lexeme)),
                        !.compilers = Append(@, inner)])
             into == Consume(other, "LEFT_PAREN")
  <2>1. RunFunctionDeclaration(s, c) =
          Then(into, <<IF Check(into, "RIGHT_PAREN") THEN Call("function_body") ELSE Call("parameter"), end>>)
    BY DEF RunFunctionDeclaration, Titled
  <2>2. Len(ready.functions) = Len(s.functions)
    BY <1>1, <1>2, TitledFacts
  <2>3. other = begun
    BY <2>2 DEF Begun, Entered
  <2> HIDE DEF other, begun
  <2> QED
    BY <2>1, <2>3
<1>4. /\ Base(begun) /\ begun.work = s.work /\ Settled(begun) /\ InText(begun)
      /\ Len(begun.compilers) = Len(s.compilers) + 1
      /\ \A k \in DOMAIN s.compilers : begun.compilers[k].scope_depth = s.compilers[k].scope_depth
  BY <1>1, <1>2, BegunFacts
<1> HIDE DEF begun
<1>5. Keeps(begun, open) /\ InText(open)
  BY <1>4, ConsumeFacts
<1> HIDE DEF open
<1>6. Base(open) /\ open.work = s.work /\ Settled(open) /\ SameDepths(begun, open)
  BY <1>4, <1>5, ScopesKept DEF Keeps
<1>7. Front(Depths(open)) = Depths(s)
  <2>1. /\ Depths(s) \in DepthsType /\ Depths(open) \in DepthsType /\ Depths(begun) \in DepthsType
        /\ Len(Depths(s)) = Me(s) /\ Len(Depths(begun)) = Me(begun)
        /\ \A k \in 1 .. Me(s) : Depths(s)[k] = s.compilers[k].scope_depth
        /\ \A k \in 1 .. Me(begun) : Depths(begun)[k] = begun.compilers[k].scope_depth
    BY <1>1, <1>4, <1>6, DepthsFacts
  <2>2. Depths(open) = Depths(begun)
    BY <1>4, <1>6, SameDepthsFacts
  <2>3. /\ Me(s) = Len(s.compilers) /\ DOMAIN s.compilers = 1 .. Me(s) /\ Me(s) \in Nat
        /\ Me(begun) = Len(begun.compilers)
    BY <1>1, <1>4, BaseFacts
  <2>4. \A k \in 1 .. Me(s) : Depths(begun)[k] = Depths(s)[k]
    <3>1. \A k \in 1 .. Me(s) : k \in 1 .. Me(begun)
      BY <1>4, <2>3
    <3> QED
      BY <1>4, <2>1, <2>3, <3>1
  <2> DEFINE d == Depths(s)
             e == Depths(begun)
  <2>5. d \in Seq(Nat) /\ e \in Seq(Nat) /\ Len(e) = Len(d) + 1 /\ \A k \in 1 .. Len(d) : e[k] = d[k]
    BY <1>4, <2>1, <2>3, <2>4 DEF DepthsType
  <2> HIDE DEF d, e
  <2>6. Front(e) = d
    BY <2>5, FrontOfAppend
  <2> QED
    BY <2>2, <2>6 DEF d, e
<1>8. first \in StatementCall /\ end \in EndFunction
  <2>1. VariableIndex(s) \in 0 .. UINT8_MAX
    BY <1>1, ParseVariableFacts
  <2> QED
    BY <2>1, StatementCallFacts
<1> HIDE DEF first, end
<1>9. /\ cs \in Seq(CallType) /\ cs # <<>> /\ Len(cs) = 2 /\ DOMAIN cs = {1, 2}
      /\ cs[1] = first /\ cs[2] = end
  <2>1. first \in CallType /\ end \in CallType
    BY <1>8 DEF CallType
  <2> QED
    BY <2>1
<1> HIDE DEF cs
<1>10. /\ first \notin EndFunction \cup ClosingCall \cup Define \cup Outermost \cup BeginFunction
       /\ end \notin Define \cup Outermost \cup BeginFunction
  <2>1. first \notin EndFunction \cup ClosingCall \cup Define \cup Outermost \cup BeginFunction
    BY <1>8, KindsDiffer
  <2>2. end \notin Define \cup Outermost \cup BeginFunction
    BY <1>8, KindsDiffer
  <2> QED
    BY <2>1, <2>2
<1>11. After(Depths(open), cs[Len(cs)]) = After(Depths(s), c)
  BY <1>1, <1>7, <1>8, <1>9, AfterFacts
<1>12. \A i \in 1 .. Len(cs) - 1 : cs[i] \notin EndFunction \cup ClosingCall
  BY <1>9, <1>10
<1>13. \A i \in DOMAIN cs : cs[i] \notin Define /\ cs[i] \notin Outermost /\ cs[i] \notin BeginFunction
  BY <1>9, <1>10
<1>14. ~Defining(cs)
  BY <1>13 DEF Defining
<1>15. Ok(Then(open, cs))
  BY <1>1, <1>5, <1>6, <1>9, <1>11, <1>12, <1>13, <1>14, PushThen
<1> QED
  BY <1>3, <1>15

(* The bytes that say what a closure captures. *)
LEMMA CaptureBytesFacts ==
  ASSUME NEW upvalues \in Seq(UpvalueType)
  PROVE  CaptureBytes(upvalues) \in Seq(Byte)
<1> DEFINE n == Len(upvalues)
           m == 2 * n
           bytes == CaptureBytes(upvalues)
<1>1. n \in Nat /\ m \in Nat /\ \A i \in 1 .. m : (i + 1) \div 2 \in 1 .. n
  <2>1. n \in Nat
    OBVIOUS
  <2> HIDE DEF n
  <2> QED
    BY <2>1
<1>2. bytes = [i \in 1 .. m |-> LET uv == upvalues[(i + 1) \div 2]
                                IN  IF i % 2 = 0 THEN uv.index ELSE IF uv.is_local THEN 1 ELSE 0]
  BY DEF CaptureBytes
<1> HIDE DEF bytes
<1>3. \A i \in 1 .. m : bytes[i] \in Byte
  <2> TAKE i \in 1 .. m
  <2> DEFINE q == (i + 1) \div 2
             uv == upvalues[q]
  <2>1. q \in 1 .. n
    BY <1>1
  <2>2. bytes[i] = IF i % 2 = 0 THEN uv.index ELSE IF uv.is_local THEN 1 ELSE 0
    BY <1>2
  <2> HIDE DEF q
  <2>3. uv \in UpvalueType
    BY <2>1
  <2> HIDE DEF uv
  <2>4. uv.index \in Byte
    BY <2>3, ByteFacts DEF UpvalueType
  <2>5. 0 \in Byte /\ 1 \in Byte
    BY ByteFacts, ByteAssumption
  <2> QED
    BY <2>2, <2>4, <2>5
<1>4. IsSeq(bytes) /\ Len(bytes) = m
  <2>1. DOMAIN bytes = 1 .. m /\ bytes = [i \in 1 .. m |-> bytes[i]]
    BY <1>2
  <2> HIDE DEF m
  <2> QED
    BY <1>1, <2>1, FunctionIsSeq
<1>5. bytes \in Seq(Byte)
  BY <1>3, <1>4, SeqOfType
<1> QED
  BY <1>5 DEF bytes

(* The innermost compiler is taken away. *)
Left(s) == [s EXCEPT !.compilers = Front(@)]

(* The enclosing compiler is the innermost again, and all others are as they were. *)
LEMMA LeftFacts ==
  ASSUME NEW s, Base(s), Settled(s), Len(s.compilers) >= 2
  PROVE  LET t == Left(s)
         IN  /\ Base(t) /\ Settled(t) /\ Declared(This(t))
             /\ t.work = s.work /\ t.errors = s.errors /\ t.functions = s.functions
             /\ Me(t) = Me(s) - 1
             /\ \A k \in 1 .. Me(s) - 1 : t.compilers[k] = s.compilers[k]
<1> DEFINE t == Left(s)
           m == Me(s)
           n == m - 1
           cs == Front(s.compilers)
<1>1. /\ IsState(s) /\ s.compilers \in Seq(CompilerType) /\ m = Len(s.compilers) /\ m \in Nat \ {0, 1}
      /\ DOMAIN s.compilers = 1 .. m /\ n \in Nat \ {0} /\ n < m /\ 1 .. n \subseteq 1 .. m
  BY BaseFacts
<1>2. t.compilers = cs /\ t.functions = s.functions /\ t.errors = s.errors /\ t.work = s.work
      /\ t = [s EXCEPT !.compilers = cs]
  BY <1>1 DEF Left, IsState
<1>3. /\ cs \in Seq(CompilerType) /\ Len(cs) = n /\ DOMAIN cs = 1 .. n
      /\ \A k \in 1 .. n : cs[k] = s.compilers[k]
  <2>1. cs = SubSeq(s.compilers, 1, n)
    BY <1>1 DEF Front
  <2>2. \A k \in 1 .. n : s.compilers[k] \in CompilerType
    BY <1>1
  <2> HIDE DEF n
  <2>3. /\ cs \in Seq(CompilerType) /\ Len(cs) = n
        /\ \A k \in 1 .. n : cs[k] = s.compilers[1 + k - 1]
    <3>1. n \in Int /\ 1 \in Int /\ n - 1 + 1 = n /\ 1 <= n
      BY <1>1
    <3> QED
      BY <2>1, <2>2, <3>1, SubSeqProperties
  <2>4. \A k \in 1 .. n : 1 + k - 1 = k
    BY <1>1
  <2> HIDE DEF cs
  <2> QED
    BY <2>3, <2>4
<1> HIDE DEF cs, t, m, n
<1>4. IsState(t)
  BY <1>1, <1>2, <1>3 DEF IsState
<1>5. Me(t) = n /\ This(t) = s.compilers[n] /\ n = m - 1
  BY <1>1, <1>2, <1>3 DEF Me, This, n
<1>6. ASSUME NEW k \in DOMAIN t.compilers PROVE CompilerOk(t, k)
  <2>1. k \in 1 .. n /\ k \in DOMAIN s.compilers /\ t.compilers[k] = s.compilers[k]
    BY <1>1, <1>2, <1>3
  <2>2. CompilerOk(s, k) /\ k < Len(s.compilers)
    BY <1>1, <2>1 DEF Base
  <2>3. \A j \in 1 .. k - 1 : t.compilers[j] = s.compilers[j]
    BY <1>1, <1>2, <1>3, <2>1
  <2> QED
    BY <1>2, <2>1, <2>2, <2>3 DEF CompilerOk
<1>7. ASSUME NEW f \in DOMAIN t.functions PROVE FunctionOk(t, f)
  BY <1>2 DEF Base, FunctionOk
<1>8. Resolved(t)
  <2> SUFFICES ASSUME s.errors = {}, NEW k \in 2 .. Len(t.compilers), NEW i \in DOMAIN t.compilers[k].upvalues
               PROVE  UpvalueResolves(t.compilers[k - 1], t.compilers[k].upvalues[i])
    BY <1>2 DEF Resolved
  <2>1. k \in 1 .. n /\ k - 1 \in 1 .. n /\ k \in 2 .. Len(s.compilers)
    BY <1>1, <1>2, <1>3
  <2>2. t.compilers[k] = s.compilers[k] /\ t.compilers[k - 1] = s.compilers[k - 1]
    BY <1>2, <1>3, <2>1
  <2> QED
    BY <2>1, <2>2 DEF Base, Resolved
<1>9. Base(t)
  <2>1. t.compilers # <<>>
    BY <1>1, <1>2, <1>3
  <2> QED
    BY <1>4, <1>6, <1>7, <1>8, <2>1 DEF Base
<1>10. Settled(t)
  <2> SUFFICES ASSUME NEW k \in DOMAIN t.compilers, NEW i \in DOMAIN t.compilers[k].locals
               PROVE  t.compilers[k].locals[i].depth # -1
    BY DEF Settled
  <2>1. k \in DOMAIN s.compilers /\ t.compilers[k] = s.compilers[k]
    BY <1>1, <1>2, <1>3
  <2> QED
    BY <2>1 DEF Settled
<1>11. Declared(This(t))
  <2>1. n \in DOMAIN s.compilers /\ n < Len(s.compilers)
    BY <1>1
  <2> QED
    BY <1>5, <2>1 DEF Base, CompilerOk
<1> QED
  BY <1>2, <1>3, <1>5, <1>9, <1>10, <1>11 DEF t, m

(* The enclosing compiler reads on where the inner one stopped. *)
LEMMA TakeOverFacts ==
  ASSUME NEW s, Base(s), NEW inner \in CompilerType,
         inner.panic_mode \/ inner.had_error => s.errors # {}
  PROVE  LET t == TakeOver(s, inner)
         IN  /\ Base(t) /\ t.work = s.work /\ SameScopes(s, t)
             /\ This(t).current = inner.current /\ This(t).previous = inner.previous
<1> DEFINE k == Me(s)
           old == This(s)
           c == [old EXCEPT !.current = inner.current, !.previous = inner.previous,
                            !.had_error = inner.had_error, !.panic_mode = inner.panic_mode]
<1>1. /\ IsState(s) /\ old \in CompilerType /\ k \in DOMAIN s.compilers /\ old = s.compilers[k]
  BY BaseFacts
<1>2. TakeOver(s, inner) = WithCompiler(s, k, c)
  BY <1>1 DEF TakeOver, WithCompiler, IsState
<1> HIDE DEF old
<1>3. /\ inner.current \in Nat /\ inner.previous \in Nat
      /\ inner.had_error \in BOOLEAN /\ inner.panic_mode \in BOOLEAN
  BY DEF CompilerType
<1>4. /\ c \in CompilerType
      /\ c.function = old.function
      /\ c.scope_depth = old.scope_depth
      /\ c.upvalues = old.upvalues
      /\ c.locals = old.locals
      /\ c.current = inner.current
      /\ c.previous = inner.previous
      /\ c.panic_mode = inner.panic_mode
      /\ c.had_error = inner.had_error
  BY <1>1, <1>3 DEF CompilerType
<1> HIDE DEF c, k
<1>5. /\ Base(WithCompiler(s, k, c))
      /\ WithCompiler(s, k, c).work = s.work
      /\ SameScopes(s, WithCompiler(s, k, c))
      /\ This(WithCompiler(s, k, c)) = IF k = Me(s) THEN c ELSE This(s)
  BY <1>1, <1>4, CompilerChange
<1> QED
  BY <1>2, <1>4, <1>5 DEF k

(* The depths of the compilers but the innermost. *)
LEMMA FrontDepths ==
  ASSUME NEW s, Base(s), NEW t, Base(t), Me(t) = Me(s) - 1,
         \A k \in 1 .. Me(t) : t.compilers[k].scope_depth = s.compilers[k].scope_depth
  PROVE  Depths(t) = Front(Depths(s))
<1> DEFINE d == Depths(t)
           e == Depths(s)
<1>1. /\ d \in Seq(Nat) /\ e \in Seq(Nat) /\ Len(d) = Me(t) /\ Len(e) = Me(s)
      /\ Me(s) \in Nat /\ Me(t) \in Nat
      /\ \A k \in 1 .. Me(t) : d[k] = t.compilers[k].scope_depth
      /\ \A k \in 1 .. Me(s) : e[k] = s.compilers[k].scope_depth
  BY DepthsFacts, BaseFacts DEF DepthsType
<1> HIDE DEF d, e
<1>2. Len(e) = Len(d) + 1 /\ \A k \in 1 .. Len(d) : e[k] = d[k]
  BY <1>1
<1>3. Front(e) = d
  BY <1>1, <1>2, FrontOfAppend
<1> QED
  BY <1>3 DEF d, e

(* The enclosing compiler has emitted the closure and defined the variable that names it. *)
Closed(s, index) ==
  LET inner == This(s)
      outer == Left(EmitReturn(s))
  IN  DefineVariable(EmitBytes(AddConstant(outer, Fun(inner.function)),
                               <<Code["OP_CLOSURE"], ConstantIndex(outer)>>
                                  \o CaptureBytes(inner.upvalues)),
                     index)

(* No scope but those of the inner compiler is gone, and no error is forgotten. *)
LEMMA ClosedFacts ==
  ASSUME NEW s, Base(s), Settled(s), Len(s.compilers) >= 2, NEW index \in 0 .. UINT8_MAX
  PROVE  LET t == Closed(s, index)
         IN  /\ Base(t) /\ Settled(t) /\ t.work = s.work /\ s.errors \subseteq t.errors
             /\ Me(t) = Me(s) - 1
             /\ \A k \in 1 .. Me(t) : t.compilers[k].scope_depth = s.compilers[k].scope_depth
<1> DEFINE inner == This(s)
           r == EmitReturn(s)
           outer == Left(r)
           val == Fun(inner.function)
           added == AddConstant(outer, val)
           bytes == <<Code["OP_CLOSURE"], ConstantIndex(outer)>> \o CaptureBytes(inner.upvalues)
           closed == EmitBytes(added, bytes)
           t == DefineVariable(closed, index)
<1>1. Closed(s, index) = t
  BY DEF Closed
<1>2. /\ inner \in CompilerType /\ inner.function \in DOMAIN s.functions
      /\ inner.upvalues \in Seq(UpvalueType)
  BY BaseFacts DEF CompilerType
<1>3. /\ Keeps(s, r) /\ r.compilers = s.compilers /\ r.errors = s.errors
      /\ Len(r.functions) = Len(s.functions)
  <2>1. Keeps(s, r) /\ r.compilers = s.compilers
    BY EmitReturnFacts
  <2> DEFINE ops == [i \in DOMAIN <<"OP_NIL", "OP_RETURN">> |-> Code[<<"OP_NIL", "OP_RETURN">>[i]]]
  <2>2. r = EmitBytes(s, ops)
    BY DEF EmitReturn, EmitAll
  <2> HIDE DEF ops
  <2>3. r.errors = s.errors
    BY <2>2, EmitBytesStays
  <2>4. Len(r.functions) = Len(s.functions)
    <3>1. IsState(s)
      BY BaseFacts
    <3>2. ops \in Seq(Byte)
      <4>1. "OP_NIL" \in OpCode /\ "OP_RETURN" \in OpCode
        BY OpcodeNames
      <4> DEFINE names == <<"OP_NIL", "OP_RETURN">>
      <4>2. names \in Seq(OpCode)
        BY <4>1
      <4>3. ops = [i \in DOMAIN names |-> Code[names[i]]]
        BY DEF ops
      <4> HIDE DEF names
      <4> QED
        BY <4>2, <4>3, OpcodesFacts
    <3> QED
      BY <2>2, <3>2, EmitBytesFacts
  <2> QED
    BY <2>1, <2>3, <2>4
<1> HIDE DEF r, inner
<1>4. Base(r) /\ Settled(r) /\ r.work = s.work /\ Len(r.compilers) >= 2
  BY <1>3, ScopesKept DEF Keeps
<1>5. /\ Base(outer) /\ Settled(outer) /\ Declared(This(outer))
      /\ outer.work = r.work /\ outer.errors = r.errors /\ outer.functions = r.functions
      /\ Me(outer) = Me(r) - 1
      /\ \A k \in 1 .. Me(r) - 1 : outer.compilers[k] = r.compilers[k]
  BY <1>4, LeftFacts
<1> HIDE DEF outer
<1>6. val \in ConstantType /\ IsConstant(outer.functions, val)
  <2> DEFINE f == inner.function
  <2>1. f \in DOMAIN outer.functions /\ f \in Nat
    BY <1>2, <1>3, <1>4, <1>5, BaseFacts DEF CompilerType
  <2> HIDE DEF f
  <2>2. [fun |-> f] \in [fun : DOMAIN outer.functions] /\ [fun |-> f] \in [fun : Nat]
    BY <2>1
  <2>3. val = [fun |-> f]
    BY DEF Fun, f
  <2> QED
    BY <2>2, <2>3 DEF ConstantType, IsConstant
<1> HIDE DEF val
<1>7. /\ Keeps(outer, added) /\ ConstantIndex(outer) \in 0 .. UINT8_MAX
      /\ outer.errors \subseteq added.errors
  BY <1>5, <1>6, AddConstantFacts, AddConstantStays
<1> HIDE DEF added
<1>8. Base(added) /\ added.work = outer.work /\ SameDepths(outer, added) /\ Settled(added)
      /\ Declared(This(added))
  BY <1>5, <1>7, ScopesKept DEF Keeps
<1>9. bytes \in Seq(Byte)
  <2> DEFINE rest == CaptureBytes(inner.upvalues)
             a == Code["OP_CLOSURE"]
             b == ConstantIndex(outer)
  <2>1. rest \in Seq(Byte)
    BY <1>2, CaptureBytesFacts
  <2>2. a \in Byte /\ b \in Byte
    BY <1>7, OpcodeNames, ByteFacts
  <2>3. bytes = <<a, b>> \o rest
    OBVIOUS
  <2> HIDE DEF a, b, rest, bytes
  <2>4. <<a, b>> \in Seq(Byte)
    BY <2>2
  <2> QED
    BY <2>1, <2>3, <2>4, ConcatProperties
<1> HIDE DEF bytes
<1>10. Keeps(added, closed) /\ closed.errors = added.errors
  BY <1>8, <1>9, EmitBytesFacts, EmitBytesStays
<1> HIDE DEF closed
<1>11. Base(closed) /\ closed.work = added.work /\ SameDepths(added, closed) /\ Settled(closed)
       /\ Declared(This(closed))
  BY <1>8, <1>10, ScopesKept DEF Keeps
<1>12. Defines(closed, t) /\ t.errors = closed.errors
  BY <1>11, DefineVariableFacts, DefineVariableStays
<1> HIDE DEF t
<1>13. /\ Base(t) /\ t.work = closed.work /\ SameDepths(closed, t) /\ Settled(t)
  <2>1. Nearly(closed)
    BY <1>11 DEF Settled, Nearly
  <2> QED
    BY <1>12, <2>1 DEF Defines
<1>14. /\ Me(t) = Me(closed) /\ Me(closed) = Me(added) /\ Me(added) = Me(outer)
       /\ Me(outer) = Me(s) - 1 /\ Me(s) \in Nat
       /\ DOMAIN outer.compilers = 1 .. Me(outer) /\ DOMAIN added.compilers = 1 .. Me(outer)
       /\ DOMAIN closed.compilers = 1 .. Me(outer)
  <2>1. Len(t.compilers) = Len(closed.compilers) /\ Len(closed.compilers) = Len(added.compilers)
        /\ Len(added.compilers) = Len(outer.compilers)
    BY <1>8, <1>11, <1>13 DEF SameDepths
  <2>2. Me(r) = Me(s)
    BY <1>3 DEF Me
  <2> QED
    BY <1>5, <1>8, <1>11, <1>13, <2>1, <2>2, BaseFacts
<1>15. \A k \in 1 .. Me(t) : t.compilers[k].scope_depth = s.compilers[k].scope_depth
  <2> TAKE k \in 1 .. Me(t)
  <2>1. k \in DOMAIN closed.compilers /\ k \in DOMAIN added.compilers /\ k \in DOMAIN outer.compilers
        /\ k \in 1 .. Me(r) - 1
    BY <1>5, <1>14
  <2>2. /\ t.compilers[k].scope_depth = closed.compilers[k].scope_depth
        /\ closed.compilers[k].scope_depth = added.compilers[k].scope_depth
        /\ added.compilers[k].scope_depth = outer.compilers[k].scope_depth
    BY <1>8, <1>11, <1>13, <2>1 DEF SameDepths
  <2> QED
    BY <1>3, <1>5, <2>1, <2>2
<1> QED
  BY <1>1, <1>3, <1>4, <1>5, <1>7, <1>8, <1>10, <1>11, <1>12, <1>13, <1>14, <1>15

(* `end_function' keeps the invariant. *)
LEMMA EndFunctionStep ==
  ASSUME TokensOk, NEW s, NEW c, Ready(s, c), c.do = "end_function"
  PROVE  Ok(RunEndFunction(s, c))
<1>1. /\ c \in EndFunction /\ Base(s) /\ InText(s) /\ c.index \in 0 .. UINT8_MAX
      /\ After(Depths(s), c) \in DepthsType
  BY KindFacts, ShapeFacts DEF Ready
<1>2. c \notin ExpressionCall /\ c \notin Define
  BY <1>1, KindsDiffer
<1>3. Settled(s)
  BY <1>1, <1>2 DEF Ready
<1>4. After(Depths(s), c) = Front(Depths(s))
  BY <1>1, AfterFacts
<1>5. Len(s.compilers) >= 2
  <2> DEFINE d == Depths(s)
  <2>1. d \in Seq(Nat) /\ Len(d) = Me(s) /\ Me(s) = Len(s.compilers) /\ Me(s) \in Nat \ {0}
    BY <1>1, DepthsFacts, BaseFacts DEF DepthsType
  <2> HIDE DEF d
  <2>2. Front(d) # <<>>
    BY <1>1, <1>4 DEF DepthsType, d
  <2>3. Len(d) # 1
    <3> SUFFICES ASSUME Len(d) = 1 PROVE FALSE
      OBVIOUS
    <3>1. Front(d) = SubSeq(d, 1, 0)
      BY DEF Front
    <3> QED
      BY <2>1, <2>2, <3>1, SubSeqEmpty
  <2> DEFINE n == Len(s.compilers)
  <2>4. n \in Nat \ {0} /\ n # 1
    BY <2>1, <2>3
  <2> HIDE DEF n
  <2>5. n >= 2
    BY <2>4
  <2> QED
    BY <2>5 DEF n
<1> DEFINE inner == This(s)
           u == Closed(s, c.index)
           t == TakeOver(u, inner)
<1>6. RunEndFunction(s, c) = t
  BY DEF RunEndFunction, Closed, Left
<1>7. /\ Base(u) /\ Settled(u) /\ u.work = s.work /\ s.errors \subseteq u.errors
      /\ Me(u) = Me(s) - 1
      /\ \A k \in 1 .. Me(u) : u.compilers[k].scope_depth = s.compilers[k].scope_depth
  BY <1>1, <1>3, <1>5, ClosedFacts
<1> HIDE DEF u
<1>8. inner \in CompilerType /\ (inner.panic_mode \/ inner.had_error => u.errors # {})
  <2>1. inner \in CompilerType /\ Me(s) \in DOMAIN s.compilers /\ inner = s.compilers[Me(s)]
    BY <1>1, BaseFacts
  <2>2. inner.panic_mode \/ inner.had_error => s.errors # {}
    BY <1>1, <2>1 DEF Base, CompilerOk
  <2> QED
    BY <1>7, <2>1, <2>2
<1>9. /\ Base(t) /\ t.work = u.work /\ SameScopes(u, t)
      /\ This(t).current = inner.current /\ This(t).previous = inner.previous
  BY <1>7, <1>8, TakeOverFacts
<1> HIDE DEF t
<1>10. SameDepths(u, t) /\ Settled(t)
  BY <1>7, <1>9, ScopesKept
<1>11. InText(t)
  BY <1>1, <1>9 DEF InText
<1>12. Depths(t) = After(Depths(s), c)
  <2>1. Depths(t) = Depths(u)
    BY <1>7, <1>9, <1>10, SameDepthsFacts
  <2>2. Depths(u) = Front(Depths(s))
    BY <1>1, <1>7, FrontDepths
  <2> QED
    BY <1>4, <2>1, <2>2
<1>13. Ok(t)
  BY <1>2, <1>7, <1>9, <1>10, <1>11, <1>12, PushNone
<1> QED
  BY <1>6, <1>13

(* Lexemes of fixed spelling are neither literals nor the end of the file. *)
NoLiterals(table) == \A l \in DOMAIN table : table[l] \notin {"NUMBER", "STRING", "LOX_EOF"}

(* A table of lexemes of fixed spelling. *)
LEMMA TableFacts ==
  ASSUME NEW pairs, \A p \in pairs : p[2] \notin {"NUMBER", "STRING", "LOX_EOF"}
  PROVE  NoLiterals(Table(pairs))
<1> DEFINE table == Table(pairs)
           P(l) == CHOOSE p \in pairs : p[1] = l
<1>1. DOMAIN table = {p[1] : p \in pairs} /\ \A l \in DOMAIN table : table[l] = P(l)[2]
  BY DEF Table
<1> SUFFICES ASSUME NEW l \in DOMAIN table PROVE table[l] \notin {"NUMBER", "STRING", "LOX_EOF"}
  BY DEF NoLiterals
<1>2. \E p \in pairs : p[1] = l
  BY <1>1
<1>3. P(l) \in pairs
  BY <1>2
<1> HIDE DEF table, P
<1> QED
  BY <1>1, <1>3

(* Punctuation and keywords. *)
LEMMA FixedTypeFacts == NoLiterals(FixedType)
<1>1. NoLiterals(PunctuationType)
  <2> DEFINE Fine(p) == p[2] \notin {"NUMBER", "STRING", "LOX_EOF"}
  <2>1. \A l, type : type \notin {"NUMBER", "STRING", "LOX_EOF"} => Fine(<<l, type>>)
    OBVIOUS
  <2>2. \A pairs : (\A p \in pairs : Fine(p)) => NoLiterals(Table(pairs))
    BY TableFacts
  <2> HIDE DEF Fine
  <2> QED
    BY <2>1, <2>2, Zenon DEF PunctuationType
<1>2. NoLiterals(KeywordType)
  BY TableFacts DEF KeywordType
<1> QED
  BY <1>1, <1>2 DEF FixedType, NoLiterals

(* Scanner gives the types of literals to literals only. *)
LEMMA TypeOfFacts ==
  ASSUME NEW lexeme
  PROVE  /\ TypeOf(lexeme) \in TokenType
         /\ TypeOf(lexeme) = "NUMBER" => lexeme \in DOMAIN NumberValue
         /\ TypeOf(lexeme) = "STRING" => lexeme \in DOMAIN StringValue
<1> DEFINE type == TypeOf(lexeme)
<1>1. type = CASE lexeme \in DOMAIN FixedType   -> FixedType[lexeme]
               [] lexeme \in DOMAIN NumberValue -> "NUMBER"
               [] lexeme \in DOMAIN StringValue -> "STRING"
               [] OTHER                         -> "IDENTIFIER"
  BY DEF TypeOf
<1> HIDE DEF type
<1>2. \/ type = FixedType[lexeme] /\ lexeme \in DOMAIN FixedType
      \/ type = "NUMBER" /\ lexeme \in DOMAIN NumberValue
      \/ type = "STRING" /\ lexeme \in DOMAIN StringValue
      \/ type = "IDENTIFIER"
  BY <1>1
<1>3. lexeme \in DOMAIN FixedType => /\ FixedType[lexeme] \notin {"NUMBER", "STRING"}
                                    /\ FixedType[lexeme] \in TokenType
  BY FixedTypeFacts DEF NoLiterals, TokenType
<1> QED
  BY <1>2, <1>3 DEF TokenType, type

(* What Scanner makes of a source is a text: tokens up to one end marker. *)
LEMMA TokenizeFacts ==
  ASSUME NEW source \in Sources, tokens = Tokenize(source)
  PROVE  TokensOk
<1> DEFINE n == Len(source)
           T == [type : TokenType, lexeme : Lexeme]
           read == [i \in DOMAIN source |-> [type |-> TypeOf(source[i]), lexeme |-> source[i]]]
           end == [type |-> "LOX_EOF", lexeme |-> ""]
<1>0. source \in Seq(Range(source))
  BY SourcesAssumption
<1>1. source \in Seq(Range(source)) /\ n \in Nat /\ DOMAIN source = 1 .. n
  BY <1>0, LenProperties
<1>2. tokens = Append(read, end)
  BY DEF Tokenize
<1>3. \A i \in 1 .. n : source[i] \in Lexeme
  <2> TAKE i \in 1 .. n
  <2>1. source[i] \in Range(source)
    BY <1>1 DEF Range
  <2>2. source[i] \in UNION {Range(x) : x \in Sources}
    BY <2>1
  <2> QED
    BY <2>2 DEF Lexeme
<1>4. \A i \in 1 .. n : read[i] = [type |-> TypeOf(source[i]), lexeme |-> source[i]]
  BY <1>1
<1>5. DOMAIN read = 1 .. n /\ read = [i \in 1 .. n |-> read[i]]
  BY <1>1
<1> HIDE DEF read, n
<1>6. \A i \in 1 .. n : /\ read[i] \in T
                        /\ read[i].type = "NUMBER" => read[i].lexeme \in DOMAIN NumberValue
                        /\ read[i].type = "STRING" => read[i].lexeme \in DOMAIN StringValue
  <2> TAKE i \in 1 .. n
  <2> DEFINE x == source[i]
             type == TypeOf(x)
  <2>1. /\ type \in TokenType
        /\ type = "NUMBER" => x \in DOMAIN NumberValue
        /\ type = "STRING" => x \in DOMAIN StringValue
    BY TypeOfFacts
  <2>2. x \in Lexeme /\ read[i] = [type |-> type, lexeme |-> x]
    BY <1>3, <1>4
  <2> HIDE DEF x, type
  <2> QED
    BY <2>1, <2>2
<1>7. end \in T /\ end.type = "LOX_EOF"
  <2> DEFINE none == ""
             type == "LOX_EOF"
  <2>1. none \in Lexeme /\ type \in TokenType
    BY DEF Lexeme, TokenType
  <2>2. end = [type |-> type, lexeme |-> none]
    OBVIOUS
  <2> HIDE DEF none, end
  <2> QED
    BY <2>1, <2>2
<1> HIDE DEF end, T
<1>8. read \in Seq(T) /\ Len(read) = n
  <2>1. IsSeq(read) /\ Len(read) = n
    BY <1>1, <1>5, FunctionIsSeq
  <2> QED
    BY <1>6, <2>1, SeqOfType
<1>9. /\ tokens \in Seq(T) /\ Len(tokens) = n + 1
      /\ \A i \in 1 .. n : tokens[i] = read[i]
      /\ tokens[n + 1] = end
  BY <1>2, <1>7, <1>8, AppendProperties
<1>10. DOMAIN tokens = 1 .. n + 1 /\ Len(tokens) >= 1
  BY <1>1, <1>9
<1>11. \A p \in 1 .. n + 1 : p \in 1 .. n \/ p = n + 1
  BY <1>1
<1>12. \A p \in DOMAIN tokens : /\ tokens[p].type = "NUMBER" => tokens[p].lexeme \in DOMAIN NumberValue
                                /\ tokens[p].type = "STRING" => tokens[p].lexeme \in DOMAIN StringValue
  BY <1>6, <1>7, <1>9, <1>10, <1>11
<1> QED
  BY <1>7, <1>9, <1>10, <1>12 DEF TokensOk, T

(* The state of compilation, as the procedures take it. *)
Now == [compilers |-> compilers, functions |-> functions, errors |-> errors, work |-> work]

(* The same, with the next call taken away. *)
Popped == [compilers |-> compilers, functions |-> functions, errors |-> errors, work |-> Tail(work)]

(* The step that leads to the state s. *)
Becomes(s) ==
  /\ compilers' = s.compilers
  /\ functions' = s.functions
  /\ errors' = s.errors
  /\ work' = s.work
  /\ tokens' = tokens

(* The inductive invariant. *)
IInv == TokensOk /\ Ok(Now)

(* The parts of the state. *)
LEMMA NowFacts ==
  /\ Now.compilers = compilers /\ Now.functions = functions /\ Now.errors = errors /\ Now.work = work
  /\ Me(Now) = Len(compilers) /\ This(Now) = compilers[Len(compilers)]
BY DEF Now, Me, This

(* While the invariant holds, the next call may be made. *)
LEMMA PoppedFacts ==
  ASSUME Ok(Now), work # <<>>
  PROVE  Ready(Popped, Head(work))
<1>1. Popped = WithWork(Now, Tail(Now.work))
  BY DEF Popped, WithWork, Now
<1>2. Now.work = work
  BY NowFacts
<1> QED
  BY <1>1, <1>2, PopFacts

(* The procedure that each call stands for. *)
LEMMA NextCalls ==
  ASSUME Next
  PROVE  LET c == Head(work)
         IN  /\ work # <<>>
             /\ \/ c.do = "consume" /\ Becomes(RunConsume(Popped, c))
                \/ c.do = "emit" /\ Becomes(RunEmit(Popped, c))
                \/ c.do = "patch_jump" /\ Becomes(RunPatchJump(Popped, c))
                \/ c.do = "end_scope" /\ Becomes(RunEndScope(Popped, c))
                \/ c.do = "define_variable" /\ Becomes(RunDefineVariable(Popped, c))
                \/ c.do = "compile" /\ Becomes(RunCompile(Popped, c))
                \/ c.do = "end_compiler" /\ Becomes(RunEndCompiler(Popped, c))
                \/ c.do = "declaration" /\ Becomes(RunDeclaration(Popped, c))
                \/ c.do = "synchronize" /\ Becomes(RunSynchronize(Popped, c))
                \/ c.do = "var_declaration" /\ Becomes(RunVarDeclaration(Popped, c))
                \/ c.do = "function_declaration" /\ Becomes(RunFunctionDeclaration(Popped, c))
                \/ c.do = "parameter" /\ Becomes(RunParameter(Popped, c))
                \/ c.do = "function_body" /\ Becomes(RunFunctionBody(Popped, c))
                \/ c.do = "end_function" /\ Becomes(RunEndFunction(Popped, c))
                \/ c.do = "statement" /\ Becomes(RunStatement(Popped, c))
                \/ c.do = "expression_statement" /\ Becomes(RunExpressionStatement(Popped, c))
                \/ c.do = "block" /\ Becomes(RunBlock(Popped, c))
                \/ c.do = "if_then" /\ Becomes(RunIfThen(Popped, c))
                \/ c.do = "if_else" /\ Becomes(RunIfElse(Popped, c))
                \/ c.do = "while_body" /\ Becomes(RunWhileBody(Popped, c))
                \/ c.do = "end_loop" /\ Becomes(RunEndLoop(Popped, c))
                \/ c.do = "for_statement" /\ Becomes(RunForStatement(Popped, c))
                \/ c.do = "for_condition" /\ Becomes(RunForCondition(Popped, c))
                \/ c.do = "for_exit" /\ Becomes(RunForExit(Popped, c))
                \/ c.do = "for_increment" /\ Becomes(RunForIncrement(Popped, c))
                \/ c.do = "for_resume" /\ Becomes(RunForResume(Popped, c))
                \/ c.do = "for_body" /\ Becomes(RunForBody(Popped, c))
                \/ c.do = "return_statement" /\ Becomes(RunReturnStatement(Popped, c))
                \/ c.do = "parse_precedence" /\ Becomes(RunParsePrecedence(Popped, c))
                \/ c.do = "infix" /\ Becomes(RunInfix(Popped, c))
                \/ c.do = "argument" /\ Becomes(RunArgument(Popped, c))
                \/ c.do = "next_argument" /\ Becomes(RunNextArgument(Popped, c))
                \/ c.do = "end_call" /\ Becomes(RunEndCall(Popped, c))
BY DEF Next, Step, Becomes, Popped

(* The invariant holds of the next state if it holds of what the call returns. *)
LEMMA BecomesOk ==
  ASSUME TokensOk, NEW s, Ok(s), Becomes(s)
  PROVE  IInv'
<1>1. s \in [compilers : Seq(CompilerType), functions : Seq(FunctionType),
             errors : {s.errors}, work : Seq(CallType)]
  BY BaseFacts DEF Ok, IsState
<1>2. s = [compilers |-> compilers', functions |-> functions', errors |-> errors', work |-> work']
  BY <1>1 DEF Becomes
<1>3. Now' = s
  BY <1>2 DEF Now
<1>4. tokens' = tokens
  BY DEF Becomes
<1>5. TokensOk'
  BY <1>4 DEF TokensOk
<1>6. Ok(Now)'
  BY <1>3, <1>4 DEF Ok, Sited, InText
<1> QED
  BY <1>5, <1>6 DEF IInv

(* The invariant holds of a Compiler that has just been made. *)
LEMMA InitOk == Init => IInv
<1> SUFFICES ASSUME NEW source \in Sources, InitFor(source)
             PROVE  IInv
  BY DEF Init
<1> DEFINE f == NewFunction("script")
           c == NewCompiler(1, 1, 1)
           first == Call("compile")
           name == "script"
<1>1. TokensOk
  BY TokenizeFacts DEF InitFor
<1>2. /\ Now.functions = <<f>> /\ Now.compilers = <<c>> /\ Now.errors = {} /\ Now.work = <<first>>
      /\ Now = [compilers |-> <<c>>, functions |-> <<f>>, errors |-> {}, work |-> <<first>>]
  BY DEF InitFor, Now
<1>3. f \in FunctionType /\ f.upvalue_count = 0 /\ f.constants = <<>>
  <2>1. name \in Lexeme \cup {"script"} /\ f = NewFunction(name)
    OBVIOUS
  <2> HIDE DEF f, name
  <2> QED
    BY <2>1, NewFunctionType
<1>4. Fresh(c, 1, 1, 1)
  BY NewCompilerType
<1>5. first \in Outermost /\ first \in CallType
  BY StatementCallFacts DEF CallType
<1> DEFINE s == Now
<1> HIDE DEF f, c, first, s
<1>6. /\ s.functions \in Seq(FunctionType) /\ DOMAIN s.functions = {1} /\ s.functions[1] = f
  BY <1>2, <1>3 DEF s
<1>7. /\ s.compilers \in Seq(CompilerType) /\ DOMAIN s.compilers = {1} /\ s.compilers[1] = c
      /\ Len(s.compilers) = 1 /\ s.compilers # <<>> /\ Me(s) = 1 /\ This(s) = c
  BY <1>2, <1>4 DEF Fresh, Me, This, s
<1>8. /\ s.work \in Seq(CallType) /\ Len(s.work) = 1 /\ DOMAIN s.work = {1} /\ s.work[1] = first
  BY <1>2, <1>5 DEF s
<1>9. Base(s)
  <2>1. IsState(s)
    BY <1>2, <1>6, <1>7, <1>8 DEF IsState, s
  <2>2. CompilerOk(s, 1)
    <3>1. c.function \in DOMAIN s.functions /\ s.functions[c.function].upvalue_count = 0
      BY <1>3, <1>4, <1>6 DEF Fresh
    <3>2. Len(c.locals) \in 1 .. UINT8_MAX + 1 /\ Len(c.upvalues) = 0
      BY <1>4, ByteAssumption DEF Fresh
    <3>3. \A i \in DOMAIN c.locals : DepthOk(i, c.locals[i].depth)
      BY <1>4 DEF Fresh, DepthOk
    <3>4. ~c.panic_mode /\ ~c.had_error /\ Len(c.locals) = 1
      BY <1>4 DEF Fresh
    <3> QED
      BY <1>7, <3>1, <3>2, <3>3, <3>4 DEF CompilerOk
  <2>3. FunctionOk(s, 1)
    <3>1. Len(f.constants) = 0 /\ DOMAIN f.constants = {}
      BY <1>3
    <3> QED
      BY <1>3, <1>6, <3>1, ByteAssumption DEF FunctionOk
  <2>4. Resolved(s)
    BY <1>7 DEF Resolved
  <2> QED
    BY <1>6, <1>7, <2>1, <2>2, <2>3, <2>4 DEF Base
<1>10. Settled(s)
  BY <1>4, <1>7 DEF Settled, Fresh
<1>11. NestOk(Depths(s), s.work)
  <2> DEFINE zero == <<0>>
             nest == [i \in 1 .. 2 |-> zero]
  <2>1. zero \in DepthsType
    <3>1. zero \in Seq(Nat) /\ Len(zero) = 1
      OBVIOUS
    <3> QED
      BY <3>1 DEF DepthsType
  <2>2. Depths(s) = zero
    <3>1. Depths(s) = [k \in {1} |-> 0]
      BY <1>4, <1>7 DEF Depths, Fresh
    <3> QED
      BY <3>1
  <2> HIDE DEF zero
  <2>3. nest \in [1 .. 2 -> DepthsType] /\ nest[1] = zero /\ nest[2] = zero
    BY <2>1
  <2> HIDE DEF nest
  <2>4. After(zero, first) = zero
    BY <1>5, AfterFacts
  <2>5. Len(s.work) + 1 = 2 /\ 1 .. Len(s.work) = {1}
    BY <1>8
  <2>6. \A i \in 1 .. Len(s.work) : nest[i + 1] = After(nest[i], s.work[i])
    BY <1>8, <2>3, <2>4, <2>5
  <2> QED
    BY <2>2, <2>3, <2>5, <2>6 DEF NestOk, zero
<1>12. Ordered(s.work) /\ Scoped(s, s.work)
  <2>1. first \notin Define /\ first \notin BeginFunction
    BY <1>5, KindsDiffer
  <2>2. \A i \in DOMAIN s.work : s.work[i] \notin Define /\ s.work[i] \notin BeginFunction
    BY <1>8, <2>1
  <2>3. ~Defining(s.work)
    BY <2>2 DEF Defining
  <2> QED
    BY <1>8, <1>10, <2>2, <2>3 DEF Ordered, Scoped
<1>13. Sited(s, s.work)
  <2>1. InText(s)
    BY <1>1, <1>4, <1>7 DEF InText, TokensOk, Fresh
  <2>2. s.work[1] \notin BeginFunction
    BY <1>5, <1>8, KindsDiffer
  <2> QED
    BY <2>1, <2>2 DEF Sited
<1> QED
  BY <1>1, <1>9, <1>11, <1>12, <1>13 DEF IInv, Ok, s

(* Each call keeps the invariant. *)
LEMMA NextOk == IInv /\ [Next]_vars => IInv'
<1> SUFFICES ASSUME IInv, [Next]_vars PROVE IInv'
  OBVIOUS
<1>1. CASE UNCHANGED vars
  <2>1. Becomes(Now)
    BY <1>1 DEF vars, Becomes, Now
  <2> QED
    BY <2>1, BecomesOk DEF IInv
<1>2. CASE Next
  <2> DEFINE s == Popped
             c == Head(work)
  <2>1. TokensOk /\ Ready(s, c)
    BY <1>2, NextCalls, PoppedFacts DEF IInv
  <2>2. c.do = "consume" => Ok(RunConsume(s, c))
    BY <2>1, ConsumeStep
  <2>3. c.do = "emit" => Ok(RunEmit(s, c))
    BY <2>1, EmitStep
  <2>4. c.do = "patch_jump" => Ok(RunPatchJump(s, c))
    BY <2>1, PatchJumpStep
  <2>5. c.do = "end_scope" => Ok(RunEndScope(s, c))
    BY <2>1, EndScopeStep
  <2>6. c.do = "define_variable" => Ok(RunDefineVariable(s, c))
    BY <2>1, DefineVariableStep
  <2>7. c.do = "compile" => Ok(RunCompile(s, c))
    BY <2>1, CompileStep
  <2>8. c.do = "end_compiler" => Ok(RunEndCompiler(s, c))
    BY <2>1, EndCompilerStep
  <2>9. c.do = "declaration" => Ok(RunDeclaration(s, c))
    BY <2>1, DeclarationStep
  <2>10. c.do = "synchronize" => Ok(RunSynchronize(s, c))
    BY <2>1, SynchronizeStep
  <2>11. c.do = "var_declaration" => Ok(RunVarDeclaration(s, c))
    BY <2>1, VarDeclarationStep
  <2>12. c.do = "function_declaration" => Ok(RunFunctionDeclaration(s, c))
    BY <2>1, FunctionDeclarationStep
  <2>13. c.do = "parameter" => Ok(RunParameter(s, c))
    BY <2>1, ParameterStep
  <2>14. c.do = "function_body" => Ok(RunFunctionBody(s, c))
    BY <2>1, FunctionBodyStep
  <2>15. c.do = "end_function" => Ok(RunEndFunction(s, c))
    BY <2>1, EndFunctionStep
  <2>16. c.do = "statement" => Ok(RunStatement(s, c))
    BY <2>1, StatementStepMade
  <2>17. c.do = "expression_statement" => Ok(RunExpressionStatement(s, c))
    BY <2>1, ExpressionStatementStep
  <2>18. c.do = "block" => Ok(RunBlock(s, c))
    BY <2>1, BlockStep
  <2>19. c.do = "if_then" => Ok(RunIfThen(s, c))
    BY <2>1, IfThenStep
  <2>20. c.do = "if_else" => Ok(RunIfElse(s, c))
    BY <2>1, IfElseStep
  <2>21. c.do = "while_body" => Ok(RunWhileBody(s, c))
    BY <2>1, WhileBodyStep
  <2>22. c.do = "end_loop" => Ok(RunEndLoop(s, c))
    BY <2>1, EndLoopStep
  <2>23. c.do = "for_statement" => Ok(RunForStatement(s, c))
    BY <2>1, ForStatementStep
  <2>24. c.do = "for_condition" => Ok(RunForCondition(s, c))
    BY <2>1, ForConditionStep
  <2>25. c.do = "for_exit" => Ok(RunForExit(s, c))
    BY <2>1, ForExitStep
  <2>26. c.do = "for_increment" => Ok(RunForIncrement(s, c))
    BY <2>1, ForIncrementStep
  <2>27. c.do = "for_resume" => Ok(RunForResume(s, c))
    BY <2>1, ForResumeStep
  <2>28. c.do = "for_body" => Ok(RunForBody(s, c))
    BY <2>1, ForBodyStep
  <2>29. c.do = "return_statement" => Ok(RunReturnStatement(s, c))
    BY <2>1, ReturnStatementStep
  <2>30. c.do = "parse_precedence" => Ok(RunParsePrecedence(s, c))
    BY <2>1, ParsePrecedenceStep
  <2>31. c.do = "infix" => Ok(RunInfix(s, c))
    BY <2>1, InfixStep
  <2>32. c.do = "argument" => Ok(RunArgument(s, c))
    BY <2>1, ArgumentStep
  <2>33. c.do = "next_argument" => Ok(RunNextArgument(s, c))
    BY <2>1, NextArgumentStep
  <2>34. c.do = "end_call" => Ok(RunEndCall(s, c))
    BY <2>1, EndCallStep
  <2> HIDE DEF s, c
  <2>35. \/ c.do = "consume" /\ Becomes(RunConsume(s, c))
         \/ c.do = "emit" /\ Becomes(RunEmit(s, c))
         \/ c.do = "patch_jump" /\ Becomes(RunPatchJump(s, c))
         \/ c.do = "end_scope" /\ Becomes(RunEndScope(s, c))
         \/ c.do = "define_variable" /\ Becomes(RunDefineVariable(s, c))
         \/ c.do = "compile" /\ Becomes(RunCompile(s, c))
         \/ c.do = "end_compiler" /\ Becomes(RunEndCompiler(s, c))
         \/ c.do = "declaration" /\ Becomes(RunDeclaration(s, c))
         \/ c.do = "synchronize" /\ Becomes(RunSynchronize(s, c))
         \/ c.do = "var_declaration" /\ Becomes(RunVarDeclaration(s, c))
         \/ c.do = "function_declaration" /\ Becomes(RunFunctionDeclaration(s, c))
         \/ c.do = "parameter" /\ Becomes(RunParameter(s, c))
         \/ c.do = "function_body" /\ Becomes(RunFunctionBody(s, c))
         \/ c.do = "end_function" /\ Becomes(RunEndFunction(s, c))
         \/ c.do = "statement" /\ Becomes(RunStatement(s, c))
         \/ c.do = "expression_statement" /\ Becomes(RunExpressionStatement(s, c))
         \/ c.do = "block" /\ Becomes(RunBlock(s, c))
         \/ c.do = "if_then" /\ Becomes(RunIfThen(s, c))
         \/ c.do = "if_else" /\ Becomes(RunIfElse(s, c))
         \/ c.do = "while_body" /\ Becomes(RunWhileBody(s, c))
         \/ c.do = "end_loop" /\ Becomes(RunEndLoop(s, c))
         \/ c.do = "for_statement" /\ Becomes(RunForStatement(s, c))
         \/ c.do = "for_condition" /\ Becomes(RunForCondition(s, c))
         \/ c.do = "for_exit" /\ Becomes(RunForExit(s, c))
         \/ c.do = "for_increment" /\ Becomes(RunForIncrement(s, c))
         \/ c.do = "for_resume" /\ Becomes(RunForResume(s, c))
         \/ c.do = "for_body" /\ Becomes(RunForBody(s, c))
         \/ c.do = "return_statement" /\ Becomes(RunReturnStatement(s, c))
         \/ c.do = "parse_precedence" /\ Becomes(RunParsePrecedence(s, c))
         \/ c.do = "infix" /\ Becomes(RunInfix(s, c))
         \/ c.do = "argument" /\ Becomes(RunArgument(s, c))
         \/ c.do = "next_argument" /\ Becomes(RunNextArgument(s, c))
         \/ c.do = "end_call" /\ Becomes(RunEndCall(s, c))
    BY <1>2, NextCalls DEF s, c
  <2>36. PICK t : Ok(t) /\ Becomes(t)
    BY <2>2, <2>3, <2>4, <2>5, <2>6, <2>7, <2>8, <2>9, <2>10, <2>11, <2>12, <2>13, <2>14,
       <2>15, <2>16, <2>17, <2>18, <2>19, <2>20, <2>21, <2>22, <2>23, <2>24, <2>25, <2>26,
       <2>27, <2>28, <2>29, <2>30, <2>31, <2>32, <2>33, <2>34, <2>35
  <2> QED
    BY <2>1, <2>36, BecomesOk
<1> QED
  BY <1>1, <1>2

(* The inductive invariant holds at every step of the compilation of every source. *)
THEOREM CompilerInvariant == Spec => []IInv
<1>1. Init => IInv
  BY InitOk
<1>2. IInv /\ [Next]_vars => IInv'
  BY NextOk
<1> QED
  BY <1>1, <1>2, PTL DEF Spec

(* At every step of the compilation of every source, the tokens, the compilers and the
   functions under compilation have the types that the C++ declarations give them. *)
THEOREM CompilerTypes == Spec => []TypeOK
<1>1. IInv => TypeOK
  <2> SUFFICES ASSUME IInv PROVE TypeOK
    OBVIOUS
  <2>1. TokensOk /\ Base(Now)
    BY DEF IInv, Ok
  <2>2. /\ DOMAIN compilers = DOMAIN Now.compilers /\ DOMAIN functions = DOMAIN Now.functions
        /\ \A k \in DOMAIN compilers : compilers[k] \in CompilerType /\ compilers[k].function \in DOMAIN functions
        /\ \A f \in DOMAIN functions : functions[f] \in FunctionType
    BY <2>1, NowFacts, BaseFacts
  <2>3. ASSUME NEW k \in DOMAIN compilers
        PROVE  /\ compilers[k].function \in DOMAIN functions
               /\ compilers[k].locals \in
                    Seq([name : Lexeme, depth : Int, ready : BOOLEAN, is_captured : BOOLEAN])
               /\ compilers[k].upvalues \in Seq([index : 0 .. UINT8_MAX, is_local : BOOLEAN])
               /\ {compilers[k].had_error, compilers[k].panic_mode} \subseteq BOOLEAN
               /\ compilers[k].scope_depth \in Nat
    BY <2>2 DEF CompilerType, LocalType, UpvalueType
  <2>4. ASSUME NEW f \in DOMAIN functions
        PROVE  /\ functions[f].arity \in 0 .. UINT8_MAX
               /\ functions[f].upvalue_count \in Nat
               /\ \A i \in DOMAIN functions[f].code :
                    functions[f].code[i] \in 0 .. UINT8_MAX \cup {Code[op] : op \in OpCode}
    <3>1. functions[f] \in FunctionType
      BY <2>2
    <3>2. functions[f].code \in Seq(Byte)
      BY <3>1 DEF FunctionType
    <3>3. \A i \in DOMAIN functions[f].code : functions[f].code[i] \in Byte
      <4> DEFINE code == functions[f].code
      <4> HIDE DEF code
      <4>1. code \in Seq(Byte) => \A i \in DOMAIN code : code[i] \in Byte
        OBVIOUS
      <4> QED
        BY <3>2, <4>1 DEF code
    <3> QED
      BY <3>1, <3>3 DEF FunctionType, Byte
  <2> QED
    BY <2>1, <2>3, <2>4 DEF TypeOK, TokensOk
<1> QED
  BY <1>1, CompilerInvariant, PTL

(* However broken the source, no procedure but the outermost is called behind the end of the
   text: tokens[current] exists. *)
THEOREM TokensExist == Spec => []ReadsInBounds
<1>1. IInv => ReadsInBounds
  <2> SUFFICES ASSUME IInv, ~Done, Head(work).do \notin {"compile", "end_compiler"}
               PROVE  This([compilers |-> compilers]).current <= Len(tokens)
    BY DEF ReadsInBounds
  <2>1. work # <<>> /\ Sited(Now, work) /\ work \in Seq(CallType) /\ tokens \in Seq([type : TokenType, lexeme : Lexeme])
    BY NowFacts, BaseFacts DEF IInv, Ok, Done, IsState, TokensOk
  <2>2. Head(work) = work[1]
    BY <2>1
  <2>3. InText(Now)
    BY <2>1, <2>2 DEF Sited
  <2>4. This(Now) = This([compilers |-> compilers])
    BY DEF This, Me, Now
  <2>5. This(Now).current \in 1 .. Len(tokens)
    BY <2>3 DEF InText
  <2>6. Len(tokens) \in Nat
    BY <2>1
  <2> QED
    BY <2>4, <2>5, <2>6
<1> QED
  BY <1>1, CompilerInvariant, PTL

(* At every step, and for any depth of nesting, an upvalue of a function under compilation is a
   captured local of the next function out, or one of its upvalues, unless an error has been
   reported. *)
THEOREM CapturesResolve == Spec => []UpvaluesResolve
<1>1. IInv => UpvaluesResolve
  BY NowFacts DEF IInv, Ok, Base, Resolved, UpvalueResolves, UpvaluesResolve
<1> QED
  BY <1>1, CompilerInvariant, PTL

(* Constants, locals and upvalues have indices of one byte, unless an error has been reported,
   and each function counts the upvalues of its compiler. *)
THEOREM IndicesAreBytes == Spec => []IndicesFit
<1>1. IInv => IndicesFit
  <2> SUFFICES ASSUME IInv, errors = {}
               PROVE  /\ \A f \in DOMAIN functions :
                           /\ Len(functions[f].constants) <= UINT8_MAX + 1
                           /\ functions[f].upvalue_count <= UINT8_MAX + 1
                      /\ \A k \in DOMAIN compilers :
                           /\ Len(compilers[k].locals) <= UINT8_MAX + 1
                           /\ Len(compilers[k].upvalues) =
                                functions[compilers[k].function].upvalue_count
    BY DEF IndicesFit
  <2>1. \A f \in DOMAIN functions : FunctionOk(Now, f)
    BY NowFacts DEF IInv, Ok, Base
  <2>2. \A k \in DOMAIN compilers : CompilerOk(Now, k)
    BY NowFacts DEF IInv, Ok, Base
  <2>3. \A f \in DOMAIN functions :
          /\ Len(functions[f].constants) <= UINT8_MAX + 1
          /\ functions[f].upvalue_count <= UINT8_MAX + 1
    BY <2>1, NowFacts DEF FunctionOk
  <2>4. ASSUME NEW k \in DOMAIN compilers
        PROVE  /\ Len(compilers[k].locals) <= UINT8_MAX + 1
               /\ Len(compilers[k].upvalues) = functions[compilers[k].function].upvalue_count
    <3>1. Len(compilers[k].locals) \in 1 .. UINT8_MAX + 1
      BY <2>2, NowFacts DEF CompilerOk
    <3>2. Len(compilers[k].upvalues) = functions[compilers[k].function].upvalue_count
      BY <2>2, NowFacts DEF CompilerOk
    <3> QED
      BY <3>1, <3>2, ByteAssumption
  <2> QED
    BY <2>3, <2>4
<1> QED
  BY <1>1, CompilerInvariant, PTL

(* When compile returns, whatever the errors, one compiler is left, in its outermost scope,
   with the local that nobody can name. *)
THEOREM ScopesAreLeft == Spec => []ScopesBalanced
<1>1. IInv => ScopesBalanced
  <2> SUFFICES ASSUME IInv, Done
               PROVE  /\ Len(compilers) = 1
                      /\ compilers[1].scope_depth = 0
                      /\ Len(compilers[1].locals) = 1
    BY DEF ScopesBalanced
  <2> DEFINE d == Depths(Now)
             none == <<>>
  <2>1. Base(Now) /\ NestOk(d, none)
    BY NowFacts DEF IInv, Ok, Done
  <2>2. d = <<0>>
    <3>1. Len(none) = 0
      OBVIOUS
    <3> HIDE DEF d, none
    <3>2. PICK nest \in [1 .. Len(none) + 1 -> DepthsType] :
            /\ nest[1] = d
            /\ nest[Len(none) + 1] = <<0>>
      BY <2>1 DEF NestOk
    <3> QED
      BY <3>1, <3>2
  <2>3. Len(d) = Me(Now) /\ \A k \in 1 .. Me(Now) : d[k] = Now.compilers[k].scope_depth
    BY <2>1, DepthsFacts
  <2> HIDE DEF d
  <2>4. Me(Now) = 1 /\ d[1] = 0
    BY <2>2, <2>3
  <2>5. Len(compilers) = 1 /\ compilers[1].scope_depth = 0 /\ 1 \in DOMAIN compilers
    BY <2>1, <2>3, <2>4, NowFacts, BaseFacts
  <2>6. CompilerOk(Now, 1)
    BY <2>1, <2>5, NowFacts DEF Base
  <2> QED
    BY <2>5, <2>6, NowFacts DEF CompilerOk
<1> QED
  BY <1>1, CompilerInvariant, PTL

(* What a chunk contains are natural numbers. *)
LEMMA BytesAreNats == Byte \subseteq Nat
<1>1. 0 .. UINT8_MAX \subseteq Nat
  BY ByteAssumption
<1>2. ASSUME NEW op \in OpCode PROVE Code[op] \in Nat
  <2> DEFINE i == CHOOSE i \in DOMAIN OpCodes : OpCodes[i] = op
  <2>1. Code[op] = i - 1
    BY DEF Code
  <2>2. \E j \in DOMAIN OpCodes : OpCodes[j] = op
    BY DEF OpCode
  <2>3. i \in DOMAIN OpCodes
    BY <2>2
  <2>4. DOMAIN OpCodes \subseteq Nat \ {0}
    BY DEF OpCodes
  <2> HIDE DEF i
  <2> QED
    BY <2>1, <2>3, <2>4
<1> QED
  BY <1>1, <1>2 DEF Byte

(* What has been compiled so far is a program in the sense of VM, which assumes no more of the
   programs it executes: well formed or not, it can be interpreted. *)
THEOREM MakesPrograms == Spec => []IsProgram(functions)
<1>1. IInv => IsProgram(functions)
  <2> SUFFICES ASSUME IInv PROVE IsProgram(functions)
    OBVIOUS
  <2>1. Base(Now) /\ Now.functions = functions
    BY NowFacts DEF IInv, Ok
  <2>2. functions \in Seq(FunctionType) /\ DOMAIN functions = 1 .. Len(functions) /\ Len(functions) \in Nat
    BY <2>1, BaseFacts
  <2>3. functions \in Seq(Range(functions)) /\ 1 \in DOMAIN functions
    <3>1. functions \in Seq(Range(functions))
      <4>1. IsSeq(functions)
        BY <2>2, SeqIsSeq
      <4> QED
        BY <4>1 DEF IsSeq
    <3>2. \E f : f \in DOMAIN functions
      BY <2>1, BaseFacts
    <3> QED
      BY <2>2, <3>1, <3>2
  <2>4. ASSUME NEW f \in DOMAIN functions
        PROVE  /\ functions[f].code \in Seq(Nat)
               /\ {functions[f].arity, functions[f].upvalue_count, functions[f].lines} \subseteq Nat
               /\ functions[f].constants \in Seq(Range(functions[f].constants))
               /\ \A v \in Range(functions[f].constants) : IsConstant(functions, v)
    <3> DEFINE fun == functions[f]
               cs == fun.constants
               code == fun.code
    <3>1. fun \in FunctionType
      BY <2>2
    <3>2. FunctionOk(Now, f)
      BY <2>1 DEF Base
    <3>3. /\ code \in Seq(Byte) /\ fun.arity \in 0 .. UINT8_MAX /\ fun.upvalue_count \in Nat /\ fun.lines \in Nat
          /\ cs \in Seq(ConstantType)
      BY <3>1 DEF FunctionType
    <3>4. \A i \in DOMAIN cs : IsConstant(functions, cs[i])
      BY <2>1, <3>2 DEF FunctionOk
    <3> HIDE DEF cs, code
    <3>5. code \in Seq(Nat)
      <4>1. code \in Seq(Byte) => IsSeq(code)
        BY SeqIsSeq
      <4>2. code \in Seq(Byte) => \A i \in 1 .. Len(code) : code[i] \in Byte
        OBVIOUS
      <4> QED
        BY <3>3, <4>1, <4>2, BytesAreNats, SeqOfType
    <3>6. cs \in Seq(Range(cs))
      BY <3>3, SeqIsSeq DEF IsSeq
    <3>7. \A v \in Range(cs) : IsConstant(functions, v)
      BY <3>4 DEF Range
    <3>8. fun.arity \in Nat
      BY <3>3, ByteAssumption
    <3> QED
      BY <3>3, <3>5, <3>6, <3>7, <3>8 DEF cs, code
  <2> QED
    BY <2>3, <2>4 DEF IsProgram
<1> QED
  BY <1>1, CompilerInvariant, PTL

=============================================================================
