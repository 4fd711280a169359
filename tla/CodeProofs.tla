----------------------------- MODULE CodeProofs -----------------------------
(***************************************************************************)
(* Unless an error is reported, the functions that the compiler makes are  *)
(* well-formed: the walk over their code accepts every instruction, so     *)
(* that the machine can run it (module VMProofs).  The calls that go from  *)
(* one compiler to another are here, which declare variables and           *)
(* parameters and begin and end functions; that no call forgets an error;  *)
(* and the inductive invariant: the waiting calls fit the state, as long   *)
(* as there is no error.                                                   *)
(***************************************************************************)
EXTENDS CodeTyping

-----------------------------------------------------------------------------
(* A compiler and its function change. *)

(* The innermost compiler and its function change; jumps that wait stay. *)
LEMMA LevelTyping ==
  ASSUME NEW s, NEW t, AtTop(s, t), NEW p, Typed(s, p), NEW q,
         q.levels = [p.levels EXCEPT ![Len(p.levels)] = LevelOf(This(t))],
         q.open = p.open, q.marks \subseteq p.marks, q.temps \in Nat,
         q.fresh => Function(t).code = <<>>,
         Row(t.functions, This(t), TRUE, q.temps, q.open, q.marks),
         Outside(Function(t), Chain(s.compilers)),
         Me(s) = 1 => This(t).upvalues = This(s).upvalues /\ Function(t).arity = Function(s).arity
  PROVE  Typed(t, q) /\ More(s.functions, t.functions)
<1>1. Base(s) /\ Base(t) /\ Me(t) = Me(s)
  BY DEF AtTop
<1>2. DOMAIN s.compilers = 1 .. Me(s) /\ Me(s) \in Nat \ {0} /\ This(s) = s.compilers[Me(s)]
  BY <1>1, BaseChain
<1>3. /\ DOMAIN t.compilers = 1 .. Me(s) /\ This(t) = t.compilers[Me(s)] /\ Len(t.compilers) = Me(s)
      /\ Function(t) = t.functions[This(t).function]
  BY <1>1, BaseChain
<1>4. /\ PlanOk(s.functions, s.compilers, p) /\ Len(p.levels) = Me(s)
  BY <1>1, <1>2, TopRow
<1>5. q.levels = Levels(t.compilers)
  <2>1. p.levels = Levels(s.compilers)
    BY <1>4 DEF PlanOk
  <2>2. \A j \in 1 .. Me(s) : q.levels[j] = LevelOf(t.compilers[j])
    <3> SUFFICES ASSUME NEW j \in 1 .. Me(s) PROVE q.levels[j] = LevelOf(t.compilers[j])
      OBVIOUS
    <3>1. CASE j = Me(s)
      BY <1>2, <1>3, <1>4, <2>1, <3>1 DEF Levels
    <3>2. CASE j # Me(s)
      <4>1. Same(s.compilers[j], t.compilers[j])
        BY <1>2, <3>2 DEF AtTop
      <4>2. LevelOf(t.compilers[j]) = LevelOf(s.compilers[j])
        BY <4>1 DEF Same, LevelOf, Waits
      <4> QED
        BY <1>2, <1>4, <2>1, <3>2, <4>2 DEF Levels
    <3> QED
      BY <3>1, <3>2
  <2>3. q.levels = [j \in 1 .. Me(s) |-> q.levels[j]]
    BY <1>2, <2>1 DEF Levels
  <2>4. [j \in 1 .. Me(s) |-> q.levels[j]] = [j \in 1 .. Me(s) |-> LevelOf(t.compilers[j])]
    BY <2>2
  <2> QED
    BY <1>3, <2>3, <2>4 DEF Levels
<1>6. PlanOk(t.functions, t.compilers, q)
  <2>1. q.open \subseteq EntryType /\ q.marks \subseteq EntryType /\ \A e \in q.open \cup q.marks : e.fun \in DOMAIN s.functions
    BY <1>4 DEF PlanOk
  <2>2. DOMAIN t.functions = DOMAIN s.functions
    BY DEF AtTop
  <2>3. q.fresh => t.functions[t.compilers[Len(t.compilers)].function].code = <<>>
    BY <1>3
  <2>4. \A e \in q.marks : e.temps = 0
    BY <1>4 DEF PlanOk
  <2> QED
    BY <1>5, <2>1, <2>2, <2>3, <2>4 DEF PlanOk
<1>7. \A f : f # This(s).function => Agree(f, p, q)
  BY DEF Agree
<1> QED
  BY <1>6, <1>7, TopTyping

-----------------------------------------------------------------------------
(* Scopes are left. *)

(* The instructions for the locals behind the first of them, the last one first. *)
ExitsBy(locals, kept, bytes) ==
  /\ bytes \in Seq(Byte) /\ Len(bytes) = Len(locals) - kept
  /\ \A j \in 0 .. Len(locals) - kept - 1 :
       bytes[j + 1] = Code[ExitCode(locals[Len(locals) - j].is_captured)]

(* As end_scope makes them. *)
Closing(locals, kept, gone, ops, bytes) ==
  /\ gone = Reverse(SubSeq(locals, kept + 1, Len(locals)))
  /\ ops = [i \in DOMAIN gone |-> ScopeExitCode(gone[i])]
  /\ bytes = [i \in DOMAIN ops |-> Code[ops[i]]]

(* What is emitted for the locals that go. *)
LEMMA ExitBytes ==
  ASSUME NEW locals, locals \in Seq(LocalType), NEW kept, kept \in 1 .. Len(locals),
         NEW gone, NEW ops, NEW bytes, Closing(locals, kept, gone, ops, bytes)
  PROVE  ExitsBy(locals, kept, bytes)
<1> DEFINE n == Len(locals)
           tail == SubSeq(locals, kept + 1, n)
<1>1. n \in Nat /\ kept \in Nat /\ kept >= 1 /\ kept <= n /\ n - kept \in Nat
  OBVIOUS
<1>2. Len(tail) = n - kept /\ \A i \in 1 .. n - kept : tail[i] = locals[kept + i]
  <2> HIDE DEF n
  <2>1. \A i \in kept + 1 .. n : locals[i] \in LocalType
    BY <1>1 DEF n
  <2> QED
    BY <1>1, <2>1, SubSeqProperties DEF n
<1>3. /\ gone = Reverse(tail) /\ ops = [i \in DOMAIN gone |-> ScopeExitCode(gone[i])]
      /\ bytes = [i \in DOMAIN ops |-> Code[ops[i]]]
  BY DEF Closing
<1> HIDE DEF tail, n
<1>4. DOMAIN gone = 1 .. n - kept /\ \A i \in 1 .. n - kept : gone[i] = locals[n - i + 1]
  <2>1. gone = [i \in 1 .. n - kept |-> tail[(n - kept - i) + 1]]
    BY <1>2, <1>3 DEF Reverse
  <2> SUFFICES ASSUME NEW i \in 1 .. n - kept PROVE gone[i] = locals[n - i + 1]
    BY <2>1
  <2>2. (n - kept - i) + 1 \in 1 .. n - kept /\ kept + ((n - kept - i) + 1) = n - i + 1
    BY <1>1
  <2> QED
    BY <1>2, <2>1, <2>2
<1>5. ops \in Seq(OpCode)
  BY ScopeExitFacts DEF Closing
<1>6. bytes \in Seq(Byte)
  BY <1>3, <1>5, OpcodesFacts
<1>7. DOMAIN ops = 1 .. n - kept
  BY <1>3, <1>4
<1>8. DOMAIN bytes = 1 .. n - kept
  BY <1>3, <1>7
<1>9. Len(bytes) = n - kept
  <2> DEFINE k == n - kept
  <2>1. k \in Nat /\ DOMAIN bytes = 1 .. k
    BY <1>1, <1>8
  <2>2. bytes = [i \in 1 .. k |-> bytes[i]]
    BY <2>1, <1>3, <1>7
  <2> HIDE DEF k
  <2>3. Len(bytes) = k
    BY <2>1, <2>2, FunctionIsSeq
  <2> QED
    BY <2>3 DEF k
<1>10. ASSUME NEW j \in 0 .. n - kept - 1
       PROVE  bytes[j + 1] = Code[ExitCode(locals[n - j].is_captured)]
  <2>1. j + 1 \in 1 .. n - kept /\ n - (j + 1) + 1 = n - j
    BY <1>1
  <2>2. bytes[j + 1] = Code[ops[j + 1]] /\ ops[j + 1] = ScopeExitCode(gone[j + 1])
    BY <1>3, <1>4, <1>7, <2>1
  <2>3. gone[j + 1] = locals[n - j]
    BY <1>4, <2>1
  <2> QED
    BY <2>2, <2>3 DEF ScopeExitCode, ExitCode
<1> QED
  BY <1>6, <1>9, <1>10 DEF n, ExitsBy

(* The compiler c has the first of the locals, those of the scopes around the innermost. *)
Trims(s, kept, c) ==
  /\ kept \in 1 .. Len(This(s).locals)
  /\ c \in CompilerType /\ c.function = This(s).function /\ c.upvalues = This(s).upvalues
  /\ c.scope_depth = This(s).scope_depth - 1
  /\ c.locals \in Seq(LocalType) /\ Len(c.locals) = kept
  /\ \A i \in 1 .. kept : c.locals[i] = This(s).locals[i]
  /\ This(s).locals[kept].depth <= This(s).scope_depth - 1
  /\ \A i \in kept + 1 .. Len(This(s).locals) : This(s).locals[i].depth > This(s).scope_depth - 1

(* In t the innermost compiler is c, and the rest as in s. *)
Replaces(s, t, c) ==
  /\ Base(t) /\ t.work = s.work /\ t.functions = s.functions /\ t.errors = s.errors
  /\ Len(t.compilers) = Len(s.compilers) /\ Me(t) = Me(s) /\ This(t) = c
  /\ \A j \in DOMAIN s.compilers : t.compilers[j] = IF j = Me(s) THEN c ELSE s.compilers[j]

(* end_scope keeps these, and emits an instruction for each of the others. *)
LEMMA EndScopeForm ==
  ASSUME NEW s, Base(s), Settled(s), This(s).scope_depth >= 1
  PROVE  \E kept, c, t, bytes : /\ Trims(s, kept, c) /\ Replaces(s, t, c)
                                /\ ExitsBy(This(s).locals, kept, bytes) /\ EndScope(s) = EmitBytes(t, bytes)
<1> DEFINE k == Me(s)
           all == This(s).locals
           depth == This(s).scope_depth - 1
           kept == SelectLastInSeq(all, LAMBDA l : l.depth <= depth)
           locals == SubSeq(all, 1, kept)
           c == [This(s) EXCEPT !.scope_depth = depth, !.locals = locals]
           t == WithCompiler(s, k, c)
           gone == Reverse(SubSeq(all, kept + 1, Len(all)))
           codes == [i \in DOMAIN gone |-> ScopeExitCode(gone[i])]
           bytes == [i \in DOMAIN codes |-> Code[codes[i]]]
<1>1. /\ IsState(s) /\ k \in DOMAIN s.compilers /\ k = Len(s.compilers) /\ This(s) \in CompilerType
      /\ This(s) = s.compilers[k]
  BY BaseFacts
<1>2. /\ all \in Seq(LocalType) /\ Len(all) \in 1 .. UINT8_MAX + 1
      /\ DOMAIN all = 1 .. Len(all)
      /\ Len(all) \in Nat /\ depth \in Nat
      /\ \A i \in DOMAIN all : DepthOk(i, all[i].depth) /\ all[i].depth # -1
  BY <1>1, OwnFacts DEF Settled
<1>3. /\ kept \in 1 .. Len(all) /\ all[kept].depth <= depth
      /\ \A i \in 1 .. Len(all) : all[i].depth <= depth => i <= kept
  <2> DEFINE I == {i \in 1 .. Len(all) : all[i].depth <= depth}
  <2>1. 1 \in I
    BY <1>2 DEF DepthOk
  <2>2. kept = Max(I)
    BY <2>1 DEF SelectLastInSeq
  <2>3. Max(I) \in I /\ \A i \in I : i <= Max(I)
    <3> HIDE DEF I
    <3>1. I \in SUBSET (1 .. Len(all))
      BY DEF I
    <3> QED
      BY <1>2, <2>1, <3>1, MaxFacts
  <2> HIDE DEF kept
  <2> QED
    BY <2>2, <2>3
<1>4. EndScope(s) = EmitBytes(t, bytes)
  <2>1. t = [s EXCEPT !.compilers[Me(s)].scope_depth = depth,
                      !.compilers[Me(s)].locals = SubSeq(@, 1, kept)]
    <3> HIDE DEF kept, depth
    <3> QED
      BY <1>1 DEF IsState, WithCompiler, CompilerType
  <2> HIDE DEF t
  <2> QED
    BY <2>1 DEF EndScope, EmitAll
<1> HIDE DEF kept
<1>5. /\ locals \in Seq(LocalType)
      /\ Len(locals) = kept
      /\ DOMAIN locals = 1 .. kept
      /\ \A i \in 1 .. kept : locals[i] = all[i]
  <2>1. \A i \in 1 .. kept : all[i] \in LocalType
    BY <1>2, <1>3
  <2> QED
    BY <1>2, <1>3, <2>1, SubSeqProperties
<1>6. ExitsBy(all, kept, bytes)
  <2> HIDE DEF all
  <2>1. kept \in 1 .. Len(all) /\ all \in Seq(LocalType)
    BY <1>2, <1>3
  <2> HIDE DEF bytes, codes, gone
  <2>2. gone = Reverse(SubSeq(all, kept + 1, Len(all)))
    BY DEF gone
  <2>3. codes = [i \in DOMAIN gone |-> ScopeExitCode(gone[i])]
    BY DEF codes
  <2>4. bytes = [i \in DOMAIN codes |-> Code[codes[i]]]
    BY DEF bytes
  <2> QED
    <3>1. kept \in 1 .. Len(all)
      BY <2>1
    <3>2. all \in Seq(LocalType)
      BY <2>1
    <3>3. Closing(all, kept, gone, codes, bytes)
      BY <2>2, <2>3, <2>4 DEF Closing
    <3> QED
      BY <3>1, <3>2, <3>3, ExitBytes
<1> HIDE DEF locals, bytes, codes, gone
<1>7. /\ c \in CompilerType
      /\ c.function = This(s).function
      /\ c.scope_depth = depth
      /\ c.upvalues = This(s).upvalues
      /\ c.locals = locals
      /\ c.panic_mode = This(s).panic_mode
      /\ c.had_error = This(s).had_error
  <2> HIDE DEF depth
  <2> QED
    BY <1>1, <1>2, <1>5 DEF CompilerType
<1>8. depth = 0 => kept = 1
  <2> SUFFICES ASSUME depth = 0, kept # 1 PROVE FALSE
    OBVIOUS
  <2>1. kept \in DOMAIN all /\ all[kept].depth <= 0
    BY <1>2, <1>3
  <2>2. DepthOk(kept, all[kept].depth) /\ all[kept].depth # -1
    BY <1>2, <2>1
  <2>3. all[kept].depth \in Int
    <3>1. all[kept] \in LocalType
      BY <1>2, <2>1
    <3> QED
      BY <3>1 DEF LocalType
  <2> HIDE DEF all, depth
  <2> QED
    BY <2>1, <2>2, <2>3 DEF DepthOk
<1> HIDE DEF c
<1>9. /\ Base(t)
      /\ t.work = s.work /\ t.functions = s.functions /\ t.errors = s.errors
      /\ Len(t.compilers) = Len(s.compilers)
      /\ Me(t) = Me(s)
      /\ This(t) = c
      /\ \A j \in DOMAIN s.compilers : t.compilers[j] = IF j = Me(s) THEN c ELSE s.compilers[j]
  <2>1. \A i \in DOMAIN c.locals : DepthOk(i, c.locals[i].depth)
    BY <1>2, <1>3, <1>5, <1>7
  <2>2. Len(c.locals) \in 1 .. UINT8_MAX + 1 /\ (c.scope_depth = 0 => Len(c.locals) = 1)
    <3>1. Len(c.locals) = kept /\ c.scope_depth = depth
      BY <1>5, <1>7
    <3>2. kept \in 1 .. UINT8_MAX + 1
      <4> HIDE DEF all
      <4> QED
        BY <1>2, <1>3, ByteAssumption
    <3> QED
      BY <1>8, <3>1, <3>2
  <2> QED
    BY <1>7, <2>1, <2>2, LocalsChange
<1> HIDE DEF t
<1>10. \A i \in kept + 1 .. Len(all) : all[i].depth > depth
  <2> SUFFICES ASSUME NEW i \in kept + 1 .. Len(all) PROVE all[i].depth > depth
    OBVIOUS
  <2>1. i \in 1 .. Len(all) /\ i > kept
    <3> HIDE DEF all
    <3> QED
      BY <1>2, <1>3
  <2>2. ~(all[i].depth <= depth)
    <3>1. kept \in Int /\ i \in Int
      BY <1>2, <1>3
    <3>2. ~(i <= kept)
      BY <2>1, <3>1
    <3> QED
      BY <1>3, <2>1, <3>2
  <2>3. all[i].depth \in Int
    <3>1. all[i] \in LocalType
      BY <1>2, <2>1
    <3> QED
      BY <3>1 DEF LocalType
  <2> HIDE DEF all, depth
  <2> QED
    BY <1>2, <2>2, <2>3
<1>11. Trims(s, kept, c)
  BY <1>3, <1>5, <1>7, <1>10 DEF Trims
<1>12. Replaces(s, t, c)
  BY <1>9 DEF Replaces
<1> QED
  BY <1>4, <1>6, <1>11, <1>12

(* Entries of the scopes around know only of locals that are kept. *)
LEMMA CountedKept ==
  ASSUME NEW s, Base(s), Settled(s), NEW kept, NEW c, Trims(s, kept, c),
         NEW e, e \in EntryType, CountedBy(This(s), e), e.depth # This(s).scope_depth
  PROVE  CountedBy(c, e) /\ e.locals <= kept
<1> DEFINE all == This(s).locals
           n == Len(all)
           d == This(s).scope_depth
<1>1. all \in Seq(LocalType) /\ n \in Nat /\ DOMAIN all = 1 .. n /\ d \in Nat
  BY OwnFacts
<1>2. /\ kept \in 1 .. n /\ Len(c.locals) = kept /\ c.scope_depth = d - 1
      /\ \A i \in 1 .. kept : c.locals[i] = all[i]
      /\ \A i \in kept + 1 .. n : all[i].depth > d - 1
  BY DEF Trims
<1>3. e.depth \in Nat /\ e.locals \in Nat
  BY DEF EntryType
<1>4. /\ e.depth <= d /\ e.locals \in 1 .. n
      /\ \A i \in 1 .. n : i <= e.locals <=> all[i].depth \in 0 .. e.depth
  BY DEF CountedBy
<1>5. \A i \in 1 .. n : all[i].depth \in Int
  <2> SUFFICES ASSUME NEW i \in 1 .. n PROVE all[i].depth \in Int
    OBVIOUS
  <2>1. all[i] \in LocalType
    BY <1>1
  <2> QED
    BY <2>1 DEF LocalType
<1> HIDE DEF all, n, d
<1>6. e.depth <= d - 1
  BY <1>1, <1>3, <1>4 DEF d
<1>7. e.locals <= kept
  <2> SUFFICES ASSUME ~(e.locals <= kept) PROVE FALSE
    OBVIOUS
  <2>1. e.locals \in kept + 1 .. n
    BY <1>1, <1>2, <1>3, <1>4
  <2>2. all[e.locals].depth > d - 1
    BY <1>2, <2>1
  <2>3. all[e.locals].depth \in 0 .. e.depth
    BY <1>3, <1>4
  <2> QED
    BY <1>1, <1>3, <1>6, <2>2, <2>3
<1>8. \A i \in 1 .. kept : i <= e.locals <=> c.locals[i].depth \in 0 .. e.depth
  <2> SUFFICES ASSUME NEW i \in 1 .. kept PROVE i <= e.locals <=> c.locals[i].depth \in 0 .. e.depth
    OBVIOUS
  <2>1. i \in 1 .. n
    BY <1>1, <1>2
  <2> QED
    BY <1>2, <1>4, <2>1
<1>9. e.locals \in 1 .. kept
  BY <1>2, <1>3, <1>4, <1>7
<1> QED
  BY <1>2, <1>6, <1>7, <1>8, <1>9 DEF CountedBy

(* The locals that are kept are in order. *)
LEMMA TrimmedOk ==
  ASSUME NEW s, Base(s), Settled(s), NEW kept, NEW c, Trims(s, kept, c), LocalsOk(This(s), TRUE)
  PROVE  /\ LocalsOk(c, TRUE) /\ Waits(c) = FALSE /\ OnStack(c, TRUE) = kept
         /\ OnStack(This(s), TRUE) = Len(This(s).locals)
<1> DEFINE all == This(s).locals
           n == Len(all)
           d == This(s).scope_depth
<1>1. all \in Seq(LocalType) /\ n \in Nat \ {0} /\ DOMAIN all = 1 .. n /\ d \in Nat
  BY OwnFacts, OnStackFacts
<1>2. /\ kept \in 1 .. n /\ Len(c.locals) = kept /\ c.scope_depth = d - 1
      /\ \A i \in 1 .. kept : c.locals[i] = all[i]
      /\ all[kept].depth <= d - 1
  BY DEF Trims
<1>3. \A i \in 1 .. n : all[i].depth \in Int /\ all[i].depth # -1
  <2> SUFFICES ASSUME NEW i \in 1 .. n PROVE all[i].depth \in Int /\ all[i].depth # -1
    OBVIOUS
  <2>1. all[i] \in LocalType
    BY <1>1
  <2>2. all[i].depth # -1
    BY <1>1, BaseChain DEF Settled
  <2> QED
    BY <2>1, <2>2 DEF LocalType
<1>4. /\ all[1].name = ""
      /\ \A i \in 1 .. n : \A j \in i .. n : all[j].depth # -1 => all[i].depth <= all[j].depth
  BY DEF LocalsOk
<1>5. OnStack(This(s), TRUE) = n
  BY <1>1, <1>3 DEF OnStack
<1> HIDE DEF all, n, d
<1>6. kept \in Nat /\ kept >= 1 /\ kept \in 1 .. n /\ kept \in 1 .. kept /\ 1 \in 1 .. kept
  BY <1>1, <1>2
<1>7. c.locals[kept].depth # -1
  BY <1>2, <1>3, <1>6
<1>8. Waits(c) = FALSE /\ OnStack(c, TRUE) = kept
  BY <1>2, <1>7 DEF Waits, OnStack
<1>9. LocalsOk(c, TRUE)
  <2>1. c.locals[1].name = ""
    BY <1>2, <1>4, <1>6
  <2>2. ASSUME NEW i \in 1 .. kept
        PROVE  /\ c.locals[i].depth # -1 /\ c.locals[i].depth <= c.scope_depth
               /\ \A j \in i .. kept : c.locals[i].depth <= c.locals[j].depth
    <3>1. i \in 1 .. n /\ c.locals[i] = all[i] /\ kept \in i .. n
      BY <1>1, <1>2, <1>6
    <3>2. all[i].depth <= all[kept].depth
      BY <1>3, <1>4, <1>6, <3>1
    <3>3. all[i].depth <= d - 1
      BY <1>1, <1>2, <1>3, <1>6, <3>1, <3>2
    <3>4. ASSUME NEW j \in i .. kept PROVE c.locals[i].depth <= c.locals[j].depth
      <4>1. j \in i .. n /\ j \in 1 .. n /\ j \in 1 .. kept
        BY <1>1, <1>6, <3>1
      <4> QED
        BY <1>2, <1>3, <1>4, <3>1, <4>1
    <3> QED
      BY <1>2, <1>3, <3>1, <3>3, <3>4
  <2> QED
    BY <1>2, <2>1, <2>2 DEF LocalsOk
<1> QED
  BY <1>5, <1>8, <1>9 DEF n, all

(* end_scope *)
LEMMA EndTurns ==
  ASSUME NEW s, Base(s), Settled(s), NEW p, Typed(s, p), p.temps = 0, NEW q, Finishes(p, q)
  PROVE  Turns(s, p, EndScope(s), q)
<1> DEFINE u == EndScope(s)
           f == This(s).function
<1>1. /\ Row(s.functions, This(s), TRUE, p.temps, p.open, p.marks)
      /\ p.open \subseteq EntryType /\ p.marks \subseteq EntryType
      /\ Top(p).fun = f /\ Top(p).depth = This(s).scope_depth
      /\ \A g \in DOMAIN s.functions : Outside(s.functions[g], Chain(s.compilers))
  BY TopRow
<1>2. /\ q.levels = [p.levels EXCEPT ![Len(p.levels)] = Level(f, This(s).scope_depth - 1, FALSE)]
      /\ q.open = p.open /\ q.marks \subseteq p.marks /\ q.temps = 0 /\ q.fresh = FALSE
      /\ Clear(p, p.open) /\ Clear(p, q.marks)
      /\ This(s).scope_depth >= 1
  BY <1>1 DEF Finishes, Ends
<1>3. PICK kept, c, t, bytes : /\ Trims(s, kept, c) /\ Replaces(s, t, c)
                               /\ ExitsBy(This(s).locals, kept, bytes) /\ u = EmitBytes(t, bytes)
  BY <1>2, EndScopeForm
<1>4. /\ Base(u) /\ u.work = s.work /\ (InText(s) => InText(u))
  BY <1>2, EndScopeFacts
<1> HIDE DEF u
<1>5. /\ Base(t) /\ t.functions = s.functions /\ t.errors = s.errors /\ Me(t) = Me(s) /\ This(t) = c
      /\ \A j \in DOMAIN s.compilers : t.compilers[j] = IF j = Me(s) THEN c ELSE s.compilers[j]
      /\ Len(t.compilers) = Len(s.compilers)
  BY <1>3 DEF Replaces
<1>6. bytes \in Seq(Byte) /\ Len(bytes) = Len(This(s).locals) - kept
      /\ \A j \in 0 .. Len(This(s).locals) - kept - 1 :
           bytes[j + 1] = Code[ExitCode(This(s).locals[Len(This(s).locals) - j].is_captured)]
  BY <1>3 DEF ExitsBy
<1>7. c.function = f /\ Function(t) = Function(s)
  BY <1>3, <1>5 DEF Trims, Function
<1>8. /\ Writes(t, u, Function(s).code \o bytes) /\ u.errors = s.errors
      /\ Function(u).constants = Function(s).constants /\ bytes \in Seq(Nat)
  BY <1>3, <1>5, <1>6, <1>7, EmitBytesWrites
<1>9. /\ DOMAIN s.compilers = 1 .. Me(s) /\ Me(s) \in Nat \ {0} /\ This(s) = s.compilers[Me(s)] /\ Me(s) = Len(s.compilers)
      /\ f \in DOMAIN s.functions /\ Function(s) = s.functions[f]
  BY BaseChain
<1>10. /\ DOMAIN t.compilers = 1 .. Me(s) /\ Me(u) = Me(s)
       /\ \A j \in 1 .. Me(s) : Same(t.compilers[j], u.compilers[j])
       /\ DOMAIN u.functions = DOMAIN s.functions
       /\ \A g \in DOMAIN s.functions \ {f} : u.functions[g] = s.functions[g]
       /\ Extends(Function(s), Function(u)) /\ Function(u).upvalue_count = Function(s).upvalue_count
       /\ Function(u).name = Function(s).name /\ Function(u).arity = Function(s).arity
       /\ Function(u).code = Function(s).code \o bytes
  BY <1>5, <1>7, <1>8, BaseChain DEF Writes
<1>11. /\ Same(c, This(u)) /\ Function(u) = u.functions[f] /\ This(u).function = f
       /\ \A g \in DOMAIN s.functions : SameClosures(s.functions, u.functions, g)
       /\ IsProgram(s.functions) /\ IsProgram(u.functions)
  BY <1>5, <1>7, <1>8, WritesFacts
<1>12. AtTop(s, u)
  <2>1. \A j \in DOMAIN s.compilers : u.compilers[j].function = s.compilers[j].function
    <3> SUFFICES ASSUME NEW j \in 1 .. Me(s) PROVE u.compilers[j].function = s.compilers[j].function
      BY <1>9
    <3>1. u.compilers[j].function = t.compilers[j].function
      BY <1>10 DEF Same
    <3>2. t.compilers[j].function = s.compilers[j].function
      BY <1>5, <1>7, <1>9
    <3> QED
      BY <3>1, <3>2
  <2>2. \A j \in DOMAIN s.compilers \ {Me(s)} : Same(s.compilers[j], u.compilers[j])
    <3> SUFFICES ASSUME NEW j \in 1 .. Me(s), j # Me(s) PROVE Same(s.compilers[j], u.compilers[j])
      BY <1>9
    <3>1. Same(t.compilers[j], u.compilers[j])
      BY <1>10
    <3>2. t.compilers[j] = s.compilers[j]
      BY <1>5, <1>9
    <3> QED
      BY <3>1, <3>2
  <2> QED
    BY <1>4, <1>10, <2>1, <2>2 DEF AtTop
<1> SUFFICES Typed(u, q) /\ More(s.functions, u.functions)
  BY <1>4, <1>8 DEF Turns, u
<1>13. /\ This(u).locals = c.locals /\ This(u).scope_depth = c.scope_depth /\ This(u).upvalues = c.upvalues
       /\ c.upvalues = This(s).upvalues /\ c.scope_depth = This(s).scope_depth - 1
  BY <1>3, <1>11 DEF Same, Trims
<1>14. /\ LocalsOk(c, TRUE) /\ Waits(c) = FALSE /\ OnStack(c, TRUE) = kept
       /\ OnStack(This(s), TRUE) = Len(This(s).locals)
  <2>1. LocalsOk(This(s), TRUE)
    BY <1>1 DEF Row
  <2> QED
    BY <1>3, <2>1, TrimmedOk
<1>15. /\ LocalsOk(This(u), TRUE) /\ Waits(This(u)) = FALSE /\ OnStack(This(u), TRUE) = kept
  BY <1>13, <1>14 DEF LocalsOk, Waits, OnStack
<1>16. LevelOf(This(u)) = Level(f, This(s).scope_depth - 1, FALSE)
  BY <1>11, <1>13, <1>15 DEF LevelOf
<1>17. ASSUME NEW e, e \in p.open \cup q.marks, e.fun = f
       PROVE  CountedBy(c, e) /\ e.locals <= kept
  <2>1. CountedBy(This(s), e)
    BY <1>1, <1>2, <1>17 DEF Row
  <2>2. e \in EntryType /\ e.depth # This(s).scope_depth
    BY <1>1, <1>2, <1>17 DEF Clear, Here
  <2> QED
    BY <1>3, <2>1, <2>2, CountedKept
<1>18. \E z : FrameOk(u.functions, f, c.locals, z, kept, 0, p.open, q.marks)
  <2> DEFINE all == This(s).locals
             n == Len(all)
  <2>1. PICK y : FrameOk(s.functions, f, all, y, n, 0, p.open, p.marks)
    BY <1>14, FrameOf
  <2>2. all \in Seq(LocalType) /\ n \in Nat
    BY OwnFacts
  <2>3. \A i \in 1 .. n : all[i].is_captured \in BOOLEAN
    <3> SUFFICES ASSUME NEW i \in 1 .. n PROVE all[i].is_captured \in BOOLEAN
      OBVIOUS
    <3>1. all[i] \in LocalType
      BY <2>2
    <3> QED
      BY <3>1 DEF LocalType
  <2>4. /\ kept \in 1 .. n /\ Len(c.locals) = kept /\ \A i \in 1 .. kept : c.locals[i] = all[i]
    BY <1>3 DEF Trims
  <2>5. /\ Len(bytes) = n - kept /\ \A j \in 0 .. n - kept - 1 : bytes[j + 1] = Code[ExitCode(all[n - j].is_captured)]
    BY <1>6
  <2> HIDE DEF all, n
  <2>6. kept \in Nat \ {0} /\ kept <= n /\ \A i \in 1 .. kept : c.locals[i].is_captured = all[i].is_captured
    BY <2>2, <2>4
  <2>7. \A e \in p.open : e.fun = f => e.locals <= kept
    BY <1>17
  <2>8. \A e \in q.marks : e.fun = f => e \in p.marks /\ (e.at # -1 => e.locals <= kept)
    BY <1>2, <1>17
  <2>9. /\ f \in DOMAIN u.functions /\ Extends(s.functions[f], u.functions[f])
        /\ SameClosures(s.functions, u.functions, f)
        /\ u.functions[f].arity = s.functions[f].arity
        /\ u.functions[f].code = s.functions[f].code \o bytes
    BY <1>9, <1>10, <1>11
  <2>10. Len(all) \in Nat /\ n = Len(all)
    BY <2>2 DEF n
  <2> QED
    <3> HIDE DEF f
    <3>1. IsProgram(s.functions) /\ IsProgram(u.functions) /\ f \in DOMAIN s.functions /\ bytes \in Seq(Nat)
      BY <1>8, <1>9, <1>11
    <3>2. Len(c.locals) = kept /\ Len(bytes) = n - kept
      BY <2>4, <2>5
    <3>3. Exiting(all, n, kept, c.locals, bytes)
      BY <2>3, <2>5, <2>6, <3>2 DEF Exiting
    <3>4. Around(f, kept, p.open, p.marks, q.marks)
      BY <2>7, <2>8 DEF Around
    <3>5. Lengthens(s.functions, u.functions, f, bytes)
      BY <3>1, <2>9 DEF Lengthens
    <3> QED
      BY ONLY <3>3, <3>4, <3>5, <2>1, <2>10, FrameExits
<1>19. Row(u.functions, This(u), TRUE, 0, q.open, q.marks)
  <2>1. \A e \in q.open \cup q.marks : e.fun = This(u).function => CountedBy(This(u), e)
    <3> SUFFICES ASSUME NEW e \in q.open \cup q.marks, e.fun = f PROVE CountedBy(This(u), e)
      BY <1>11
    <3>1. CountedBy(c, e)
      BY <1>2, <1>17
    <3> QED
      BY <1>13, <3>1 DEF CountedBy
  <2>2. \A i \in DOMAIN This(u).upvalues : This(u).upvalues[i].is_local => This(u).upvalues[i].index >= 1
    BY <1>1, <1>13 DEF Row
  <2>3. \E z : FrameOk(u.functions, This(u).function, This(u).locals, z, OnStack(This(u), TRUE), 0, q.open, q.marks)
    BY <1>2, <1>11, <1>13, <1>15, <1>18
  <2> QED
    BY <1>15, <2>1, <2>2, <2>3 DEF Row
<1>20. Outside(Function(u), Chain(s.compilers))
  BY <1>1, <1>8, <1>9 DEF Outside
<1>21. /\ q.levels = [p.levels EXCEPT ![Len(p.levels)] = LevelOf(This(u))] /\ q.temps \in Nat
       /\ (q.fresh => Function(u).code = <<>>)
       /\ (Me(s) = 1 => This(u).upvalues = This(s).upvalues /\ Function(u).arity = Function(s).arity)
       /\ Row(u.functions, This(u), TRUE, q.temps, q.open, q.marks)
  <2>1. q.levels = [p.levels EXCEPT ![Len(p.levels)] = LevelOf(This(u))] /\ q.temps \in Nat
    BY <1>2, <1>16
  <2>2. q.fresh => Function(u).code = <<>>
    BY <1>2
  <2>3. This(u).upvalues = This(s).upvalues /\ Function(u).arity = Function(s).arity
    BY <1>10, <1>13
  <2>4. Row(u.functions, This(u), TRUE, q.temps, q.open, q.marks)
    BY <1>2, <1>19
  <2> QED
    BY <2>1, <2>2, <2>3, <2>4
<1> QED
  BY <1>2, <1>12, <1>20, <1>21, LevelTyping

(* `end_scope' *)
LEMMA EndScopeGoal ==
  ASSUME NEW s, NEW c, NEW p, NEW q, Stands(s, c, p, q), c.do = "end_scope"
  PROVE  Goal(RunEndScope(s, c))
<1>1. /\ Base(s) /\ Typed(s, p) /\ Goes(s.functions, p, c, q) /\ Fits(s.functions, q, s.work)
  BY StandsFacts
<1>2. Settled(s)
  BY StandsSettled DEF ClosingName
<1>3. Finishes(p, q) /\ p.temps = 0
  BY <1>1, GoesScope
<1>4. Turns(s, p, EndScope(s), q)
  BY <1>1, <1>2, <1>3, EndTurns
<1>5. Loose(q, q)
  BY DEF Loose
<1> QED
  BY <1>1, <1>4, <1>5, Hands0 DEF RunEndScope

-----------------------------------------------------------------------------
(* Variables are declared. *)

(* Another compiler in the place of the innermost one, for the same function, changes only scopes. *)
LEMMA ReplacesTyping ==
  ASSUME NEW s, Base(s), NEW t, NEW c, Replaces(s, t, c),
         c.function = This(s).function, c.upvalues = This(s).upvalues, NEW p, Typed(s, p), NEW q,
         q.levels = [p.levels EXCEPT ![Len(p.levels)] = LevelOf(c)],
         q.open = p.open, q.marks \subseteq p.marks, q.temps \in Nat, q.fresh => p.fresh,
         Row(s.functions, c, TRUE, q.temps, q.open, q.marks)
  PROVE  Typed(t, q) /\ More(s.functions, t.functions)
<1>1. /\ Base(t) /\ t.functions = s.functions /\ Len(t.compilers) = Len(s.compilers) /\ This(t) = c
      /\ \A j \in DOMAIN s.compilers : t.compilers[j] = IF j = Me(s) THEN c ELSE s.compilers[j]
  BY DEF Replaces
<1>2. \A j \in DOMAIN s.compilers \ {Me(s)} : Same(s.compilers[j], t.compilers[j])
  BY <1>1, SameReflexive
<1>3. Scopes(s, t)
  BY <1>1, <1>2 DEF Scopes
<1>4. /\ q.levels = [p.levels EXCEPT ![Len(p.levels)] = LevelOf(This(t))]
      /\ Row(s.functions, This(t), TRUE, q.temps, q.open, q.marks)
  BY <1>1
<1> QED
  BY <1>3, <1>4, ScopeTyping

(* The compiler c has a local more, which is declared and not ready. *)
Declaring1(s, c, name) ==
  /\ c \in CompilerType /\ c.function = This(s).function /\ c.upvalues = This(s).upvalues
  /\ c.scope_depth = This(s).scope_depth /\ This(s).scope_depth \in Nat \ {0}
  /\ This(s).locals \in Seq(LocalType) /\ Len(This(s).locals) \in Nat \ {0}
  /\ Len(This(s).locals) <= UINT8_MAX
  /\ c.locals = Append(This(s).locals, NewLocal(name, -1))
  /\ name \in Lexeme

(* declare_variable, unless it reports an error *)
LEMMA DeclareForm ==
  ASSUME TokensOk, NEW s, Base(s), InText(s), DeclareVariable(s).errors = {}
  PROVE  /\ s.errors = {}
         /\ This(s).scope_depth = 0 => DeclareVariable(s) = s
         /\ This(s).scope_depth # 0 =>
              \E c : Declaring1(s, c, Previous(s).lexeme) /\ Replaces(s, DeclareVariable(s), c)
<1> DEFINE locals == This(s).locals
           depth  == This(s).scope_depth
           name   == Previous(s).lexeme
           clash  == \E i \in DOMAIN locals :
                       /\ locals[i].name = name
                       /\ \A j \in i .. Len(locals) : locals[j].depth >= depth
           t == IF clash THEN ErrorAtPrevious(s, "Variable with this name already in scope.") ELSE s
           e == ErrorAtPrevious(t, "Too many local variables.")
           a == [t EXCEPT !.compilers[Me(s)].locals = Append(@, NewLocal(name, -1))]
           k == Me(s)
           more == Append(locals, NewLocal(name, -1))
           c == WithLocals(This(s), more)
           u == WithCompiler(s, k, c)
<1>1. DeclareVariable(s) = IF depth = 0 THEN s ELSE IF Len(locals) > UINT8_MAX THEN e ELSE a
  BY DEF DeclareVariable
<1>2. name \in Lexeme
  BY LexemeFacts
<1> HIDE DEF clash, name
<1>3. Base(t) /\ (clash => t.errors # {}) /\ (~clash => t = s)
  BY ErrorFacts DEF Keeps
<1>4. a.errors = t.errors
  OBVIOUS
<1>5. e.errors # {}
  <2> HIDE DEF t
  <2> QED
    BY <1>3, ErrorFacts
<1>6. CASE depth = 0
  BY <1>1, <1>6
<1>7. CASE depth # 0
  <2>1. ~(Len(locals) > UINT8_MAX) /\ DeclareVariable(s) = a /\ a.errors = {}
    BY <1>1, <1>5, <1>7
  <2>2. t = s
    BY <1>3, <1>4, <2>1
  <2>3. DeclareVariable(s) = [s EXCEPT !.compilers[Me(s)].locals = Append(@, NewLocal(name, -1))]
    BY <2>1, <2>2
  <2> HIDE DEF t, a, e
  <2>4. /\ IsState(s) /\ k \in DOMAIN s.compilers /\ k = Len(s.compilers) /\ This(s) \in CompilerType
        /\ This(s) = s.compilers[k]
    BY BaseFacts
  <2>5. DeclareVariable(s) = u
    BY <2>3, <2>4 DEF IsState, WithCompiler, WithLocals, CompilerType
  <2>6. /\ locals \in Seq(LocalType) /\ Len(locals) \in 1 .. UINT8_MAX + 1
        /\ DOMAIN locals = 1 .. Len(locals) /\ Len(locals) \in Nat /\ depth \in Nat
        /\ \A i \in DOMAIN locals : DepthOk(i, locals[i].depth)
    BY OwnFacts
  <2>7. NewLocal(name, -1) \in LocalType /\ NewLocal(name, -1).depth = -1
    BY <1>2 DEF NewLocal, LocalType
  <2>8. /\ more \in Seq(LocalType) /\ Len(more) = Len(locals) + 1 /\ DOMAIN more = 1 .. Len(locals) + 1
        /\ \A i \in 1 .. Len(locals) : more[i] = locals[i]
        /\ more[Len(locals) + 1] = NewLocal(name, -1)
    BY <2>6, <2>7, AppendProperties
  <2> HIDE DEF more
  <2>9. ASSUME NEW i \in DOMAIN more PROVE DepthOk(i, more[i].depth)
    <3>1. CASE i \in 1 .. Len(locals)
      BY <2>6, <2>8, <3>1
    <3>2. CASE i = Len(locals) + 1
      BY <2>6, <2>7, <2>8, <3>2 DEF DepthOk
    <3> QED
      BY <2>6, <2>8, <3>1, <3>2
  <2>10. /\ c \in CompilerType /\ c.function = This(s).function /\ c.scope_depth = depth
         /\ c.upvalues = This(s).upvalues /\ c.locals = more
         /\ c.panic_mode = This(s).panic_mode /\ c.had_error = This(s).had_error
    BY <2>4, <2>8, WithLocalsFacts
  <2> HIDE DEF c
  <2>11. Len(c.locals) \in 1 .. UINT8_MAX + 1 /\ Len(locals) <= UINT8_MAX /\ Len(locals) \in Nat \ {0}
    BY <2>1, <2>6, <2>8, <2>10, ByteAssumption
  <2>12. Replaces(s, u, c)
    <3>1. /\ Base(u) /\ u.work = s.work /\ u.functions = s.functions /\ u.errors = s.errors
          /\ Len(u.compilers) = Len(s.compilers) /\ Me(u) = Me(s) /\ This(u) = c
          /\ \A j \in DOMAIN s.compilers : u.compilers[j] = IF j = Me(s) THEN c ELSE s.compilers[j]
      BY <1>7, <2>9, <2>10, <2>11, LocalsChange
    <3> HIDE DEF u
    <3> QED
      BY <3>1 DEF Replaces
  <2>13. c.locals = Append(This(s).locals, NewLocal(name, -1)) /\ depth \in Nat \ {0}
    BY <1>7, <2>6, <2>10 DEF more
  <2>14. Declaring1(s, c, name)
    BY <1>2, <2>6, <2>10, <2>11, <2>13 DEF Declaring1
  <2>15. s.errors = {}
    BY <1>4, <2>1, <2>2 DEF a
  <2> HIDE DEF u
  <2>16. Replaces(s, DeclareVariable(s), c)
    BY <2>5, <2>12
  <2> QED
    BY <1>7, <2>14, <2>15, <2>16 DEF name
<1> QED
  BY <1>6, <1>7

(* The innermost variable is declared; in the outermost scope there is none. *)
Waiting(p) ==
  IF Top(p).depth = 0 THEN p
  ELSE Plan([p.levels EXCEPT ![Len(p.levels)] = Level(Top(p).fun, Top(p).depth, TRUE)],
            p.open, p.marks, p.temps, p.fresh)

(* The locals of the compiler c. *)
LEMMA DeclaredLocals ==
  ASSUME NEW s, NEW c, NEW name, Declaring1(s, c, name)
  PROVE  /\ Len(c.locals) = Len(This(s).locals) + 1 /\ Len(This(s).locals) \in Nat \ {0}
         /\ \A i \in 1 .. Len(This(s).locals) : c.locals[i] = This(s).locals[i]
         /\ c.locals[Len(c.locals)].depth = -1 /\ ~c.locals[Len(c.locals)].is_captured
         /\ ~c.locals[Len(c.locals)].ready
         /\ \A i \in 1 .. Len(This(s).locals) : This(s).locals[i] \in LocalType
<1> DEFINE locals == This(s).locals
           l == NewLocal(name, -1)
<1>1. /\ locals \in Seq(LocalType) /\ Len(locals) \in Nat \ {0} /\ name \in Lexeme
      /\ c.locals = Append(locals, l)
  BY DEF Declaring1
<1>2. l \in LocalType /\ l.depth = -1 /\ l.is_captured = FALSE /\ l.ready = FALSE
  BY <1>1 DEF NewLocal, LocalType
<1> HIDE DEF l, locals
<1>3. /\ Len(c.locals) = Len(locals) + 1
      /\ \A i \in 1 .. Len(locals) : c.locals[i] = locals[i]
      /\ c.locals[Len(locals) + 1] = l
  BY <1>1, <1>2, AppendProperties
<1>4. \A i \in 1 .. Len(locals) : locals[i] \in LocalType
  BY <1>1
<1> QED
  BY <1>1, <1>2, <1>3, <1>4 DEF locals

(* The variable that is declared is not on the stack. *)
LEMMA DeclaredRow ==
  ASSUME NEW s, Base(s), NEW c, NEW name, Declaring1(s, c, name), Waits(This(s)) = FALSE,
         NEW temps, NEW open, NEW marks, open \subseteq EntryType, marks \subseteq EntryType,
         Row(s.functions, This(s), TRUE, temps, open, marks)
  PROVE  Row(s.functions, c, TRUE, temps, open, marks) /\ LevelOf(c) = Level(This(s).function, This(s).scope_depth, TRUE)
<1> DEFINE old == This(s).locals
           n == Len(old)
           d == This(s).scope_depth
<1>1. /\ c.function = This(s).function /\ c.upvalues = This(s).upvalues /\ c.scope_depth = d
      /\ d \in Nat \ {0}
  BY DEF Declaring1
<1>2. /\ Len(c.locals) = n + 1 /\ n \in Nat \ {0}
      /\ \A i \in 1 .. n : c.locals[i] = old[i]
      /\ c.locals[n + 1].depth = -1 /\ ~c.locals[n + 1].is_captured /\ ~c.locals[n + 1].ready
      /\ \A i \in 1 .. n : old[i] \in LocalType
  <2>1. /\ Len(c.locals) = n + 1
    BY DeclaredLocals
  <2> QED
    BY <2>1, DeclaredLocals
<1>3. old[n].depth # -1
  BY DEF Waits
<1>4. LocalsOk(This(s), TRUE)
  BY DEF Row
<1> HIDE DEF old, n, d
<1>5. OnStack(This(s), TRUE) = n /\ OnStack(c, TRUE) = n
  <2>1. OnStack(This(s), TRUE) = n
    BY <1>3 DEF OnStack, n, old
  <2>2. OnStack(c, TRUE) = n
    BY <1>2 DEF OnStack
  <2> QED
    BY <2>1, <2>2
<1>6. \E y : FrameOk(s.functions, c.function, c.locals, y, n, temps, open, marks)
  <2>1. PICK y : FrameOk(s.functions, c.function, old, y, n, temps, open, marks)
    BY <1>1, <1>5 DEF Row, old
  <2>2. Len(old) \in Nat /\ Len(c.locals) \in Nat /\ n <= Len(c.locals)
    BY <1>2 DEF n
  <2>3. \A i \in 1 .. n : c.locals[i].is_captured = old[i].is_captured
    BY <1>2
  <2> QED
    BY <2>1, <2>2, <2>3, FrameLocals
<1>7. LocalsOk(c, TRUE)
  <2>1. c.locals[1].name = ""
    <3>1. old[1].name = ""
      BY <1>4 DEF LocalsOk, old
    <3>2. 1 \in 1 .. n
      BY <1>2
    <3>3. c.locals[1] = old[1]
      BY <1>2, <3>2
    <3> QED
      BY <3>1, <3>3
  <2>2. \A i \in 1 .. n : /\ old[i].ready => old[i].depth # -1
                          /\ old[i].depth <= d
                          /\ old[i].depth # -1
                          /\ \A j \in i .. n : old[i].depth <= old[j].depth
    <3>1. \A i \in 1 .. n : /\ old[i].ready => old[i].depth # -1
                            /\ old[i].depth <= d
                            /\ old[i].depth = -1 => i = n
                            /\ \A j \in i .. n : old[j].depth # -1 => old[i].depth <= old[j].depth
      BY <1>4 DEF LocalsOk, old, n, d
    <3>2. \A i \in 1 .. n : old[i].depth # -1
      BY <1>3, <3>1
    <3>3. \A i \in 1 .. n : \A j \in i .. n : old[j].depth # -1
      BY <1>2, <3>2
    <3> QED
      BY <3>1, <3>2, <3>3
  <2> SUFFICES ASSUME NEW i \in 1 .. n + 1
               PROVE  /\ c.locals[i].ready => c.locals[i].depth # -1
                      /\ c.locals[i].depth <= d
                      /\ c.locals[i].depth = -1 => i = n + 1 /\ ~c.locals[i].is_captured
                      /\ \A j \in i .. n + 1 : c.locals[j].depth # -1 => c.locals[i].depth <= c.locals[j].depth
    BY <1>1, <1>2, <2>1 DEF LocalsOk
  <2>3. CASE i = n + 1
    BY <1>1, <1>2, <2>3
  <2>4. CASE i \in 1 .. n
    <3>1. c.locals[i] = old[i]
      BY <1>2, <2>4
    <3>2. \A j \in i .. n + 1 : c.locals[j].depth # -1 => c.locals[i].depth <= c.locals[j].depth
      <4> SUFFICES ASSUME NEW j \in i .. n + 1, c.locals[j].depth # -1 PROVE c.locals[i].depth <= c.locals[j].depth
        OBVIOUS
      <4>1. j # n + 1
        BY <1>2
      <4>2. j \in i .. n /\ j \in 1 .. n
        BY <1>2, <2>4, <4>1
      <4>3. c.locals[j] = old[j]
        BY <1>2, <4>2
      <4> QED
        BY <2>2, <2>4, <3>1, <4>2, <4>3
    <3> QED
      BY <2>2, <2>4, <3>1, <3>2
  <2> QED
    BY <1>2, <2>3, <2>4
<1>8. \A e \in open \cup marks : e.fun = c.function => CountedBy(c, e)
  <2> SUFFICES ASSUME NEW e \in open \cup marks, e.fun = c.function
               PROVE  CountedBy(c, e)
    OBVIOUS
  <2>1. CountedBy(This(s), e)
    BY <1>1 DEF Row
  <2>2. e \in EntryType
    OBVIOUS
  <2>3. e.depth \in Nat /\ e.locals \in Nat
    BY ONLY <2>2 DEF EntryType
  <2>4. /\ e.depth <= d /\ e.locals \in 1 .. n
        /\ \A i \in 1 .. n : i <= e.locals <=> old[i].depth \in 0 .. e.depth
    BY <2>1 DEF CountedBy, d, n, old
  <2>5. ~(n + 1 <= e.locals) /\ ~(c.locals[n + 1].depth \in 0 .. e.depth)
    BY <1>2, <2>3, <2>4
  <2>6. \A i \in 1 .. n + 1 : i <= e.locals <=> c.locals[i].depth \in 0 .. e.depth
    <3> SUFFICES ASSUME NEW i \in 1 .. n + 1 PROVE i <= e.locals <=> c.locals[i].depth \in 0 .. e.depth
      OBVIOUS
    <3>1. CASE i = n + 1
      BY <2>5, <3>1
    <3>2. CASE i \in 1 .. n
      BY <1>2, <2>4, <3>2
    <3> QED
      BY <1>2, <3>1, <3>2
  <2>7. e.locals \in 1 .. n + 1
    BY <1>2, <2>4
  <2> QED
    BY <1>1, <1>2, <2>4, <2>6, <2>7 DEF CountedBy
<1>9. \A i \in DOMAIN c.upvalues : c.upvalues[i].is_local => c.upvalues[i].index >= 1
  BY <1>1 DEF Row
<1>10. Row(s.functions, c, TRUE, temps, open, marks)
  BY <1>5, <1>6, <1>7, <1>8, <1>9 DEF Row
<1>11. Waits(c) = TRUE
  BY <1>2 DEF Waits
<1>12. LevelOf(c) = Level(This(s).function, This(s).scope_depth, TRUE)
  BY <1>1, <1>11 DEF LevelOf, d
<1> QED
  BY <1>10, <1>12

(* declare_variable *)
LEMMA DeclareTurns ==
  ASSUME TokensOk, NEW s, Base(s), InText(s), NEW p, Typed(s, p) => Top(p).waits = FALSE
  PROVE  Turns(s, p, DeclareVariable(s), Waiting(p))
<1> DEFINE t == DeclareVariable(s)
           q == Waiting(p)
<1>1. Base(t) /\ t.work = s.work /\ (InText(s) => InText(t)) /\ t.functions = s.functions
  BY DeclareVariableFacts DEF Declares
<1>2. t.errors = {} => s.errors = {}
  BY DeclareForm
<1> HIDE DEF t
<1> SUFFICES ASSUME t.errors = {}, Typed(s, p) PROVE Typed(t, q) /\ More(s.functions, t.functions)
  BY <1>1, <1>2 DEF Turns, t
<1>3. /\ Row(s.functions, This(s), TRUE, p.temps, p.open, p.marks) /\ p.temps \in Nat
      /\ Top(p) = LevelOf(This(s)) /\ p.open \subseteq EntryType /\ p.marks \subseteq EntryType
      /\ Top(p).fun = This(s).function /\ Top(p).depth = This(s).scope_depth
  BY TopRow
<1>4. CASE Top(p).depth = 0
  <2>1. t = s /\ q = p
    BY <1>3, <1>4, DeclareForm DEF t, Waiting
  <2>2. IsProgram(s.functions)
    BY BaseProgram
  <2>3. More(s.functions, s.functions)
    BY <2>2, MoreReflexive
  <2> QED
    BY <2>1, <2>3
<1>5. CASE Top(p).depth # 0
  <2>1. PICK c : Declaring1(s, c, Previous(s).lexeme) /\ Replaces(s, t, c)
    BY <1>3, <1>5, DeclareForm DEF t
  <2>2. Waits(This(s)) = FALSE
    BY <1>3 DEF LevelOf, Level
  <2>3. Row(s.functions, c, TRUE, p.temps, p.open, p.marks)
        /\ LevelOf(c) = Level(This(s).function, This(s).scope_depth, TRUE)
    BY <1>3, <2>1, <2>2, DeclaredRow
  <2>4. /\ q.levels = [p.levels EXCEPT ![Len(p.levels)] = LevelOf(c)]
        /\ q.open = p.open /\ q.marks = p.marks /\ q.temps = p.temps /\ q.fresh = p.fresh
    BY <1>3, <1>5, <2>3 DEF Waiting, Plan
  <2> HIDE DEF q
  <2>5. Row(s.functions, c, TRUE, q.temps, q.open, q.marks) /\ q.temps \in Nat /\ q.marks \subseteq p.marks
    BY <1>3, <2>3, <2>4
  <2>6. c.function = This(s).function /\ c.upvalues = This(s).upvalues
    BY <2>1 DEF Declaring1
  <2> QED
    BY <2>1, <2>4, <2>5, <2>6, ReplacesTyping
<1> QED
  BY <1>4, <1>5

(* Where the name of a variable has been read: it waits, or is a global. *)
Parsed(p) == IF Top(p).depth = 0 THEN Kept(p) ELSE Waiting(p)

(* The parts of the plan when the name of a variable has been read. *)
LEMMA ParsedFacts ==
  ASSUME NEW s, Base(s), NEW p, Typed(s, p), Top(p).waits = FALSE
  PROVE  /\ Parsed(p).open = p.open /\ Parsed(p).marks = p.marks /\ Parsed(p).temps = p.temps
         /\ Top(p).depth # 0 => Parsed(p).fresh = p.fresh
         /\ Len(Parsed(p).levels) = Len(p.levels)
         /\ Top(Parsed(p)).fun = Top(p).fun /\ Top(Parsed(p)).depth = Top(p).depth
         /\ Top(p).depth = 0 => Parsed(p).levels = p.levels
         /\ Top(p).depth # 0 => Top(Parsed(p)).waits = TRUE
         /\ Defined(Parsed(p)) = p.levels
<1> DEFINE n == Len(p.levels)
           r == Parsed(p)
           l == Level(Top(p).fun, Top(p).depth, TRUE)
<1>1. /\ n = Me(s) /\ Me(s) \in Nat \ {0} /\ DOMAIN s.compilers = 1 .. Me(s)
      /\ Top(p) = LevelOf(This(s)) /\ p.levels = Levels(s.compilers)
  BY TopRow, BaseChain DEF PlanOk
<1>2. p.levels = [k \in 1 .. n |-> p.levels[k]]
  BY <1>1 DEF Levels
<1>3. Top(p) = p.levels[n] /\ Top(p) = Level(Top(p).fun, Top(p).depth, FALSE)
  <2>1. Top(p) = Level(This(s).function, This(s).scope_depth, Waits(This(s)))
    BY <1>1 DEF LevelOf
  <2>2. Top(p) = Level(Top(p).fun, Top(p).depth, Top(p).waits)
    BY <2>1 DEF Level
  <2> QED
    BY <2>2 DEF Top
<1>4. r.open = p.open /\ r.marks = p.marks /\ r.temps = p.temps
      /\ r.levels = (IF Top(p).depth = 0 THEN p.levels ELSE [p.levels EXCEPT ![n] = l])
      /\ (Top(p).depth # 0 => r.fresh = p.fresh)
  BY DEF Parsed, Waiting, Kept, With, Plan
<1>5. l.fun = Top(p).fun /\ l.depth = Top(p).depth /\ l.waits = TRUE
  BY DEF Level
<1> HIDE DEF r, n, l
<1>6. n \in Nat /\ n \in 1 .. n
  BY <1>1
<1>7. IsSeq(p.levels) /\ Len(p.levels) = n
  BY <1>2, <1>6, FunctionIsSeq
<1>8. CASE Top(p).depth = 0
  <2>1. r.levels = p.levels
    BY <1>4, <1>8
  <2>2. [p.levels EXCEPT ![n] = Level(Top(p).fun, Top(p).depth, FALSE)] = p.levels
    BY <1>2, <1>3, <1>6
  <2> QED
    BY <1>4, <1>8, <2>1, <2>2 DEF Top, Defined, r, n
<1>9. CASE Top(p).depth # 0
  <2>1. r.levels = [p.levels EXCEPT ![n] = l]
    BY <1>4, <1>9
  <2>2. Len(r.levels) = n
    BY <1>6, <1>7, <2>1, ExceptFacts
  <2>3. r.levels[n] = l
    BY <1>2, <1>6, <2>1
  <2>4. Top(r) = l
    BY <2>2, <2>3 DEF Top
  <2>5. Defined(r) = p.levels
    <3>1. Defined(r) = [r.levels EXCEPT ![n] = Top(p)]
      BY <1>3, <1>5, <2>2, <2>4 DEF Defined
    <3> QED
      BY <1>2, <1>3, <1>6, <2>1, <3>1
  <2> QED
    BY <1>4, <1>5, <1>9, <2>2, <2>4, <2>5 DEF r, n
<1> QED
  BY <1>8, <1>9

(* parse_variable *)
LEMMA ParseTurns ==
  ASSUME TokensOk, NEW s, Base(s), InText(s), NEW p, Typed(s, p), Top(p).waits = FALSE
  PROVE  /\ Turns(s, p, ParseVariable(s), Parsed(p)) /\ InText(ParseVariable(s))
         /\ Base(ParseVariable(s))
         /\ ParseVariable(s).errors = {} /\ Top(p).depth = 0 =>
              IsString(ParseVariable(s).functions, This(ParseVariable(s)).function, VariableIndex(s))
<1> DEFINE r == Consume(s, "IDENTIFIER")
           t == DeclareVariable(r)
           name == Previous(t).lexeme
           u == ParseVariable(s)
<1>1. Top(p).depth = This(s).scope_depth /\ Loose(p, p)
  BY TopRow DEF Loose
<1>2. Turns(s, p, r, p) /\ InText(r) /\ Base(r)
  BY <1>1, ConsumeTurns
<1>3. Keeps(s, r) /\ r.functions = s.functions
  BY ConsumeFacts
<1>4. u = IF Top(p).depth = 0 THEN AddConstant(t, Str(name)) ELSE t
  BY <1>1 DEF ParseVariable
<1> HIDE DEF r
<1>5. Turns(r, p, t, Waiting(p))
  BY <1>2, DeclareTurns
<1>6. Declares(r, t) /\ t.functions = r.functions
  BY <1>2, DeclareVariableFacts
<1>7. Base(t) /\ InText(t)
  BY <1>2, <1>6 DEF Declares
<1> HIDE DEF t
<1>8. Turns(s, p, t, Waiting(p))
  BY <1>2, <1>5, TurnsTransitive
<1>9. CASE Top(p).depth # 0
  <2>1. u = t /\ Parsed(p) = Waiting(p)
    BY <1>4, <1>9 DEF Parsed
  <2> QED
    BY <1>7, <1>8, <1>9, <2>1
<1>10. CASE Top(p).depth = 0
  <2>1. Waiting(p) = p /\ Parsed(p) = Kept(p) /\ u = AddConstant(t, Str(name))
    BY <1>4, <1>10 DEF Waiting, Parsed
  <2>2. name \in Lexeme
    BY <1>7, LexemeFacts
  <2> HIDE DEF name, u
  <2>3. Turns(t, p, u, Kept(p)) /\ (u.errors = {} => IsString(u.functions, This(u).function, ConstantIndex(t)))
    BY <1>7, <2>1, <2>2, NameTurns
  <2>4. Turns(s, p, u, Parsed(p))
    BY <1>8, <2>1, <2>3, TurnsTransitive
  <2>5. Base(u) /\ InText(u)
    BY <1>7, <2>3 DEF Turns
  <2>6. ASSUME u.errors = {} PROVE IsString(u.functions, This(u).function, VariableIndex(s))
    <3>1. t.errors = {} /\ r.errors = {}
      BY <1>5, <2>3, <2>6 DEF Turns
    <3>2. t = r
      <4>1. This(r).scope_depth = 0
        <5>1. Typed(r, p)
          BY <1>2, <3>1 DEF Turns
        <5> QED
          BY <1>2, <1>10, <5>1, TopRow
      <4> QED
        BY <1>2, <3>1, <4>1, DeclareForm DEF t
    <3>3. This(r).function = This(s).function
      <4>1. Typed(r, p)
        BY <1>2, <3>1 DEF Turns
      <4> QED
        BY <1>2, <4>1, TopRow
    <3>4. Function(t) = Function(s)
      BY <1>3, <3>2, <3>3 DEF Function
    <3>5. VariableIndex(s) = ConstantIndex(t)
      BY <1>1, <1>10, <3>4 DEF VariableIndex, ConstantIndex
    <3> QED
      BY <2>3, <2>6, <3>5
  <2> QED
    BY <2>4, <2>5, <2>6 DEF u
<1> QED
  BY <1>9, <1>10

-----------------------------------------------------------------------------
(* Variables are defined. *)

(* A local that is made ready is otherwise the same, and so are the others. *)
LEMMA ReadiedForm ==
  ASSUME NEW locals, locals \in Seq(LocalType), NEW n, n \in 1 .. Len(locals), NEW depth, depth \in Int
  PROVE  /\ Readied(locals, n, depth) \in Seq(LocalType) /\ Len(Readied(locals, n, depth)) = Len(locals)
         /\ \A i \in 1 .. Len(locals) :
              /\ Readied(locals, n, depth)[i].name = locals[i].name
              /\ Readied(locals, n, depth)[i].is_captured = locals[i].is_captured
              /\ Readied(locals, n, depth)[i].depth = IF i = n THEN depth ELSE locals[i].depth
              /\ i # n => Readied(locals, n, depth)[i] = locals[i]
<1> DEFINE l == [locals[n] EXCEPT !.depth = depth, !.ready = TRUE]
<1>1. locals[n] \in LocalType
  OBVIOUS
<1>2. /\ l \in LocalType /\ l.depth = depth /\ l.name = locals[n].name
      /\ l.is_captured = locals[n].is_captured
  BY <1>1 DEF LocalType
<1> HIDE DEF l
<1>3. Readied(locals, n, depth) = [locals EXCEPT ![n] = l]
  BY DEF Readied, l
<1>4. /\ [locals EXCEPT ![n] = l] \in Seq(LocalType)
      /\ Len([locals EXCEPT ![n] = l]) = Len(locals)
      /\ \A i \in 1 .. Len(locals) : [locals EXCEPT ![n] = l][i] = IF i = n THEN l ELSE locals[i]
  BY <1>2, ExceptSeq
<1> QED
  BY <1>2, <1>3, <1>4

(* In the compiler c the last of the locals is ready. *)
Readies(s, c) ==
  /\ c \in CompilerType /\ c.function = This(s).function /\ c.upvalues = This(s).upvalues
  /\ c.scope_depth = This(s).scope_depth /\ This(s).scope_depth \in Nat \ {0}
  /\ This(s).locals \in Seq(LocalType) /\ Len(This(s).locals) \in Nat /\ Len(This(s).locals) >= 2
  /\ c.locals = Readied(This(s).locals, Len(This(s).locals), This(s).scope_depth)

(* mark_ready *)
LEMMA MarkReadyForm ==
  ASSUME NEW s, Base(s), Declared(This(s)), This(s).scope_depth > 0
  PROVE  \E c : Readies(s, c) /\ Replaces(s, MarkReady(s), c)
<1> DEFINE k == Me(s)
           n == Len(This(s).locals)
           depth == This(s).scope_depth
           locals == Readied(This(s).locals, n, depth)
           c == WithLocals(This(s), locals)
           t == WithCompiler(s, k, c)
<1>1. /\ IsState(s) /\ k \in DOMAIN s.compilers /\ k = Len(s.compilers) /\ This(s) \in CompilerType
      /\ This(s) = s.compilers[k]
  BY BaseFacts
<1>2. /\ This(s).locals \in Seq(LocalType) /\ n \in 1 .. UINT8_MAX + 1
      /\ DOMAIN This(s).locals = 1 .. n
      /\ n \in Nat /\ depth \in Nat /\ n >= 2
      /\ \A i \in DOMAIN This(s).locals : DepthOk(i, This(s).locals[i].depth)
  BY OwnFacts DEF Declared
<1>3. MarkReady(s) = t
  BY <1>1 DEF MarkReady, IsState, WithCompiler, WithLocals, CompilerType, Readied
<1>4. /\ locals \in Seq(LocalType)
      /\ Len(locals) = n
      /\ \A i \in 1 .. n : locals[i].depth = IF i = n THEN depth ELSE This(s).locals[i].depth
  <2>1. n \in 1 .. Len(This(s).locals) /\ depth \in Int /\ n = Len(This(s).locals)
    BY <1>2
  <2> HIDE DEF n, depth
  <2> QED
    BY <1>2, <2>1, ReadiedForm
<1> HIDE DEF locals
<1>5. DOMAIN locals = 1 .. n
  BY <1>4
<1>6. ASSUME NEW i \in DOMAIN locals PROVE DepthOk(i, locals[i].depth)
  BY <1>2, <1>4, <1>5 DEF DepthOk
<1>7. /\ c \in CompilerType
      /\ c.function = This(s).function
      /\ c.scope_depth = This(s).scope_depth
      /\ c.upvalues = This(s).upvalues
      /\ c.locals = locals
      /\ c.panic_mode = This(s).panic_mode
      /\ c.had_error = This(s).had_error
  BY <1>1, <1>4, WithLocalsFacts
<1> HIDE DEF c
<1>8. Replaces(s, t, c)
  <2>1. Len(c.locals) \in 1 .. UINT8_MAX + 1
    BY <1>2, <1>4, <1>7
  <2>2. /\ Base(t) /\ t.work = s.work /\ t.functions = s.functions /\ t.errors = s.errors
        /\ Len(t.compilers) = Len(s.compilers) /\ Me(t) = Me(s) /\ This(t) = c
        /\ \A j \in DOMAIN s.compilers : t.compilers[j] = IF j = Me(s) THEN c ELSE s.compilers[j]
    BY <1>6, <1>7, <2>1, LocalsChange
  <2> HIDE DEF t
  <2> QED
    BY <2>2 DEF Replaces
<1>9. Readies(s, c)
  BY <1>2, <1>7 DEF Readies, locals
<1> HIDE DEF t
<1> QED
  BY <1>3, <1>8, <1>9

(* The locals of the compiler c are in the order of their scopes, and all are defined. *)
LEMMA ReadiedLocals ==
  ASSUME NEW s, Base(s), NEW c, Readies(s, c), LocalsOk(This(s), TRUE), NEW top
  PROVE  /\ LocalsOk(c, top) /\ Waits(c) = FALSE
         /\ Len(c.locals) = Len(This(s).locals) /\ Len(c.locals) \in Nat /\ Len(c.locals) >= 2
         /\ \A i \in 1 .. Len(c.locals) :
              /\ c.locals[i].is_captured = This(s).locals[i].is_captured
              /\ c.locals[i].depth = IF i = Len(c.locals) THEN This(s).scope_depth ELSE This(s).locals[i].depth
         /\ LevelOf(c) = Level(This(s).function, This(s).scope_depth, FALSE)
<1> DEFINE old == This(s).locals
           n == Len(old)
           d == This(s).scope_depth
<1>1. /\ c.function = This(s).function /\ c.scope_depth = d /\ d \in Nat \ {0}
      /\ old \in Seq(LocalType) /\ n \in Nat /\ n >= 2 /\ c.locals = Readied(old, n, d)
  BY DEF Readies
<1>2. \A i \in 1 .. n : old[i].depth \in Int
  <2> HIDE DEF old
  <2> SUFFICES ASSUME NEW i \in 1 .. n PROVE old[i].depth \in Int
    OBVIOUS
  <2>1. old[i] \in LocalType
    BY <1>1
  <2> QED
    BY <2>1 DEF LocalType
<1>3. /\ old[1].name = ""
      /\ \A i \in 1 .. n : /\ old[i].ready => old[i].depth # -1
                           /\ old[i].depth <= d
                           /\ old[i].depth = -1 => i = n
                           /\ \A j \in i .. n : old[j].depth # -1 => old[i].depth <= old[j].depth
  BY DEF LocalsOk
<1>4. n = Len(old)
  OBVIOUS
<1> HIDE DEF old, n, d
<1>5. /\ Len(c.locals) = n
      /\ \A i \in 1 .. n :
           /\ c.locals[i].name = old[i].name
           /\ c.locals[i].is_captured = old[i].is_captured
           /\ c.locals[i].depth = IF i = n THEN d ELSE old[i].depth
           /\ i # n => c.locals[i] = old[i]
  <2>1. n \in 1 .. Len(old) /\ d \in Int
    BY <1>1, <1>4
  <2>2. /\ Len(Readied(old, n, d)) = Len(old)
        /\ \A i \in 1 .. Len(old) :
              /\ Readied(old, n, d)[i].name = old[i].name
              /\ Readied(old, n, d)[i].is_captured = old[i].is_captured
              /\ Readied(old, n, d)[i].depth = IF i = n THEN d ELSE old[i].depth
              /\ i # n => Readied(old, n, d)[i] = old[i]
    BY <1>1, <2>1, ReadiedForm
  <2> QED
    BY <1>1, <1>4, <2>2
<1>6. \A i \in 1 .. n : c.locals[i].depth # -1 /\ c.locals[i].depth <= d /\ c.locals[i].depth \in Int
  <2> SUFFICES ASSUME NEW i \in 1 .. n
               PROVE  c.locals[i].depth # -1 /\ c.locals[i].depth <= d /\ c.locals[i].depth \in Int
    OBVIOUS
  <2>1. CASE i = n
    <3>1. c.locals[i].depth = d
      BY <1>5, <2>1
    <3> QED
      BY ONLY <1>1, <3>1
  <2>2. CASE i # n
    <3>1. c.locals[i].depth = old[i].depth
      BY <1>5, <2>2
    <3>2. old[i].depth \in Int /\ old[i].depth <= d /\ old[i].depth # -1
      BY <1>2, <1>3, <2>2
    <3> QED
      BY ONLY <3>1, <3>2
  <2> QED
    BY <2>1, <2>2
<1>7. \A i \in 1 .. n : \A j \in i .. n : c.locals[i].depth <= c.locals[j].depth
  <2> SUFFICES ASSUME NEW i \in 1 .. n, NEW j \in i .. n PROVE c.locals[i].depth <= c.locals[j].depth
    OBVIOUS
  <2>1. j \in 1 .. n
    BY <1>1
  <2>2. CASE j = n
    BY <1>1, <1>5, <1>6, <2>1, <2>2
  <2>3. CASE j # n
    <3>1. i # n
      BY <1>1, <2>3
    <3>2. old[j].depth # -1
      BY <1>3, <2>1, <2>3
    <3> QED
      BY <1>3, <1>5, <2>1, <2>3, <3>1, <3>2
  <2> QED
    BY <2>2, <2>3
<1>8. 1 \in 1 .. n /\ n \in 1 .. n
  BY <1>1
<1>9. LocalsOk(c, top)
  BY <1>1, <1>3, <1>5, <1>6, <1>7, <1>8 DEF LocalsOk
<1>10. Waits(c) = FALSE
  BY <1>5, <1>6, <1>8 DEF Waits
<1>11. LevelOf(c) = Level(This(s).function, This(s).scope_depth, FALSE)
  BY <1>1, <1>10 DEF LevelOf, d
<1> QED
  BY <1>1, <1>5, <1>9, <1>10, <1>11 DEF d, n, old

(* None of the entries is of the scope that is open. *)
NotHere(s, entries) == \A e \in entries : ~(e.fun = This(s).function /\ e.depth = This(s).scope_depth)

(* The entries of the scopes around know of the same locals. *)
LEMMA ReadiedCounted ==
  ASSUME NEW s, Base(s), NEW c, Readies(s, c), LocalsOk(This(s), TRUE), Waits(This(s)),
         NEW e, e \in EntryType, CountedBy(This(s), e), e.depth # This(s).scope_depth
  PROVE  CountedBy(c, e)
<1> DEFINE old == This(s).locals
           n == Len(old)
           d == This(s).scope_depth
<1>1. /\ Len(c.locals) = n /\ n \in Nat /\ n >= 2 /\ c.scope_depth = d /\ d \in Nat
      /\ \A i \in 1 .. n : c.locals[i].depth = IF i = n THEN d ELSE old[i].depth
  <2>1. c.scope_depth = d /\ d \in Nat
    BY DEF Readies
  <2>2. /\ Len(c.locals) = n /\ Len(c.locals) \in Nat /\ Len(c.locals) >= 2
        /\ \A i \in 1 .. Len(c.locals) : c.locals[i].depth = IF i = Len(c.locals) THEN d ELSE old[i].depth
    BY ReadiedLocals
  <2> HIDE DEF old, n, d
  <2> QED
    BY <2>1, <2>2
<1>2. e.depth \in Nat
  BY DEF EntryType
<1>3. /\ e.depth <= d /\ e.locals \in 1 .. n
      /\ \A i \in 1 .. n : i <= e.locals <=> old[i].depth \in 0 .. e.depth
  BY DEF CountedBy
<1>4. old[n].depth = -1 /\ n \in 1 .. n /\ e.depth # d
  BY <1>1 DEF Waits
<1> HIDE DEF old, n, d
<1>5. \A i \in 1 .. n : i <= e.locals <=> c.locals[i].depth \in 0 .. e.depth
  <2> SUFFICES ASSUME NEW i \in 1 .. n PROVE i <= e.locals <=> c.locals[i].depth \in 0 .. e.depth
    OBVIOUS
  <2>1. CASE i = n
    <3>1. ~(i <= e.locals)
      BY <1>3, <1>4, <2>1
    <3>2. c.locals[i].depth = d
      BY <1>1, <2>1
    <3>3. d \notin 0 .. e.depth
      BY ONLY <1>1, <1>2, <1>3, <1>4
    <3> QED
      BY <3>1, <3>2, <3>3
  <2>2. CASE i # n
    BY <1>1, <1>3, <2>2
  <2> QED
    BY <2>1, <2>2
<1> QED
  BY <1>1, <1>3, <1>5 DEF CountedBy

(* The value on top of the stack is that of the variable. *)
LEMMA ReadiedRow ==
  ASSUME NEW s, Base(s), NEW c, Readies(s, c), Waits(This(s)),
         NEW temps, temps \in Nat, temps >= 1,
         NEW open, NEW marks, open \subseteq EntryType, marks \subseteq EntryType,
         Row(s.functions, This(s), TRUE, temps, open, marks), \A e \in marks : e.temps = 0,
         NEW later, later \subseteq marks, NotHere(s, open), NotHere(s, later)
  PROVE  Row(s.functions, c, TRUE, temps - 1, open, later)
<1> DEFINE old == This(s).locals
           n == Len(old)
           f == This(s).function
           fs == s.functions
<1>1. LocalsOk(This(s), TRUE) /\ c.function = f /\ c.upvalues = This(s).upvalues
  BY DEF Row, Readies
<1>2. /\ LocalsOk(c, TRUE) /\ Waits(c) = FALSE /\ Len(c.locals) = n /\ n \in Nat /\ n >= 2
      /\ \A i \in 1 .. n : c.locals[i].is_captured = old[i].is_captured
  BY <1>1, ReadiedLocals
<1>3. OnStack(This(s), TRUE) = n - 1
  BY DEF OnStack, Waits
<1>4. OnStack(c, TRUE) = n
  BY <1>2 DEF OnStack, Waits
<1>5. ~old[n].is_captured
  <2>1. n \in 1 .. n /\ old[n].depth = -1
    BY <1>2 DEF Waits
  <2> QED
    BY <1>1, <2>1 DEF LocalsOk
<1>6. IsProgram(fs) /\ f \in DOMAIN fs
  BY BaseProgram, BaseChain
<1>7. PICK y : FrameOk(fs, f, old, y, n - 1, temps, open, marks)
  BY <1>3 DEF Row
<1>8. n = Len(old) /\ Len(c.locals) = n /\ Len(old) \in Nat
  BY <1>2
<1>9. \A e \in open \cup later : e.fun = f => CountedBy(c, e)
  <2> SUFFICES ASSUME NEW e \in open \cup later, e.fun = f PROVE CountedBy(c, e)
    OBVIOUS
  <2>1. CountedBy(This(s), e)
    BY DEF Row
  <2>2. e \in EntryType /\ e.depth # This(s).scope_depth
    BY DEF NotHere
  <2> QED
    BY <1>1, <2>1, <2>2, ReadiedCounted
<1> HIDE DEF old, n, f, fs
<1>10. \E z : FrameOk(fs, f, c.locals, z, n, temps - 1, open, later)
  <2>1. FrameOk(fs, f, c.locals, y, n - 1, temps, open, marks)
    <3>1. n - 1 <= Len(c.locals) /\ Len(c.locals) \in Nat
      BY <1>2
    <3>2. \A i \in 1 .. n - 1 : c.locals[i].is_captured = old[i].is_captured
      BY <1>2
    <3> QED
      BY <1>7, <1>8, <3>1, <3>2, FrameLocals
  <2>2. n - 1 + 1 = n /\ n - 1 + 1 <= Len(c.locals) /\ Len(c.locals) \in Nat /\ temps > 0
    BY <1>2
  <2>3. ~c.locals[n - 1 + 1].is_captured
    <3>1. n \in 1 .. n
      BY <1>2
    <3> QED
      BY <1>2, <1>5, <2>2, <3>1
  <2>4. \A e \in marks : e.fun = f /\ e.at # -1 => e.temps = 0
    OBVIOUS
  <2> DEFINE z == Raised(y, Len(fs[f].code), n - 1 + 1)
  <2>5. FrameOk(fs, f, c.locals, z, n - 1 + 1, temps - 1, open, marks)
    BY <1>6, <2>1, <2>2, <2>3, <2>4, FrameRaised
  <2> HIDE DEF z
  <2>6. FrameOk(fs, f, c.locals, z, n, temps - 1, open, marks)
    BY <2>2, <2>5
  <2>7. Extends(fs[f], fs[f]) /\ SameClosures(fs, fs, f)
    BY <1>6, ExtendsReflexive DEF SameClosures
  <2>8. \A e \in later : e.fun = f => e \in marks
    OBVIOUS
  <2>9. FrameOk(fs, f, c.locals, z, n, temps - 1, open, later)
    BY <1>6, <2>6, <2>7, <2>8, FrameStays
  <2> QED
    BY <2>9
<1>11. \A i \in DOMAIN c.upvalues : c.upvalues[i].is_local => c.upvalues[i].index >= 1
  BY <1>1 DEF Row
<1> QED
  BY <1>1, <1>2, <1>4, <1>9, <1>10, <1>11 DEF Row, f, fs

(* What becomes of the plan. *)
Settles(p, marks) == Plan(Defined(p), p.open, marks, p.temps - 1, p.fresh)

(* The innermost variable may be defined: no jump waits in its scope, and its value is there. *)
Defines1(p, marks) ==
  /\ Top(p).depth > 0 /\ Top(p).waits = TRUE /\ p.temps >= 1
  /\ marks \subseteq p.marks /\ Clear(p, p.open) /\ Clear(p, marks)

(* mark_ready *)
LEMMA MarkReadyTurns ==
  ASSUME NEW s, Base(s), Declared(This(s)), This(s).scope_depth > 0,
         NEW p, NEW marks, Typed(s, p) => Defines1(p, marks)
  PROVE  Turns(s, p, MarkReady(s), Settles(p, marks))
<1> DEFINE t == MarkReady(s)
           q == Settles(p, marks)
<1>1. PICK c : Readies(s, c) /\ Replaces(s, t, c)
  BY MarkReadyForm
<1>2. Base(t) /\ t.work = s.work /\ (InText(s) => InText(t))
  BY MarkReadyFacts DEF Defines
<1>3. t.errors = s.errors
  BY <1>1 DEF Replaces
<1> HIDE DEF t
<1> SUFFICES ASSUME Typed(s, p) PROVE Typed(t, q) /\ More(s.functions, t.functions)
  BY <1>2, <1>3 DEF Turns, t
<1>4. /\ Row(s.functions, This(s), TRUE, p.temps, p.open, p.marks) /\ p.temps \in Nat
      /\ Top(p) = LevelOf(This(s)) /\ p.open \subseteq EntryType /\ p.marks \subseteq EntryType
      /\ Top(p).fun = This(s).function /\ Top(p).depth = This(s).scope_depth
      /\ PlanOk(s.functions, s.compilers, p)
  BY TopRow
<1>5. /\ Top(p).waits = TRUE /\ p.temps >= 1
      /\ marks \subseteq p.marks /\ Clear(p, p.open) /\ Clear(p, marks)
  BY DEF Defines1
<1>6. Waits(This(s))
  BY <1>4, <1>5 DEF LevelOf, Level
<1>7. NotHere(s, p.open) /\ NotHere(s, marks)
  BY <1>4, <1>5 DEF Clear, Here, NotHere
<1>8. \A e \in p.marks : e.temps = 0
  BY <1>4 DEF PlanOk
<1>9. Row(s.functions, c, TRUE, p.temps - 1, p.open, marks)
  BY <1>1, <1>4, <1>5, <1>6, <1>7, <1>8, ReadiedRow
<1>10. LevelOf(c) = Level(This(s).function, This(s).scope_depth, FALSE)
  <2>1. LocalsOk(This(s), TRUE)
    BY <1>4 DEF Row
  <2> QED
    BY <1>1, <2>1, ReadiedLocals
<1>11. /\ q.levels = [p.levels EXCEPT ![Len(p.levels)] = LevelOf(c)]
       /\ q.open = p.open /\ q.marks = marks /\ q.temps = p.temps - 1 /\ q.fresh = p.fresh
  BY <1>4, <1>10 DEF Settles, Plan, Defined
<1> HIDE DEF q
<1>12. Row(s.functions, c, TRUE, q.temps, q.open, q.marks) /\ q.temps \in Nat /\ q.marks \subseteq p.marks
  <2>1. Row(s.functions, c, TRUE, q.temps, q.open, q.marks)
    BY <1>9, <1>11
  <2>2. q.temps \in Nat
    BY ONLY <1>4, <1>5, <1>11
  <2> QED
    BY <1>5, <1>11, <2>1, <2>2
<1>13. c.function = This(s).function /\ c.upvalues = This(s).upvalues
  BY <1>1 DEF Readies
<1> QED
  BY <1>1, <1>11, <1>12, <1>13, ReplacesTyping

(* A variable whose name has been read can be defined when it has its value. *)
LEMMA DefineGoes ==
  ASSUME NEW s, Base(s), NEW p, Typed(s, p), Top(p).waits = FALSE,
         NEW q, Moves(p, q), q.temps = 0, Clear(p, p.open), Clear(p, q.marks),
         NEW fs, NEW c, c.do = "define_variable", Top(p).depth = 0 => IsString(fs, Top(p).fun, c.index),
         NEW r, r = With(Parsed(p), p.open, p.marks, 1)
  PROVE  Goes(fs, r, c, q)
<1>1. /\ Len(Parsed(p).levels) = Len(p.levels)
      /\ Top(Parsed(p)).fun = Top(p).fun /\ Top(Parsed(p)).depth = Top(p).depth
      /\ Top(p).depth = 0 => Parsed(p).levels = p.levels
      /\ Top(p).depth # 0 => Top(Parsed(p)).waits = TRUE
      /\ Defined(Parsed(p)) = p.levels
  BY ParsedFacts
<1>2. /\ r.levels = Parsed(p).levels /\ r.open = p.open /\ r.marks = p.marks /\ r.temps = 1
      /\ r.fresh = FALSE /\ Top(r) = Top(Parsed(p))
  BY DEF With, Plan, Top
<1>3. Defined(r) = p.levels
  BY <1>1, <1>2 DEF Defined
<1>4. q.levels = p.levels /\ q.open = p.open /\ q.marks \subseteq p.marks /\ q.fresh = FALSE
  BY DEF Moves
<1>5. Top(p).depth \in Nat
  <2>1. Top(p).depth = This(s).scope_depth
    BY TopRow
  <2> QED
    BY <2>1, OwnFacts
<1>6. DefinesLast(r, q)
  BY <1>1, <1>2, <1>3, <1>4, <1>5 DEF DefinesLast
<1>7. Clear(r, r.open) /\ Clear(r, q.marks)
  BY <1>1, <1>2 DEF Clear, Here
<1>8. Top(r).depth = 0 => IsString(fs, Top(r).fun, c.index)
  BY <1>1, <1>2
<1> QED
  BY <1>2, <1>4, <1>6, <1>7, <1>8, GoesDefining

(* `var_declaration' *)
LEMMA VarDeclarationGoal ==
  ASSUME TokensOk, NEW s, NEW c, NEW p, NEW q, Stands(s, c, p, q), c.do = "var_declaration"
  PROVE  Goal(RunVarDeclaration(s, c))
<1>1. Base(s) /\ Typed(s, p) /\ Goes(s.functions, p, c, q) /\ Fits(s.functions, q, s.work) /\ InText(s)
  BY StandsFacts
<1>2. Moves(p, q) /\ p.temps = 0 /\ q.temps = 0 /\ Clear(p, p.open) /\ Clear(p, q.marks)
  BY <1>1, GoesDeclaring DEF Declaring
<1>3. Top(p).waits = FALSE
  BY StandsSettled DEF StatementName
<1> DEFINE t == ParseVariable(s)
           i == VariableIndex(s)
           define == [do |-> "define_variable", index |-> i]
           semicolon == Expect("SEMICOLON")
           r == Kept(Parsed(p))
           m == With(Parsed(p), p.open, p.marks, 1)
<1>4. RunVarDeclaration(s, c) = IF Check(t, "EQUAL") THEN Then(Advance(t), <<Expression, semicolon, define>>)
                                ELSE Then(Emit(t, "OP_NIL"), <<semicolon, define>>)
  <2> DEFINE end == <<semicolon, define>>
  <2>1. RunVarDeclaration(s, c) = IF Check(t, "EQUAL") THEN Then(Advance(t), <<Expression>> \o end)
                                  ELSE Then(Emit(t, "OP_NIL"), end)
    BY DEF RunVarDeclaration
  <2>2. <<Expression>> \o end = <<Expression, semicolon, define>>
    BY ConsFacts
  <2> QED
    BY <2>1, <2>2
<1>5. /\ Turns(s, p, t, Parsed(p)) /\ InText(t) /\ Base(t)
      /\ (t.errors = {} /\ Top(p).depth = 0 => IsString(t.functions, This(t).function, i))
  BY <1>1, <1>3, ParseTurns
<1>6. define \in CallType /\ define.do = "define_variable" /\ define.index = i
  <2>1. define \in Define
    BY <1>1, ParseVariableFacts, StatementCallFacts
  <2> QED
    BY <2>1 DEF CallType
<1>7. semicolon \in CallType /\ Expression \in CallType /\ semicolon.do = "consume"
      /\ Expression.do = "parse_precedence"
  BY PartCalls, CallNames
<1>8. /\ Parsed(p).open = p.open /\ Parsed(p).marks = p.marks /\ Parsed(p).temps = 0
      /\ Top(Parsed(p)).fun = Top(p).fun
  <2>1. /\ Parsed(p).open = p.open /\ Parsed(p).marks = p.marks /\ Parsed(p).temps = p.temps
        /\ Top(Parsed(p)).fun = Top(p).fun
    BY <1>1, <1>3, ParsedFacts
  <2> QED
    BY <1>2, <2>1
<1>9. /\ r.levels = Parsed(p).levels /\ r.open = p.open /\ r.marks = p.marks /\ r.temps = 0 /\ r.fresh = FALSE
      /\ m.levels = Parsed(p).levels /\ m.open = p.open /\ m.marks = p.marks /\ m.temps = 1 /\ m.fresh = FALSE
      /\ Top(r) = Top(Parsed(p))
  <2>1. /\ r.levels = Parsed(p).levels /\ r.open = p.open /\ r.marks = p.marks /\ r.temps = 0 /\ r.fresh = FALSE
        /\ Top(r) = Top(Parsed(p))
    BY <1>8, KeptFacts
  <2>2. /\ m.levels = Parsed(p).levels /\ m.open = p.open /\ m.marks = p.marks /\ m.temps = 1 /\ m.fresh = FALSE
    BY DEF With, Plan
  <2> QED
    BY <2>1, <2>2
<1>10. m = With(Parsed(p), Parsed(p).open, Parsed(p).marks, Parsed(p).temps + 1)
  BY <1>8
<1>11. m = With(Parsed(p), p.open, p.marks, 1)
  OBVIOUS
<1>12. Turns(s, p, t, r)
  <2>1. Turns(t, Parsed(p), t, r)
    BY <1>5, KeptTurns
  <2> HIDE DEF t, r
  <2> QED
    BY <1>1, <1>5, <2>1, TurnsTransitive
<1>13. Moves(r, m) /\ Moves(m, m) /\ Loose(r, r)
  BY <1>9 DEF Moves, Loose
<1> HIDE DEF t, i, define, semicolon, r, m
<1>14. ASSUME t.errors = {}, Typed(t, r), NEW fs, \A f, j : IsString(t.functions, f, j) => IsString(fs, f, j)
       PROVE  Goes(fs, m, define, q)
  <2>1. Top(r).fun = This(t).function
    BY <1>5, <1>14, TopRow
  <2>2. Top(p).depth = 0 => IsString(fs, Top(p).fun, define.index)
    BY <1>5, <1>6, <1>8, <1>9, <1>14, <2>1
  <2> QED
    BY <1>1, <1>2, <1>3, <1>6, <1>11, <2>2, DefineGoes
<1>15. ASSUME NEW fs PROVE Goes(fs, r, Expression, m) /\ Goes(fs, m, semicolon, m)
  BY <1>7, <1>9, <1>13, GoesParsing, GoesReading
<1>16. CASE Check(t, "EQUAL")
  <2> DEFINE u == Advance(t)
  <2>1. ~Check(t, "LOX_EOF")
    BY <1>16 DEF Check
  <2>2. Turns(t, r, u, r) /\ u.functions = t.functions /\ u.errors = t.errors
    BY <1>5, <1>13, <2>1, AdvanceTurns, AdvanceFacts
  <2>3. Turns(s, p, u, r)
    BY <1>1, <1>12, <2>2, TurnsTransitive
  <2> HIDE DEF u
  <2>4. ASSUME Typed(u, r), u.errors = {}
        PROVE  Goes(u.functions, r, Expression, m) /\ Goes(u.functions, m, semicolon, m) /\ Goes(u.functions, m, define, q)
    <3>1. s.errors = {} /\ t.errors = {}
      BY <1>12, <2>2, <2>4 DEF Turns
    <3>2. Typed(t, r)
      BY <1>1, <1>12, <3>1 DEF Turns
    <3>3. Goes(u.functions, m, define, q)
      BY <1>14, <2>2, <3>1, <3>2
    <3> QED
      BY <1>15, <3>3
  <2>5. Goal(Then(u, <<Expression, semicolon, define>>))
    BY <1>1, <1>6, <1>7, <2>3, <2>4, Hands3
  <2> QED
    BY <1>4, <1>16, <2>5 DEF u
<1>17. CASE ~Check(t, "EQUAL")
  <2> DEFINE u == Emit(t, "OP_NIL")
  <2>1. Turns(t, Parsed(p), u, m)
    BY <1>5, <1>10, PushTurns DEF PushOps
  <2>2. Turns(s, p, u, m)
    BY <1>1, <1>5, <2>1, TurnsTransitive
  <2> HIDE DEF u
  <2>3. ASSUME Typed(u, m), u.errors = {}
        PROVE  Goes(u.functions, m, semicolon, m) /\ Goes(u.functions, m, define, q)
    <3>1. s.errors = {} /\ t.errors = {}
      BY <1>5, <2>1, <2>3 DEF Turns
    <3>2. Typed(t, r) /\ Typed(t, Parsed(p))
      BY <1>1, <1>5, <1>12, <3>1 DEF Turns
    <3>3. More(t.functions, u.functions) /\ Base(u)
      BY <2>1, <2>3, <3>2 DEF Turns
    <3>4. \A f, j : IsString(t.functions, f, j) => IsString(u.functions, f, j)
      BY <1>5, <3>3, BaseProgram, IsStringGrows
    <3>5. Goes(u.functions, m, define, q)
      BY <1>14, <3>1, <3>2, <3>4
    <3> QED
      BY <1>15, <3>5
  <2>4. Goal(Then(u, <<semicolon, define>>))
    BY <1>1, <1>6, <1>7, <2>2, <2>3, Hands2
  <2> QED
    BY <1>4, <1>17, <2>4 DEF u
<1> QED
  BY <1>16, <1>17

(* A global is defined. *)
LEMMA GlobalTurns ==
  ASSUME NEW s, Base(s), NEW p, NEW index, index \in 0 .. UINT8_MAX,
         s.errors = {} /\ Typed(s, p) => IsString(s.functions, This(s).function, index) /\ p.temps >= 1
  PROVE  Turns(s, p, EmitWith(s, "OP_DEFINE_GLOBAL", index), With(p, p.open, p.marks, p.temps - 1))
<1> DEFINE op == "OP_DEFINE_GLOBAL"
<1>1. /\ op \in PlainCode /\ Operands[op] = 1 /\ Pops(op, index) = 1 /\ Pushes(op) = 0
  BY StackFacts
<1>2. s.errors = {} /\ Typed(s, p) => ArgOk(s, op, index) /\ Pops(op, index) <= p.temps
  <2> SUFFICES ASSUME s.errors = {}, Typed(s, p) PROVE ArgOk(s, op, index) /\ Pops(op, index) <= p.temps
    OBVIOUS
  <2>1. p.temps \in Nat
    BY TopRow
  <2>2. ArgOk(s, op, index)
    BY DEF ArgOk
  <2> QED
    BY <1>1, <2>1, <2>2
<1>3. Typed(s, p) => p.temps - 1 = p.temps - Pops(op, index) + Pushes(op)
  <2> SUFFICES ASSUME Typed(s, p) PROVE p.temps - 1 = p.temps - Pops(op, index) + Pushes(op)
    OBVIOUS
  <2>1. p.temps \in Nat
    BY TopRow
  <2> QED
    BY <1>1, <2>1
<1> HIDE DEF op
<1>4. Turns(s, p, EmitWith(s, op, index), With(p, p.open, p.marks, p.temps - 1))
  BY <1>1, <1>2, <1>3, OperandTurns
<1> QED
  BY <1>4 DEF op

(* `define_variable' *)
LEMMA DefineVariableGoal ==
  ASSUME NEW s, NEW c, NEW p, NEW q, Stands(s, c, p, q), c.do = "define_variable"
  PROVE  Goal(RunDefineVariable(s, c))
<1>1. Base(s) /\ Typed(s, p) /\ Goes(s.functions, p, c, q) /\ Fits(s.functions, q, s.work)
      /\ c \in CallType /\ Ready(s, c)
  BY StandsFacts DEF Stands
<1>2. c.index \in 0 .. UINT8_MAX
  BY <1>1, ShapeFacts
<1>3. Declared(This(s))
  <2>1. c \in Define
    BY <1>1, KindFacts
  <2> QED
    BY <1>1, <2>1 DEF Ready
<1>4. /\ q.open = p.open /\ q.marks \subseteq p.marks /\ q.fresh = FALSE
      /\ p.temps = 1 /\ q.temps = 0 /\ Clear(p, p.open) /\ Clear(p, q.marks)
      /\ DefinesLast(p, q) /\ (Top(p).depth = 0 => IsString(s.functions, Top(p).fun, c.index))
  <2>1. Goes(s.functions, p, c, q) /\ c.do = "define_variable"
    BY <1>1
  <2> QED
    <3> DEFINE fs == s.functions
    <3>1. Goes(fs, p, c, q) <=> /\ q.open = p.open /\ q.marks \subseteq p.marks /\ q.fresh = FALSE
                                /\ p.temps = 1 /\ q.temps = 0
                                /\ Clear(p, p.open) /\ Clear(p, q.marks)
                                /\ DefinesLast(p, q)
                                /\ Top(p).depth = 0 => IsString(fs, Top(p).fun, c.index)
      <4> HIDE DEF fs
      <4> QED
        BY <2>1, GoesDefining
    <3> QED
      BY ONLY <2>1, <3>1
<1>5. Top(p).fun = This(s).function /\ Top(p).depth = This(s).scope_depth
  BY <1>1, TopRow
<1>6. CASE This(s).scope_depth > 0
  <2>1. Top(p).waits = TRUE /\ q.levels = Defined(p)
    <3>1. Top(p).waits = Waits(This(s))
      <4>1. Top(p) = LevelOf(This(s))
        BY <1>1, TopRow
      <4> QED
        BY <4>1 DEF LevelOf, Level
    <3> QED
      BY <1>4, <1>5, <1>6, <3>1 DEF DefinesLast, Waits
  <2>2. Defines1(p, q.marks)
    BY <1>4, <1>5, <1>6, <2>1 DEF Defines1
  <2>3. Turns(s, p, MarkReady(s), Settles(p, q.marks))
    BY <1>1, <1>3, <1>6, <2>2, MarkReadyTurns
  <2>4. Loose(Kept(Settles(p, q.marks)), q)
    BY <1>4, <2>1 DEF Settles, Plan, Loose, Kept, With
  <2>5. Loose(Settles(p, q.marks), q)
    BY <1>4, <2>1 DEF Settles, Plan, Loose
  <2>6. Goal(MarkReady(s))
    BY <1>1, <2>3, <2>5, Hands0
  <2> QED
    BY <1>6, <2>6 DEF RunDefineVariable, DefineVariable
<1>7. CASE ~(This(s).scope_depth > 0)
  <2> DEFINE t == EmitWith(s, "OP_DEFINE_GLOBAL", c.index)
             r == With(p, p.open, p.marks, p.temps - 1)
  <2>1. This(s).scope_depth = 0
    BY <1>1, <1>7, OwnFacts
  <2>2. Turns(s, p, t, r)
    BY <1>1, <1>2, <1>4, <1>5, <2>1, GlobalTurns
  <2>3. Loose(r, q)
    BY <1>4, <1>5, <1>7 DEF With, Plan, Loose, DefinesLast
  <2> HIDE DEF t, r
  <2>4. Goal(t)
    BY <1>1, <2>2, <2>3, Hands0
  <2> QED
    BY <1>7, <2>4 DEF RunDefineVariable, DefineVariable, t
<1> QED
  BY <1>6, <1>7

-----------------------------------------------------------------------------
(* Parameters *)

(* Parameters are declared. *)

(* In t the innermost function has one parameter more. *)
Counted(s, t) ==
  /\ Base(t) /\ t.work = s.work /\ (InText(s) => InText(t)) /\ t.errors = s.errors
  /\ t.compilers = s.compilers /\ Me(t) = Me(s) /\ This(t) = This(s)
  /\ DOMAIN t.functions = DOMAIN s.functions
  /\ \A g \in DOMAIN s.functions \ {This(s).function} : t.functions[g] = s.functions[g]
  /\ Function(t).arity = Function(s).arity + 1 /\ Function(t).code = Function(s).code
  /\ Function(t).constants = Function(s).constants /\ Function(t).name = Function(s).name
  /\ Function(t).upvalue_count = Function(s).upvalue_count

(* The parameter is counted. *)
LEMMA CountedForm ==
  ASSUME NEW s, Base(s), Function(s).arity < UINT8_MAX,
         NEW t, t = [s EXCEPT !.functions[This(s).function].arity = @ + 1]
  PROVE  Counted(s, t)
<1> DEFINE f == This(s).function
           g == [Function(s) EXCEPT !.arity = @ + 1]
<1>1. f \in DOMAIN s.functions /\ Function(s) = s.functions[f] /\ Function(s) \in FunctionType /\ IsState(s)
  BY BaseFacts
<1>2. t = WithFunction(s, f, g)
  BY <1>1, BaseFacts DEF WithFunction, IsState
<1>3. /\ g.arity = Function(s).arity + 1 /\ g.code = Function(s).code
      /\ g.constants = Function(s).constants
      /\ g.upvalue_count = Function(s).upvalue_count
      /\ g.name = Function(s).name
      /\ g \in FunctionType
  BY <1>1, ByteAssumption DEF FunctionType
<1>4. Keeps(s, t)
  BY CountedFacts
<1> HIDE DEF g, f
<1>5. /\ t.compilers = s.compilers /\ t.errors = s.errors /\ t.work = s.work
      /\ DOMAIN t.functions = DOMAIN s.functions
      /\ \A j \in DOMAIN s.functions : t.functions[j] = IF j = f THEN g ELSE s.functions[j]
  <2>1. IsState(s) /\ f \in DOMAIN s.functions /\ g \in FunctionType
    BY <1>1, <1>3
  <2>2. /\ WithFunction(s, f, g).compilers = s.compilers
        /\ WithFunction(s, f, g).errors = s.errors
        /\ WithFunction(s, f, g).work = s.work
        /\ DOMAIN WithFunction(s, f, g).functions = DOMAIN s.functions
        /\ \A j \in DOMAIN s.functions :
             WithFunction(s, f, g).functions[j] = IF j = f THEN g ELSE s.functions[j]
    BY ONLY <2>1, WithFunctionFacts
  <2> QED
    BY <1>2, <2>2
<1>6. Me(t) = Me(s) /\ This(t) = This(s)
  BY <1>5 DEF Me, This
<1>7. Function(t) = g
  BY <1>1, <1>5, <1>6 DEF Function, f
<1>8. Base(t) /\ (InText(s) => InText(t))
  BY <1>4 DEF Keeps
<1>9. \A j \in DOMAIN s.functions \ {f} : t.functions[j] = s.functions[j]
  BY <1>5
<1> QED
  BY <1>3, <1>5, <1>6, <1>7, <1>8, <1>9 DEF Counted, f

(* Its value is that of an argument. *)
CountedPlan(p, marks) == Plan(p.levels, p.open, marks, p.temps + 1, TRUE)

(* The function has no code yet, and no jump that waits. *)
Counts(p, marks) ==
  p.fresh /\ Len(p.levels) >= 2 /\ Empty(p, p.open) /\ Empty(p, marks) /\ marks \subseteq p.marks

(* A parameter that is counted is on the stack before it has a name. *)
LEMMA CountedTurns ==
  ASSUME NEW s, Base(s), NEW t, Counted(s, t), NEW p, NEW marks, Typed(s, p) => Counts(p, marks)
  PROVE  Turns(s, p, t, CountedPlan(p, marks))
<1> DEFINE q == CountedPlan(p, marks)
<1>1. Base(t) /\ t.work = s.work /\ (InText(s) => InText(t)) /\ t.errors = s.errors
  BY DEF Counted
<1> SUFFICES ASSUME Typed(s, p) PROVE Typed(t, q) /\ More(s.functions, t.functions)
  BY <1>1 DEF Turns
<1>2. /\ q.levels = p.levels /\ q.open = p.open /\ q.marks = marks /\ q.temps = p.temps + 1 /\ q.fresh = TRUE
  BY DEF CountedPlan, Plan
<1> HIDE DEF q
<1>3. /\ Row(s.functions, This(s), TRUE, p.temps, p.open, p.marks) /\ p.temps \in Nat
      /\ PlanOk(s.functions, s.compilers, p)
      /\ Top(p) = LevelOf(This(s)) /\ Top(p).fun = This(s).function /\ Len(p.levels) = Me(s)
      /\ \A f \in DOMAIN s.functions : Outside(s.functions[f], Chain(s.compilers))
  BY TopRow
<1>4. p.fresh /\ Len(p.levels) >= 2 /\ Empty(p, p.open) /\ Empty(p, marks) /\ marks \subseteq p.marks
  BY DEF Counts
<1>5. /\ This(t) = This(s) /\ t.compilers = s.compilers /\ Me(t) = Me(s)
      /\ DOMAIN t.functions = DOMAIN s.functions
      /\ \A g \in DOMAIN s.functions \ {This(s).function} : t.functions[g] = s.functions[g]
      /\ Function(t).arity = Function(s).arity + 1 /\ Function(t).code = Function(s).code
      /\ Function(t).constants = Function(s).constants /\ Function(t).name = Function(s).name
      /\ Function(t).upvalue_count = Function(s).upvalue_count
  BY DEF Counted
<1>6. /\ This(s).function \in DOMAIN s.functions /\ Function(s) = s.functions[This(s).function]
      /\ Function(t) = t.functions[This(s).function] /\ This(s) = s.compilers[Len(s.compilers)]
  BY <1>1, <1>5, BaseChain
<1>7. Function(s).code = <<>> /\ Function(s).arity \in Nat
  <2>1. Function(s).code = <<>>
    BY <1>3, <1>4, <1>6 DEF PlanOk
  <2>2. Function(s).arity \in Nat
    BY BaseFacts, ByteAssumption DEF FunctionType
  <2> QED
    BY <2>1, <2>2
<1> DEFINE on == OnStack(This(s), TRUE)
           locals == This(s).locals
           f == This(s).function
<1>8. on \in Nat \ {0} /\ on <= Len(locals) /\ Len(locals) \in Nat \ {0}
  BY OnStackFacts
<1>9. 1 + Function(s).arity = on + p.temps
  <2>1. PICK y : FrameOk(s.functions, f, locals, y, on, p.temps, p.open, p.marks)
    BY <1>3 DEF Row
  <2>2. s.functions[f].code = <<>>
    BY <1>6, <1>7
  <2> HIDE DEF f, locals, on
  <2>3. 1 + s.functions[f].arity = on + p.temps
    BY <2>1, <2>2, FrameBegun
  <2> QED
    BY <1>6, <2>3 DEF f
<1>10. Starting(t.functions, f, locals, on, q.temps, q.open, q.marks)
  <2>1. t.functions[f].code = <<>> /\ Len(locals) \in Nat /\ on \in 1 .. Len(locals) /\ q.temps \in Nat
    <3>1. t.functions[f].code = <<>> /\ q.temps = p.temps + 1 /\ p.temps \in Nat
      BY <1>2, <1>3, <1>5, <1>6, <1>7
    <3> HIDE DEF on, locals, f
    <3> QED
      BY ONLY <1>8, <3>1
  <2>2. t.functions[f].arity = on + q.temps - 1
    <3>1. t.functions[f].arity = Function(s).arity + 1 /\ q.temps = p.temps + 1
      BY <1>2, <1>5, <1>6
    <3> HIDE DEF on
    <3> QED
      BY <1>3, <1>7, <1>8, <1>9, <3>1
  <2>3. (\A e \in q.open : e.fun # f) /\ (\A e \in q.marks : e.fun = f => e.at = -1)
    BY <1>2, <1>3, <1>4 DEF Empty
  <2> QED
    BY <2>1, <2>2, <2>3 DEF Starting
<1>11. Row(t.functions, This(t), TRUE, q.temps, q.open, q.marks)
  <2>1. \E y : FrameOk(t.functions, f, locals, y, on, q.temps, q.open, q.marks)
    <3> HIDE DEF f, locals, on
    <3> QED
      BY <1>10, FrameBegins
  <2>2. /\ LocalsOk(This(s), TRUE)
        /\ \A i \in DOMAIN This(s).upvalues : This(s).upvalues[i].is_local => This(s).upvalues[i].index >= 1
    BY <1>3 DEF Row
  <2>3. \A e \in q.open \cup q.marks : e.fun # f
    BY <1>2, <1>3, <1>4 DEF Empty
  <2> QED
    BY <1>5, <2>1, <2>2, <2>3 DEF Row
<1>12. AtTop(s, t)
  <2>1. \A j \in DOMAIN s.compilers : Same(s.compilers[j], t.compilers[j])
    BY <1>5, SameReflexive
  <2>2. Extends(Function(s), Function(t))
    <3>1. IsProgram(s.functions)
      BY BaseProgram
    <3>2. Extends(Function(s), Function(s))
      BY <1>6, <3>1, ExtendsReflexive
    <3> QED
      BY <1>5, <3>2 DEF Extends
  <2> QED
    BY <1>1, <1>5, <2>1, <2>2 DEF AtTop
<1>13. q.levels = [p.levels EXCEPT ![Len(p.levels)] = LevelOf(This(t))]
  <2>1. p.levels[Len(p.levels)] = LevelOf(This(s))
    BY <1>3 DEF Top
  <2>2. p.levels = [k \in DOMAIN s.compilers |-> LevelOf(s.compilers[k])]
    BY <1>3 DEF PlanOk, Levels
  <2>3. \A k : p.levels[k] = LevelOf(This(s)) => p.levels = [p.levels EXCEPT ![k] = LevelOf(This(s))]
    BY <2>2
  <2> QED
    BY <1>2, <1>5, <2>1, <2>3
<1>14. Outside(Function(t), Chain(s.compilers))
  <2>1. Outside(Function(s), Chain(s.compilers))
    BY <1>3, <1>6
  <2> QED
    BY <1>5, <2>1 DEF Outside
<1>15. q.temps \in Nat /\ Me(s) # 1 /\ q.open = p.open /\ q.marks \subseteq p.marks
  BY <1>2, <1>3, <1>4
<1>16. q.fresh => Function(t).code = <<>>
  BY <1>5, <1>7
<1> QED
  BY <1>11, <1>12, <1>13, <1>14, <1>15, <1>16, LevelTyping

(* What counts a parameter makes room for its name, which becomes a local. *)
LEMMA ParameterTurns ==
  ASSUME TokensOk, NEW s, NEW c, NEW p, NEW q, Stands(s, c, p, q), c.do = "parameter",
         Function(s).arity < UINT8_MAX,
         NEW counted, counted = [s EXCEPT !.functions[This(s).function].arity = @ + 1],
         NEW r, r = Plan(p.levels, p.open, q.marks, 0, TRUE)
  PROVE  Turns(s, p, DefineVariable(ParseVariable(counted), 0), r)
<1>1. Base(s) /\ Typed(s, p) /\ Goes(s.functions, p, c, q) /\ InText(s) /\ s.errors = {}
  BY StandsFacts
<1>2. /\ q.levels = p.levels /\ q.open = p.open /\ q.marks \subseteq p.marks /\ q.fresh = FALSE
      /\ p.temps = 0 /\ q.temps = 0
      /\ Clear(p, p.open) /\ Clear(p, q.marks)
      /\ p.fresh /\ Len(p.levels) >= 2 /\ Top(p).depth >= 1
      /\ Empty(p, p.open) /\ Empty(p, q.marks)
  <2> DEFINE fs == s.functions
  <2> HIDE DEF fs
  <2>1. Goes(fs, p, c, q) <=> /\ Moves(p, q) /\ p.temps = 0 /\ q.temps = 0
                              /\ Clear(p, p.open) /\ Clear(p, q.marks)
                              /\ p.fresh /\ Len(p.levels) >= 2 /\ Top(p).depth >= 1
                              /\ Empty(p, p.open) /\ Empty(p, q.marks)
    BY GoesParameter
  <2>2. Goes(fs, p, c, q)
    BY <1>1 DEF fs
  <2> QED
    BY <2>1, <2>2 DEF Moves
<1>3. Top(p).waits = FALSE /\ Top(p).depth = This(s).scope_depth /\ This(s).scope_depth > 0
  <2>1. Top(p).waits = FALSE /\ Top(p).depth = This(s).scope_depth
    BY <1>1, StandsSettled, TopRow DEF StatementName
  <2>2. This(s).scope_depth \in Nat
    BY <1>1, OwnFacts
  <2>3. This(s).scope_depth >= 1
    BY <1>2, <2>1
  <2> QED
    BY ONLY <2>1, <2>2, <2>3
<1> DEFINE r1 == CountedPlan(p, q.marks)
           named == ParseVariable(counted)
           r2 == Parsed(r1)
           t == DefineVariable(named, 0)
           r3 == Settles(r2, q.marks)
<1>4. Counted(s, counted)
  BY <1>1, CountedForm
<1>5. Turns(s, p, counted, r1)
  BY <1>1, <1>2, <1>4, CountedTurns DEF Counts
<1>6. Base(counted) /\ InText(counted) /\ counted.errors = {} /\ Typed(counted, r1)
  BY <1>1, <1>4, <1>5 DEF Counted, Turns
<1>7. /\ r1.levels = p.levels /\ r1.open = p.open /\ r1.marks = q.marks /\ r1.temps = 1 /\ r1.fresh = TRUE
      /\ Top(r1) = Top(p)
  BY <1>2 DEF CountedPlan, Plan, Top
<1>8. Top(r1).waits = FALSE /\ Top(r1).depth # 0
  BY <1>3, <1>7
<1> HIDE DEF r1
<1>9. Turns(counted, r1, named, r2) /\ Base(named)
  BY <1>6, <1>8, ParseTurns
<1>10. Declares(counted, named)
  BY <1>6, ParseVariableFacts
<1>11. /\ r2.open = p.open /\ r2.marks = q.marks /\ r2.temps = 1 /\ r2.fresh = TRUE
       /\ Top(r2).fun = Top(p).fun /\ Top(r2).depth = Top(p).depth /\ Top(r2).waits = TRUE
       /\ Defined(r2) = p.levels
  <2>1. /\ Parsed(r1).open = r1.open /\ Parsed(r1).marks = r1.marks /\ Parsed(r1).temps = r1.temps
        /\ Top(r1).depth # 0 => Parsed(r1).fresh = r1.fresh
        /\ Top(Parsed(r1)).fun = Top(r1).fun /\ Top(Parsed(r1)).depth = Top(r1).depth
        /\ Top(r1).depth # 0 => Top(Parsed(r1)).waits = TRUE
        /\ Defined(Parsed(r1)) = r1.levels
    BY <1>6, <1>8, ParsedFacts
  <2> HIDE DEF r2
  <2>2. r2 = Parsed(r1)
    BY DEF r2
  <2> QED
    BY <1>7, <1>8, <2>1, <2>2
<1> HIDE DEF named, r2
<1>12. This(named).scope_depth > 0
  <2>1. /\ Me(s) \in DOMAIN s.compilers /\ This(s) = s.compilers[Me(s)] /\ Me(s) = Len(s.compilers)
        /\ This(named) = named.compilers[Me(named)] /\ Me(named) = Len(named.compilers)
        /\ counted.compilers = s.compilers
    BY <1>1, <1>4, <1>9, BaseChain DEF Counted
  <2>2. This(named).scope_depth = This(s).scope_depth
    BY <1>10, <2>1 DEF Declares, SameDepths
  <2> QED
    BY <1>3, <2>2
<1>13. t = MarkReady(named) /\ Declared(This(named))
  BY <1>10, <1>12 DEF DefineVariable, Declares
<1>14. Defines1(r2, q.marks)
  <2>1. Clear(r2, r2.open) /\ Clear(r2, q.marks)
    BY <1>2, <1>11 DEF Clear, Here
  <2>2. Top(r2).depth > 0
    BY <1>3, <1>11
  <2> QED
    BY <1>11, <2>1, <2>2 DEF Defines1
<1>15. Turns(named, r2, t, r3)
  BY <1>9, <1>12, <1>13, <1>14, MarkReadyTurns
<1>16. r3 = r
  <2>1. r3 = Plan(Defined(r2), r2.open, q.marks, r2.temps - 1, r2.fresh)
    BY DEF Settles
  <2>2. r2.temps - 1 = 0
    BY <1>11
  <2> QED
    BY <1>11, <2>1, <2>2
<1> HIDE DEF t, r3
<1>17. Turns(counted, r1, t, r)
  BY <1>6, <1>9, <1>15, <1>16, TurnsTransitive
<1>18. Turns(s, p, t, r)
  BY <1>1, <1>5, <1>17, TurnsTransitive
<1> QED
  BY <1>18 DEF t, named

(* `parameter' *)
LEMMA ParameterGoal ==
  ASSUME TokensOk, NEW s, NEW c, NEW p, NEW q, Stands(s, c, p, q), c.do = "parameter"
  PROVE  Goal(RunParameter(s, c))
<1>1. /\ Base(s) /\ Typed(s, p) /\ Goes(s.functions, p, c, q) /\ Fits(s.functions, q, s.work) /\ InText(s)
  BY StandsFacts
<1>2. /\ q.levels = p.levels /\ q.open = p.open /\ q.marks \subseteq p.marks /\ q.fresh = FALSE
      /\ p.temps = 0 /\ q.temps = 0
      /\ Clear(p, p.open) /\ Clear(p, q.marks)
      /\ p.fresh /\ Len(p.levels) >= 2 /\ Top(p).depth >= 1
      /\ Empty(p, p.open) /\ Empty(p, q.marks)
  <2> DEFINE fs == s.functions
  <2> HIDE DEF fs
  <2>1. Goes(fs, p, c, q) <=> /\ Moves(p, q) /\ p.temps = 0 /\ q.temps = 0
                              /\ Clear(p, p.open) /\ Clear(p, q.marks)
                              /\ p.fresh /\ Len(p.levels) >= 2 /\ Top(p).depth >= 1
                              /\ Empty(p, p.open) /\ Empty(p, q.marks)
    BY GoesParameter
  <2>2. Goes(fs, p, c, q)
    BY <1>1 DEF fs
  <2> QED
    BY <2>1, <2>2 DEF Moves
<1> DEFINE counted == [s EXCEPT !.functions[This(s).function].arity = @ + 1]
           t == DefineVariable(ParseVariable(counted), 0)
           more == Call("parameter")
           last == Call("function_body")
           limit == ErrorAtCurrent(s, "Functions accept at most 255 parameters.")
           r == Plan(p.levels, p.open, q.marks, 0, TRUE)
<1>3. RunParameter(s, c) =
        IF Function(s).arity >= UINT8_MAX THEN limit
        ELSE IF Check(t, "COMMA") THEN Then(Advance(t), <<more>>) ELSE Then(t, <<last>>)
  BY DEF RunParameter
<1>4. Goal(limit)
  BY <1>1, GoalFails
<1>5. /\ more \in CallType /\ last \in CallType /\ more.do = "parameter" /\ last.do = "function_body"
  BY StatementCallFacts, CallNames DEF CallType
<1>6. /\ r.levels = p.levels /\ r.open = p.open /\ r.marks = q.marks /\ r.temps = 0 /\ r.fresh = TRUE
      /\ Top(r) = Top(p)
  BY DEF Plan, Top
<1> HIDE DEF more, last, r, limit
<1>7. /\ Moves(r, q) /\ Clear(r, r.open) /\ Clear(r, q.marks) /\ Loose(r, r)
      /\ Empty(r, r.open) /\ Empty(r, q.marks)
  BY <1>2, <1>6 DEF Moves, Clear, Here, Empty, Loose
<1>8. ASSUME NEW fs PROVE Goes(fs, r, more, q) /\ Goes(fs, r, last, q)
  <2>1. Goes(fs, r, more, q)
    BY <1>2, <1>5, <1>6, <1>7, GoesParameter
  <2>2. Goes(fs, r, last, q)
    BY <1>2, <1>5, <1>6, <1>7, GoesDeclaring DEF Declaring
  <2> QED
    BY <2>1, <2>2
<1>9. CASE Function(s).arity >= UINT8_MAX
  BY <1>3, <1>4, <1>9
<1>10. CASE ~(Function(s).arity >= UINT8_MAX)
  <2>1. Function(s).arity < UINT8_MAX
    BY <1>1, <1>10, BaseFacts, ByteAssumption DEF FunctionType
  <2>2. Turns(s, p, t, r)
    <3>1. r = Plan(p.levels, p.open, q.marks, 0, TRUE)
      BY DEF r
    <3> QED
      BY <2>1, <3>1, ParameterTurns
  <2> HIDE DEF t
  <2>3. Base(t) /\ InText(t)
    BY <1>1, <2>2 DEF Turns
  <2>4. CASE Check(t, "COMMA")
    <3> DEFINE u == Advance(t)
    <3>1. ~Check(t, "LOX_EOF")
      BY <2>4 DEF Check
    <3>2. Turns(t, r, u, r)
      BY <1>7, <2>3, <3>1, AdvanceTurns
    <3> HIDE DEF u
    <3>3. Turns(s, p, u, r)
      BY <1>1, <2>2, <3>2, TurnsTransitive
    <3>4. Goal(Then(u, <<more>>))
      BY <1>1, <1>5, <1>8, <3>3, Hands1
    <3> QED
      BY <1>3, <1>10, <2>4, <3>4 DEF u
  <2>5. CASE ~Check(t, "COMMA")
    <3>1. Goal(Then(t, <<last>>))
      BY <1>1, <1>5, <1>8, <2>2, Hands1
    <3> QED
      BY <1>3, <1>10, <2>5, <3>1
  <2> QED
    BY <2>4, <2>5
<1> QED
  BY <1>9, <1>10

-----------------------------------------------------------------------------
(* Functions begin *)

(* The compilation of a function begins. *)

(* The compiler d of function f has only the slot of the function itself. *)
Alone(d, f) ==
  /\ d.function = f /\ d.scope_depth \in Nat /\ d.upvalues = <<>> /\ Len(d.locals) = 1
  /\ d.locals[1].name = "" /\ d.locals[1].depth = 0

(* The compiler d is one that has begun with the parameters of function f. *)
Opens(d, f) == Alone(d, f) /\ d.scope_depth = 1

(* In t there is another function, and another compiler, which is the innermost; the one around it is c. *)
Enters(s, t, c) ==
  /\ Base(s) /\ Base(t) /\ Len(t.compilers) = Me(s) + 1
  /\ \A k \in 1 .. Me(s) - 1 : t.compilers[k] = s.compilers[k]
  /\ t.compilers[Me(s)] = c /\ c.function = This(s).function /\ c.upvalues = This(s).upvalues
  /\ Opens(t.compilers[Me(s) + 1], Len(s.functions) + 1)
  /\ DOMAIN t.functions = 1 .. Len(s.functions) + 1
  /\ \A f \in DOMAIN s.functions : t.functions[f] = s.functions[f]
  /\ t.functions[Len(s.functions) + 1].code = <<>> /\ t.functions[Len(s.functions) + 1].arity = 0
  /\ t.functions[Len(s.functions) + 1].constants = <<>>

(* Functions that are there stay as they are. *)
LEMMA EnteredStays ==
  ASSUME NEW s, NEW t, NEW c, Enters(s, t, c)
  PROVE  /\ IsProgram(s.functions) /\ IsProgram(t.functions) /\ More(s.functions, t.functions)
         /\ DOMAIN s.functions = 1 .. Len(s.functions) /\ Len(s.functions) \in Nat
         /\ DOMAIN s.functions \subseteq DOMAIN t.functions
         /\ \A f \in DOMAIN s.functions :
              /\ Extends(s.functions[f], t.functions[f]) /\ SameClosures(s.functions, t.functions, f)
              /\ t.functions[f] = s.functions[f]
<1>1. /\ Base(s) /\ Base(t) /\ DOMAIN t.functions = 1 .. Len(s.functions) + 1
      /\ \A f \in DOMAIN s.functions : t.functions[f] = s.functions[f]
  BY DEF Enters
<1>2. IsProgram(s.functions) /\ IsProgram(t.functions)
  BY <1>1, BaseProgram
<1>3. DOMAIN s.functions = 1 .. Len(s.functions) /\ Len(s.functions) \in Nat
  BY <1>1, BaseFacts
<1>4. DOMAIN s.functions \subseteq DOMAIN t.functions
  BY <1>1, <1>3
<1>5. ASSUME NEW f \in DOMAIN s.functions
      PROVE  Extends(s.functions[f], t.functions[f]) /\ SameClosures(s.functions, t.functions, f)
  <2>1. Extends(s.functions[f], s.functions[f])
    BY <1>2, ExtendsReflexive
  <2>2. \A j \in DOMAIN s.functions[f].constants :
          IsFun(s.functions[f].constants[j]) => s.functions[f].constants[j].fun \in DOMAIN s.functions
    BY <1>2, ProgramFacts
  <2> QED
    BY <1>1, <2>1, <2>2 DEF SameClosures
<1>6. More(s.functions, t.functions)
  BY <1>4, <1>5 DEF More
<1> QED
  BY <1>1, <1>2, <1>3, <1>4, <1>5, <1>6

(* Its function has no code. *)
LEMMA OpenedRow ==
  ASSUME NEW gs, NEW d, NEW f, Alone(d, f), gs[f].code = <<>>, gs[f].arity = 0,
         d.locals \in Seq(LocalType),
         NEW open, NEW marks, \A e \in open \cup marks : e.fun # f
  PROVE  Row(gs, d, TRUE, 0, open, marks) /\ LevelOf(d) = Level(f, d.scope_depth, FALSE)
<1>1. /\ d.function = f /\ d.scope_depth \in Nat /\ d.upvalues = <<>> /\ Len(d.locals) = 1
      /\ d.locals[1].name = "" /\ d.locals[1].depth = 0
  BY DEF Alone
<1> DEFINE locals == d.locals
           n == Len(d.locals)
<1>0. n = 1 /\ n \in Nat /\ 1 .. n = {1}
  <2>1. n = 1
    BY <1>1
  <2> QED
    BY ONLY <2>1
<1>2. d.locals[Len(d.locals)].depth = 0
  BY <1>1
<1>3. OnStack(d, TRUE) = 1 /\ Waits(d) = FALSE
  <2>1. Waits(d) = FALSE
    BY <1>2 DEF Waits
  <2>2. OnStack(d, TRUE) = Len(d.locals)
    BY <1>2 DEF OnStack
  <2> QED
    BY <1>1, <2>1, <2>2
<1>4. Starting(gs, f, locals, 1, 0, open, marks)
  <2>1. Len(locals) = 1 /\ Len(locals) \in Nat /\ 1 \in 1 .. Len(locals)
    BY ONLY <1>0 DEF n, locals
  <2>2. gs[f].arity = 1 + 0 - 1
    OBVIOUS
  <2> HIDE DEF locals
  <2> QED
    BY <2>1, <2>2 DEF Starting
<1>5. \E y : FrameOk(gs, f, locals, y, 1, 0, open, marks)
  <2> HIDE DEF locals
  <2> QED
    BY <1>4, FrameBegins
<1>6. LocalsOk(d, TRUE)
  <2>1. \A i \in 1 .. Len(d.locals) : i = 1
    BY ONLY <1>0 DEF n
  <2>2. d.locals[1].depth # -1 /\ d.locals[1].depth <= d.scope_depth /\ d.locals[1].depth <= d.locals[1].depth
    <3>1. d.locals[1].depth = 0 /\ d.scope_depth \in Nat
      BY <1>1
    <3> QED
      BY ONLY <3>1
  <2>3. \A i \in 1 .. Len(d.locals) : \A j \in i .. Len(d.locals) : i = 1 /\ j = 1
    <3>1. \A i \in 1 .. n : \A j \in i .. n : i = 1 /\ j = 1
      <4> HIDE DEF n
      <4> QED
        BY ONLY <1>0
    <3> QED
      BY ONLY <3>1 DEF n
  <2> QED
    BY <1>1, <2>1, <2>2, <2>3 DEF LocalsOk
<1>7. \A i \in DOMAIN d.upvalues : FALSE
  <2>1. d.upvalues = <<>>
    BY <1>1
  <2> QED
    BY ONLY <2>1
<1>8. Row(gs, d, TRUE, 0, open, marks)
  BY <1>1, <1>3, <1>5, <1>6, <1>7 DEF Row
<1> QED
  BY <1>1, <1>3, <1>8 DEF LevelOf

(* What the new compiler finds. *)
EnteredPlan(p, t, marks) == Plan(Levels(t.compilers), p.open, marks, 0, TRUE)

(* The compilers around the innermost are as they were. *)
LEMMA AroundRow ==
  ASSUME NEW s, NEW t, NEW c, Enters(s, t, c), NEW p, Typed(s, p), NEW marks, marks \subseteq p.marks,
         NEW j, j \in 1 .. Me(s) - 1
  PROVE  Row(t.functions, t.compilers[j], FALSE, 0, p.open, marks)
<1>1. /\ Base(s) /\ Base(t) /\ t.compilers[j] = s.compilers[j]
  BY DEF Enters
<1>2. /\ DOMAIN s.compilers = 1 .. Me(s) /\ Me(s) = Len(s.compilers) /\ Me(s) \in Nat \ {0}
      /\ \A k \in DOMAIN s.compilers : s.compilers[k].function \in DOMAIN s.functions
  BY <1>1, BaseChain
<1>3. j \in DOMAIN s.compilers /\ j # Len(s.compilers)
  BY <1>2
<1> DEFINE cj == s.compilers[j]
           q == Plan(p.levels, p.open, marks, 0, TRUE)
           fs == s.functions
           gs == t.functions
<1>4. Row(fs, cj, FALSE, 0, p.open, p.marks)
  <2>1. Row(s.functions, s.compilers[j], j = Len(s.compilers), IF j = Len(s.compilers) THEN p.temps ELSE 0,
            p.open, p.marks)
    BY <1>3 DEF Typed, Typing
  <2> QED
    BY <1>3, <2>1
<1>5. q.open = p.open /\ q.marks = marks
  BY DEF Plan
<1>6. Agree(cj.function, p, q)
  BY <1>5 DEF Agree
<1>7. /\ IsProgram(fs) /\ IsProgram(gs) /\ cj.function \in DOMAIN fs /\ cj.function \in DOMAIN gs
      /\ Extends(fs[cj.function], gs[cj.function]) /\ SameClosures(fs, gs, cj.function)
      /\ gs[cj.function] = fs[cj.function]
  BY <1>2, <1>3, EnteredStays
<1>8. Same(cj, cj)
  BY SameReflexive
<1> HIDE DEF cj, q, fs, gs
<1>9. Row(gs, cj, FALSE, 0, q.open, q.marks)
  BY <1>4, <1>6, <1>7, <1>8, RowStays
<1> QED
  BY <1>1, <1>5, <1>9 DEF cj, gs

(* A function that begins is typed. *)
LEMMA EntersTyping ==
  ASSUME NEW s, NEW t, NEW c, Enters(s, t, c), NEW p, Typed(s, p), NEW marks, marks \subseteq p.marks,
         Row(s.functions, c, FALSE, 0, p.open, marks)
  PROVE  Typed(t, EnteredPlan(p, t, marks)) /\ More(s.functions, t.functions)
<1> DEFINE r == EnteredPlan(p, t, marks)
           fs == s.functions
           gs == t.functions
           m == Me(s)
           n == Len(s.functions)
           d == t.compilers[m + 1]
<1>1. /\ Base(s) /\ Base(t) /\ Len(t.compilers) = m + 1 /\ t.compilers[m] = c
      /\ \A k \in 1 .. m - 1 : t.compilers[k] = s.compilers[k]
      /\ c.function = This(s).function /\ c.upvalues = This(s).upvalues
      /\ Opens(d, n + 1) /\ DOMAIN gs = 1 .. n + 1
      /\ gs[n + 1].code = <<>> /\ gs[n + 1].arity = 0 /\ gs[n + 1].constants = <<>>
  BY DEF Enters
<1>2. /\ DOMAIN s.compilers = 1 .. m /\ m = Len(s.compilers) /\ m \in Nat \ {0} /\ This(s) = s.compilers[m]
      /\ \A k \in DOMAIN s.compilers : s.compilers[k].function \in DOMAIN fs
  BY <1>1, BaseChain
<1>3. DOMAIN t.compilers = 1 .. m + 1 /\ \A k \in DOMAIN t.compilers : t.compilers[k].function \in DOMAIN gs
  BY <1>1, <1>2, BaseChain
<1>4. /\ IsProgram(fs) /\ IsProgram(gs) /\ More(fs, gs)
      /\ DOMAIN fs = 1 .. n /\ n \in Nat
      /\ DOMAIN fs \subseteq DOMAIN gs
      /\ \A f \in DOMAIN fs : Extends(fs[f], gs[f]) /\ SameClosures(fs, gs, f) /\ gs[f] = fs[f]
  BY EnteredStays
<1>5. /\ PlanOk(fs, s.compilers, p) /\ p.open \subseteq EntryType /\ p.marks \subseteq EntryType
      /\ \A e \in p.open \cup p.marks : e.fun \in DOMAIN fs
      /\ \A e \in p.marks : e.temps = 0
  BY <1>1, TopRow DEF PlanOk
<1>6. /\ r.levels = Levels(t.compilers) /\ r.open = p.open /\ r.marks = marks /\ r.temps = 0 /\ r.fresh = TRUE
  BY DEF EnteredPlan, Plan
<1>7. d.function = n + 1
  BY <1>1 DEF Opens, Alone
<1>8. n + 1 \notin DOMAIN fs
  <2> HIDE DEF n, fs
  <2> QED
    BY <1>4
<1>9. Chain(t.compilers) = Chain(s.compilers) \cup {n + 1}
  <2>1. \A k \in 1 .. m : t.compilers[k].function = s.compilers[k].function
    <3> SUFFICES ASSUME NEW k \in 1 .. m PROVE t.compilers[k].function = s.compilers[k].function
      OBVIOUS
    <3>1. k = m \/ k \in 1 .. m - 1
      BY <1>2
    <3> QED
      BY <1>1, <1>2, <3>1
  <2>2. 1 .. m + 1 = (1 .. m) \cup {m + 1}
    BY ONLY <1>2
  <2> HIDE DEF m, n, d
  <2>3. Chain(t.compilers) = {t.compilers[k].function : k \in 1 .. m + 1}
    BY <1>3 DEF Chain
  <2>4. Chain(s.compilers) = {s.compilers[k].function : k \in 1 .. m}
    BY <1>2 DEF Chain
  <2>5. t.compilers[m + 1].function = n + 1
    BY <1>7 DEF d
  <2> QED
    BY <2>1, <2>2, <2>3, <2>4, <2>5
<1> HIDE DEF r
<1>10. PlanOk(gs, t.compilers, r)
  <2>1. gs[t.compilers[Len(t.compilers)].function].code = <<>>
    BY <1>1, <1>7
  <2>2. \A e \in r.open \cup r.marks : e.fun \in DOMAIN gs
    BY <1>4, <1>5, <1>6
  <2>3. \A e \in r.marks : e.temps = 0
    BY <1>5, <1>6
  <2>4. r.temps \in Nat /\ r.open \subseteq EntryType /\ r.marks \subseteq EntryType
    BY <1>5, <1>6
  <2> QED
    BY <1>6, <2>1, <2>2, <2>3, <2>4 DEF PlanOk
<1>11. ASSUME NEW k \in DOMAIN t.compilers
       PROVE  Row(gs, t.compilers[k], k = Len(t.compilers), IF k = Len(t.compilers) THEN r.temps ELSE 0, r.open, r.marks)
  <2>1. k \in 1 .. m - 1 \/ k = m \/ k = m + 1
    BY <1>2, <1>3
  <2>2. m # Len(t.compilers) /\ \A j \in 1 .. m - 1 : j # Len(t.compilers)
    BY <1>1, <1>2
  <2>3. CASE k \in 1 .. m - 1
    <3>1. Row(gs, t.compilers[k], FALSE, 0, p.open, marks)
      BY <2>3, AroundRow
    <3>2. (k = Len(t.compilers)) = FALSE
      BY <2>2, <2>3
    <3> QED
      BY <1>6, <3>1, <3>2
  <2>4. CASE k = m
    <3> DEFINE q == Plan(p.levels, p.open, marks, 0, TRUE)
    <3>1. q.open = p.open /\ q.marks = marks
      BY DEF Plan
    <3>2. Same(c, c) /\ Agree(c.function, q, q)
      BY SameReflexive DEF Agree
    <3>3. c.function \in DOMAIN fs /\ c.function \in DOMAIN gs
      BY <1>1, <1>2, <1>4
    <3> HIDE DEF q
    <3>4. Row(gs, c, FALSE, 0, q.open, q.marks)
      <4>1. Row(fs, c, FALSE, 0, q.open, q.marks)
        BY <3>1
      <4>2. /\ Extends(fs[c.function], gs[c.function]) /\ SameClosures(fs, gs, c.function)
            /\ gs[c.function].code = fs[c.function].code /\ gs[c.function].arity = fs[c.function].arity
        BY <1>4, <3>3
      <4> HIDE DEF fs, gs
      <4> QED
        BY <1>4, <3>2, <3>3, <4>1, <4>2, RowStays
    <3>5. (k = Len(t.compilers)) = FALSE
      BY <2>2, <2>4
    <3> QED
      BY <1>1, <1>6, <2>4, <3>1, <3>4, <3>5
  <2>5. CASE k = m + 1
    <3>1. \A e \in p.open \cup marks : e.fun # n + 1
      BY <1>5, <1>8
    <3>2. d.locals \in Seq(LocalType)
      <4>1. d = This(t)
        BY <1>1, BaseChain
      <4> QED
        BY <1>1, <4>1, OwnFacts
    <3>5. Alone(d, n + 1)
      BY <1>1 DEF Opens
    <3> HIDE DEF gs, d, n
    <3>3. Row(gs, d, TRUE, 0, p.open, marks)
      BY <1>1, <3>1, <3>2, <3>5, OpenedRow
    <3>4. (k = Len(t.compilers)) = TRUE
      BY <1>1, <2>5
    <3> QED
      BY <1>6, <2>5, <3>3, <3>4 DEF d
  <2> QED
    BY <2>1, <2>3, <2>4, <2>5
<1>12. ASSUME NEW f \in DOMAIN gs \ Chain(t.compilers) PROVE Finished(gs, f)
  <2>1. f \in DOMAIN fs \ Chain(s.compilers)
    <3>1. f # n + 1 /\ f \notin Chain(s.compilers) /\ f \in 1 .. n + 1
      BY <1>1, <1>9
    <3>2. \A x \in 1 .. n + 1 : x # n + 1 => x \in 1 .. n
      BY ONLY <1>4
    <3> QED
      BY <1>4, <3>1, <3>2
  <2>2. Finished(fs, f)
    BY <2>1 DEF Typed, Typing
  <2>3. f \in DOMAIN fs /\ f \in DOMAIN gs /\ gs[f] = fs[f] /\ SameClosures(fs, gs, f)
    BY <1>4, <2>1
  <2> HIDE DEF fs, gs
  <2> QED
    BY <1>4, <2>2, <2>3, FinishedStays
<1>13. ASSUME NEW f \in DOMAIN gs PROVE Outside(gs[f], Chain(t.compilers))
  <2>1. CASE f \in DOMAIN fs
    <3>1. gs[f] = fs[f] /\ Outside(fs[f], Chain(s.compilers))
      BY <1>4, <2>1 DEF Typed, Typing
    <3>2. \A j \in DOMAIN fs[f].constants : IsFun(fs[f].constants[j]) => fs[f].constants[j].fun \in DOMAIN fs
      BY <1>4, <2>1, ProgramFacts
    <3> QED
      BY <1>8, <1>9, <3>1, <3>2 DEF Outside
  <2>2. CASE f \notin DOMAIN fs
    <3>1. f = n + 1
      <4>1. f \in 1 .. n + 1 /\ f \notin 1 .. n
        BY <1>1, <1>4, <2>2
      <4>2. \A x \in 1 .. n + 1 : x \notin 1 .. n => x = n + 1
        BY ONLY <1>4
      <4> QED
        BY <4>1, <4>2
    <3>2. gs[f].constants = <<>>
      BY <1>1, <3>1
    <3>3. DOMAIN gs[f].constants = {}
      BY ONLY <3>2
    <3> QED
      BY <3>3 DEF Outside
  <2> QED
    BY <2>1, <2>2
<1>14. ScriptOk(gs, t.compilers)
  <2>1. ScriptOk(fs, s.compilers)
    BY DEF Typed, Typing
  <2>2. t.compilers[1].function = s.compilers[1].function /\ t.compilers[1].upvalues = s.compilers[1].upvalues
    <3>1. m = 1 \/ 1 \in 1 .. m - 1
      <4>1. m \in Nat \ {0}
        BY <1>2
      <4> HIDE DEF m
      <4> QED
        BY ONLY <4>1
    <3> QED
      BY <1>1, <1>2, <3>1
  <2>3. gs[1] = fs[1]
    <3>1. 1 \in DOMAIN fs
      BY <1>4 DEF IsProgram
    <3> QED
      BY <1>4, <3>1
  <2> QED
    BY <2>1, <2>2, <2>3 DEF ScriptOk
<1>15. Typing(gs, t.compilers, r)
  <2> HIDE DEF gs
  <2> QED
    BY <1>10, <1>11, <1>12, <1>13, <1>14 DEF Typing
<1> QED
  BY <1>4, <1>15 DEF Typed, r

(* The compiler around the new one: a local that names the function is ready. *)
Hosts(s, c) == IF This(s).scope_depth > 0 THEN Readies(s, c) ELSE c = This(s)

(* Where a name has been read, it waits to be defined, and no jump waits in its scope. *)
Names1(s, p, marks) ==
  /\ p.temps = 0 /\ marks \subseteq p.marks
  /\ This(s).scope_depth > 0 => Waits(This(s)) /\ NotHere(s, p.open) /\ NotHere(s, marks)
  /\ This(s).scope_depth = 0 => Waits(This(s)) = FALSE

(* The compiler around has its locals on the stack, all but the one that will be the function. *)
LEMMA HostRow ==
  ASSUME NEW s, Base(s), NEW p, Typed(s, p), NEW marks, Names1(s, p, marks), NEW c, Hosts(s, c)
  PROVE  /\ Row(s.functions, c, FALSE, 0, p.open, marks)
         /\ LevelOf(c) = Level(This(s).function, This(s).scope_depth, FALSE)
<1> DEFINE old == This(s).locals
           n == Len(old)
           f == This(s).function
           fs == s.functions
           open == p.open
<1>1. /\ Row(fs, This(s), TRUE, 0, open, p.marks)
      /\ open \subseteq EntryType /\ p.marks \subseteq EntryType /\ marks \subseteq p.marks
  BY TopRow DEF Names1
<1>2. LocalsOk(This(s), TRUE)
  BY <1>1 DEF Row
<1>3. IsProgram(fs) /\ f \in DOMAIN fs
  BY BaseProgram, BaseChain
<1>4. Extends(fs[f], fs[f]) /\ SameClosures(fs, fs, f)
  BY <1>3, ExtendsReflexive DEF SameClosures
<1>5. n \in Nat \ {0} /\ DOMAIN old = 1 .. n /\ This(s).scope_depth \in Nat
  BY OwnFacts, OnStackFacts
<1>6. \A e \in open \cup marks : e.fun = f => CountedBy(This(s), e)
  BY <1>1 DEF Row
<1>7. \A i \in DOMAIN This(s).upvalues : This(s).upvalues[i].is_local => This(s).upvalues[i].index >= 1
  BY <1>1 DEF Row
<1>8. PICK y : FrameOk(fs, f, old, y, OnStack(This(s), TRUE), 0, open, p.marks)
  BY <1>1 DEF Row
<1>9. CASE This(s).scope_depth = 0
  <2>1. c = This(s) /\ Waits(c) = FALSE
    BY <1>5, <1>9 DEF Hosts, Names1
  <2>2. OnStack(c, TRUE) = n /\ OnStack(c, FALSE) = n
    <3>1. OnStack(c, TRUE) = n
      BY <2>1 DEF OnStack, Waits
    <3>2. ~(c.scope_depth > 0)
      BY <1>9, <2>1
    <3>3. OnStack(c, FALSE) = n
      BY <2>1, <3>2 DEF OnStack
    <3> QED
      BY <3>1, <3>3
  <2>3. LocalsOk(c, FALSE)
    <3>1. old[n].depth # -1
      BY <2>1 DEF Waits
    <3>2. \A i \in 1 .. n : old[i].depth # -1
      BY <1>2, <3>1 DEF LocalsOk
    <3> QED
      <4>1. ~(c.scope_depth > 0)
        BY <1>9, <2>1
      <4> QED
        BY <1>2, <2>1, <3>2, <4>1 DEF LocalsOk
  <2>4. \A e \in open \cup open : e.fun = f => e \in open /\ e \in open
    OBVIOUS
  <2>5. \A e \in marks : e.fun = f => e \in p.marks
    BY <1>1
  <2>6. FrameOk(fs, f, old, y, n, 0, open, p.marks)
    BY <1>8, <2>1, <2>2
  <2> HIDE DEF fs, f, old, n, open
  <2>7. FrameOk(fs, f, old, y, n, 0, open, marks)
    BY <1>3, <1>4, <2>4, <2>5, <2>6, FrameStays
  <2>8. Row(fs, c, FALSE, 0, open, marks)
    BY <1>6, <1>7, <2>1, <2>2, <2>3, <2>7 DEF Row, f, old
  <2>9. LevelOf(c) = Level(This(s).function, This(s).scope_depth, FALSE)
    BY <2>1 DEF LevelOf
  <2> QED
    BY <2>8, <2>9 DEF fs, open
<1>10. CASE This(s).scope_depth > 0
  <2>1. Readies(s, c) /\ Waits(This(s)) /\ NotHere(s, open) /\ NotHere(s, marks)
    BY <1>10 DEF Hosts, Names1
  <2>2. /\ LocalsOk(c, FALSE) /\ Len(c.locals) = n /\ n >= 2
        /\ \A i \in 1 .. n : c.locals[i].is_captured = old[i].is_captured
        /\ LevelOf(c) = Level(This(s).function, This(s).scope_depth, FALSE)
    BY <1>2, <2>1, ReadiedLocals
  <2>3. /\ c.function = f /\ c.upvalues = This(s).upvalues /\ c.scope_depth = This(s).scope_depth
    BY <2>1 DEF Readies
  <2>4. OnStack(This(s), TRUE) = n - 1
    BY <2>1 DEF OnStack, Waits
  <2>5. OnStack(c, FALSE) = n - 1
    BY <1>10, <2>2, <2>3 DEF OnStack
  <2>6. \A e \in open \cup marks : e.fun = f => CountedBy(c, e)
    <3> SUFFICES ASSUME NEW e \in open \cup marks, e.fun = f PROVE CountedBy(c, e)
      OBVIOUS
    <3>1. CountedBy(This(s), e)
      BY <1>6
    <3>2. e \in EntryType /\ e.depth # This(s).scope_depth
      BY <1>1, <2>1 DEF NotHere
    <3> QED
      BY <1>2, <2>1, <3>1, <3>2, ReadiedCounted
  <2>7. \A e \in open \cup open : e.fun = f => e \in open /\ e \in open
    OBVIOUS
  <2>8. \A e \in marks : e.fun = f => e \in p.marks
    BY <1>1
  <2>9. FrameOk(fs, f, old, y, n - 1, 0, open, p.marks)
    BY <1>8, <2>4
  <2>10. n - 1 <= Len(c.locals) /\ Len(c.locals) \in Nat /\ Len(old) \in Nat
         /\ \A i \in 1 .. n - 1 : c.locals[i].is_captured = old[i].is_captured
    <3>1. \A i \in 1 .. n - 1 : i \in 1 .. n
      BY ONLY <1>5
    <3>2. n - 1 <= n /\ n \in Nat
      BY ONLY <1>5
    <3> QED
      BY <2>2, <3>1, <3>2
  <2> HIDE DEF fs, f, old, n, open
  <2>11. FrameOk(fs, f, c.locals, y, n - 1, 0, open, p.marks)
    BY <2>9, <2>10, FrameLocals
  <2>12. FrameOk(fs, f, c.locals, y, n - 1, 0, open, marks)
    BY <1>3, <1>4, <2>7, <2>8, <2>11, FrameStays
  <2>13. Row(fs, c, FALSE, 0, open, marks)
    BY <1>7, <2>2, <2>3, <2>5, <2>6, <2>12 DEF Row
  <2> QED
    BY <2>2, <2>13 DEF fs, open
<1>11. This(s).scope_depth = 0 \/ This(s).scope_depth > 0
  <2>1. This(s).scope_depth \in Nat
    BY <1>5
  <2> QED
    BY ONLY <2>1
<1> QED
  BY <1>9, <1>10, <1>11

(* A new function has no code. *)
LEMMA NewFunctionForm ==
  ASSUME NEW name
  PROVE  /\ NewFunction(name).code = <<>> /\ NewFunction(name).constants = <<>>
         /\ NewFunction(name).arity = 0
<1>1. NewFunction(name) = [name |-> name, arity |-> 0, upvalue_count |-> 0, code |-> <<>>, lines |-> 0, constants |-> <<>>]
  BY DEF NewFunction
<1> QED
  BY <1>1

(* In t there is another function, without code, and a compiler for it, with the scope depth given. *)
Joins(s, t, depth) ==
  /\ Len(t.compilers) = Me(s) + 1
  /\ \A k \in 1 .. Me(s) : t.compilers[k] = s.compilers[k]
  /\ DOMAIN t.functions = 1 .. Len(s.functions) + 1
  /\ \A f \in DOMAIN s.functions : t.functions[f] = s.functions[f]
  /\ t.functions[Len(s.functions) + 1].code = <<>> /\ t.functions[Len(s.functions) + 1].arity = 0
  /\ t.functions[Len(s.functions) + 1].constants = <<>>
  /\ t.errors = s.errors
  /\ t.compilers[Me(s) + 1].function = Len(s.functions) + 1
  /\ t.compilers[Me(s) + 1].scope_depth = depth /\ t.compilers[Me(s) + 1].upvalues = <<>>
  /\ Len(t.compilers[Me(s) + 1].locals) = 1
  /\ t.compilers[Me(s) + 1].locals[1].name = "" /\ t.compilers[Me(s) + 1].locals[1].depth = 0

(* The compiler d of function f has only one local, which nobody can name. *)
Starts(d, f) ==
  /\ d.function = f /\ d.scope_depth = 0 /\ d.upvalues = <<>>
  /\ Len(d.locals) = 1 /\ d.locals[1].name = "" /\ d.locals[1].depth = 0

(* A new compiler is one of those. *)
LEMMA NewCompilerForm ==
  ASSUME NEW f, NEW at, NEW before
  PROVE  Starts(NewCompiler(f, at, before), f)
<1> DEFINE local == NewLocal("", 0)
           locals == <<local>>
<1>1. local.name = "" /\ local.depth = 0
  BY DEF NewLocal
<1> HIDE DEF local
<1>2. Len(locals) = 1 /\ locals[1] = local
  OBVIOUS
<1>3. NewCompiler(f, at, before) =
        [function |-> f, locals |-> locals, upvalues |-> <<>>,
         current |-> at, previous |-> before,
         had_error |-> FALSE, panic_mode |-> FALSE, scope_depth |-> 0]
  BY DEF NewCompiler, local
<1> HIDE DEF locals
<1> DEFINE d == NewCompiler(f, at, before)
<1>4. d.function = f /\ d.scope_depth = 0 /\ d.upvalues = <<>> /\ d.locals = locals
  BY <1>3
<1> HIDE DEF d
<1>5. d.locals[1] = local
  BY <1>2, <1>4
<1>6. d.locals[1].name = "" /\ d.locals[1].depth = 0
  BY <1>1, <1>5
<1> QED
  BY <1>2, <1>4, <1>6 DEF d, Starts

(* The compiler of a function is made. *)
LEMMA EnteredForm ==
  ASSUME NEW s, Base(s), NEW name, name \in Lexeme, NEW at, at \in Nat \ {0}
  PROVE  Joins(s, Entered(s, name, at), 0)
<1> DEFINE m == Me(s)
           n == Len(s.functions)
           before == at - 1
           f == n + 1
           g == NewFunction(name)
           c == NewCompiler(f, at, before)
           t == Entered(s, name, at)
           fs == Append(s.functions, g)
           cs == Append(s.compilers, c)
<1>1. /\ IsState(s) /\ s.compilers \in Seq(CompilerType) /\ s.functions \in Seq(FunctionType)
      /\ m \in Nat \ {0} /\ n \in Nat /\ DOMAIN s.compilers = 1 .. m /\ DOMAIN s.functions = 1 .. n
      /\ m = Len(s.compilers)
  BY BaseFacts
<1>2. t = [s EXCEPT !.functions = fs, !.compilers = cs]
  BY DEF Entered
<1>3. t.compilers = cs /\ t.functions = fs /\ t.errors = s.errors
  <2> HIDE DEF t, fs, cs
  <2> QED
    BY <1>1, <1>2 DEF IsState
<1>4. g \in FunctionType
  BY NewFunctionType
<1>5. g.code = <<>> /\ g.constants = <<>> /\ g.arity = 0
  BY NewFunctionForm
<1>6. f \in Nat /\ before \in Nat /\ at \in Nat
  BY <1>1
<1> HIDE DEF f, before
<1>7. c \in CompilerType
  BY <1>6, NewCompilerType DEF Fresh
<1>8. /\ c.function = f /\ c.scope_depth = 0 /\ c.upvalues = <<>> /\ Len(c.locals) = 1
      /\ c.locals[1].name = "" /\ c.locals[1].depth = 0
  <2>1. Starts(NewCompiler(f, at, before), f)
    BY NewCompilerForm
  <2> QED
    BY <2>1 DEF c, Starts
<1> HIDE DEF g, c, t
<1>9. /\ fs \in Seq(FunctionType) /\ Len(fs) = n + 1 /\ DOMAIN fs = 1 .. n + 1
      /\ \A k \in 1 .. n : fs[k] = s.functions[k]
      /\ fs[n + 1] = g
  <2>1. /\ fs \in Seq(FunctionType) /\ Len(fs) = n + 1
        /\ \A k \in 1 .. n : fs[k] = s.functions[k]
        /\ fs[n + 1] = g
    BY <1>1, <1>4, AppendProperties
  <2> HIDE DEF fs, n
  <2> QED
    BY <2>1
<1>10. /\ Len(cs) = m + 1
       /\ \A k \in 1 .. m : cs[k] = s.compilers[k]
       /\ cs[m + 1] = c
  BY <1>1, <1>7, AppendProperties
<1> HIDE DEF fs, cs, m, n
<1>11. /\ t.compilers[m + 1] = c /\ t.functions[n + 1] = g
  BY <1>3, <1>9, <1>10
<1>12. Len(t.compilers) = m + 1 /\ \A k \in 1 .. m : t.compilers[k] = s.compilers[k]
  BY <1>3, <1>10
<1>13. DOMAIN t.functions = 1 .. n + 1 /\ \A k \in DOMAIN s.functions : t.functions[k] = s.functions[k]
  BY <1>1, <1>3, <1>9
<1> QED
  BY ONLY <1>3, <1>5, <1>8, <1>11, <1>12, <1>13 DEF Joins, t, m, n, f

(* A scope begins in the innermost compiler, which is otherwise the same. *)
LEMMA BeginForm ==
  ASSUME NEW s, Base(s), NEW d, d = This(s).scope_depth + 1
  PROVE  /\ BeginScope(s).functions = s.functions /\ BeginScope(s).errors = s.errors
         /\ Len(BeginScope(s).compilers) = Len(s.compilers)
         /\ \A j \in 1 .. Me(s) : j # Me(s) => BeginScope(s).compilers[j] = s.compilers[j]
         /\ BeginScope(s).compilers[Me(s)] = [This(s) EXCEPT !.scope_depth = d]
         /\ BeginScope(s).compilers[Me(s)].scope_depth = d
         /\ BeginScope(s).compilers[Me(s)].function = This(s).function
         /\ BeginScope(s).compilers[Me(s)].locals = This(s).locals
         /\ BeginScope(s).compilers[Me(s)].upvalues = This(s).upvalues
<1> DEFINE t == BeginScope(s)
<1>1. t.functions = s.functions /\ Len(t.compilers) = Len(s.compilers)
  BY BeginScopeFacts
<1>2. t.errors = s.errors
  BY DEF BeginScope
<1>3. /\ DOMAIN s.compilers = 1 .. Me(s) /\ Me(s) = Len(s.compilers) /\ Me(s) \in Nat \ {0}
      /\ This(s) = s.compilers[Me(s)] /\ This(s).scope_depth \in Nat
  BY BaseChain, OwnFacts
<1>5. /\ IsState(s) /\ s.compilers \in Seq(CompilerType) /\ This(s) \in CompilerType
  BY <1>3, BaseFacts DEF Base, IsState
<1>6. t.compilers = [s.compilers EXCEPT ![Me(s)] = [@ EXCEPT !.scope_depth = d]]
  BY <1>3, <1>5 DEF BeginScope, IsState
<1>7. t.compilers[Me(s)] = [This(s) EXCEPT !.scope_depth = d] /\ \A j \in 1 .. Me(s) : j # Me(s) => t.compilers[j] = s.compilers[j]
  BY <1>3, <1>5, <1>6
<1>8. /\ t.compilers[Me(s)].scope_depth = d /\ t.compilers[Me(s)].function = This(s).function
      /\ t.compilers[Me(s)].locals = This(s).locals /\ t.compilers[Me(s)].upvalues = This(s).upvalues
  BY <1>5, <1>7 DEF CompilerType
<1> QED
  BY <1>1, <1>2, <1>7, <1>8

(* The parameters are in a scope of the function. *)
LEMMA JoinsScope ==
  ASSUME NEW s, Base(s), NEW e, Base(e), Joins(s, e, 0)
  PROVE  Joins(s, BeginScope(e), 1) /\ BeginScope(e).compilers[Me(s)] = s.compilers[Me(s)]
<1> DEFINE t == BeginScope(e)
           m == Me(s)
<1>1. m \in Nat \ {0} /\ m \in 1 .. m
  BY BaseFacts
<1>2. Me(e) = m + 1 /\ This(e) = e.compilers[m + 1]
  <2>1. Me(e) = Len(e.compilers) /\ This(e) = e.compilers[Me(e)]
    BY ONLY Base(e), BaseFacts
  <2>2. Len(e.compilers) = m + 1
    BY DEF Joins
  <2> QED
    BY <2>1, <2>2
<1>3. This(e).scope_depth + 1 = 1
  <2>1. e.compilers[m + 1].scope_depth = 0
    BY DEF Joins
  <2>2. This(e).scope_depth = 0
    BY <1>2, <2>1
  <2> HIDE DEF m
  <2> QED
    BY <2>2
<1>4. /\ t.functions = e.functions /\ t.errors = e.errors
      /\ Len(t.compilers) = Len(e.compilers)
      /\ \A j \in 1 .. Me(e) : j # Me(e) => t.compilers[j] = e.compilers[j]
      /\ t.compilers[Me(e)].scope_depth = 1
      /\ t.compilers[Me(e)].function = This(e).function
      /\ t.compilers[Me(e)].locals = This(e).locals
      /\ t.compilers[Me(e)].upvalues = This(e).upvalues
  BY <1>3, BeginForm
<1> HIDE DEF t, m
<1>5. \A j \in 1 .. m : t.compilers[j] = s.compilers[j]
  <2> SUFFICES ASSUME NEW j \in 1 .. m PROVE t.compilers[j] = s.compilers[j]
    OBVIOUS
  <2>1. j \in 1 .. m + 1 /\ j # m + 1
    BY <1>1
  <2>2. t.compilers[j] = e.compilers[j]
    BY <1>2, <1>4, <2>1
  <2> QED
    BY <2>2 DEF Joins, m
<1> QED
  BY <1>1, <1>2, <1>4, <1>5 DEF Joins, t, m

(* Where a name has been read: the innermost compiler is c when the local of that name is ready. *)
Hosted(s, t, c) ==
  /\ Base(s) /\ Base(t) /\ Me(t) = Me(s) /\ t.functions = s.functions /\ t.errors = s.errors
  /\ t.compilers[Me(s)] = c /\ \A k \in 1 .. Me(s) - 1 : t.compilers[k] = s.compilers[k]
  /\ c.function = This(s).function /\ c.upvalues = This(s).upvalues

(* A function begins where its name has been read. *)
LEMMA HostedForm ==
  ASSUME TokensOk, NEW s, Base(s), InText(s), Settled(s)
  PROVE  \E c : Hosts(ParseVariable(s), c) /\ Hosted(ParseVariable(s), Titled(s), c)
<1> DEFINE named == ParseVariable(s)
           ready == Titled(s)
<1>1. Declares(s, named)
  BY ParseVariableFacts
<1>2. ready = IF This(s).scope_depth > 0 THEN MarkReady(named) ELSE named
  BY DEF Titled
<1>3. Base(ready)
  BY TitledFacts
<1> HIDE DEF named, ready
<1>4. Base(named) /\ Declared(This(named)) /\ SameDepths(s, named)
  BY <1>1 DEF Declares
<1>5. This(named).scope_depth = This(s).scope_depth
  BY <1>4, BaseFacts DEF SameDepths
<1>6. /\ DOMAIN named.compilers = 1 .. Me(named) /\ Me(named) \in Nat \ {0} /\ This(named) = named.compilers[Me(named)]
      /\ \A k \in 1 .. Me(named) - 1 : k \in 1 .. Me(named) /\ k # Me(named)
      /\ Me(named) \in 1 .. Me(named)
  <2>1. /\ DOMAIN named.compilers = 1 .. Me(named) /\ Me(named) \in Nat \ {0} /\ This(named) = named.compilers[Me(named)]
    BY <1>4, BaseChain
  <2> QED
    BY <2>1
<1>7. CASE This(s).scope_depth > 0
  <2>1. ready = MarkReady(named)
    BY <1>2, <1>7
  <2>2. This(named).scope_depth > 0
    BY <1>5, <1>7
  <2>3. \E c : Readies(named, c) /\ Replaces(named, MarkReady(named), c)
    BY <1>4, <2>2, MarkReadyForm
  <2>4. PICK c : Readies(named, c) /\ Replaces(named, ready, c)
    BY <2>1, <2>3
  <2>5. Hosts(named, c)
    BY <2>2, <2>4 DEF Hosts
  <2>6. c.function = This(named).function /\ c.upvalues = This(named).upvalues
    BY <2>4 DEF Readies
  <2>7. /\ Me(ready) = Me(named) /\ ready.functions = named.functions /\ ready.errors = named.errors
        /\ \A j \in DOMAIN named.compilers : ready.compilers[j] = IF j = Me(named) THEN c ELSE named.compilers[j]
    BY <2>4 DEF Replaces
  <2>8. ready.compilers[Me(named)] = c
    BY <1>6, <2>7
  <2>9. \A k \in 1 .. Me(named) - 1 : ready.compilers[k] = named.compilers[k]
    BY <1>6, <2>7
  <2>10. Hosted(named, ready, c)
    BY <1>3, <1>4, <2>6, <2>7, <2>8, <2>9 DEF Hosted
  <2> QED
    BY <2>5, <2>10 DEF named, ready
<1>8. CASE ~(This(s).scope_depth > 0)
  <2>1. ready = named
    BY <1>2, <1>8
  <2>2. Hosts(named, This(named))
    BY <1>5, <1>8 DEF Hosts
  <2>3. Hosted(named, ready, This(named))
    BY <1>4, <1>6, <2>1 DEF Hosted
  <2> QED
    BY <2>2, <2>3 DEF named, ready
<1> QED
  BY <1>7, <1>8

(* A function begins inside of it. *)
LEMMA EntersHosted ==
  ASSUME NEW s, NEW r, NEW c, Hosted(s, r, c), NEW t, Base(t), Joins(r, t, 1)
  PROVE  Enters(s, t, c)
<1>1. /\ Base(s) /\ Me(r) = Me(s) /\ r.functions = s.functions
      /\ r.compilers[Me(s)] = c /\ \A k \in 1 .. Me(s) - 1 : r.compilers[k] = s.compilers[k]
      /\ c.function = This(s).function /\ c.upvalues = This(s).upvalues
  BY DEF Hosted
<1>2. Me(s) \in Nat \ {0}
  BY <1>1, BaseFacts
<1> DEFINE m == Me(s)
<1>3. m \in 1 .. m /\ \A k \in 1 .. m - 1 : k \in 1 .. m
  BY <1>2
<1>4. Opens(t.compilers[m + 1], Len(s.functions) + 1)
  <2> DEFINE d == t.compilers[m + 1]
  <2>1. /\ d.function = Len(s.functions) + 1 /\ d.scope_depth = 1 /\ d.upvalues = <<>> /\ Len(d.locals) = 1
        /\ d.locals[1].name = "" /\ d.locals[1].depth = 0
    BY <1>1 DEF Joins
  <2> HIDE DEF d
  <2>4. 1 \in Nat
    OBVIOUS
  <2>2. d.scope_depth \in Nat
    BY <2>1, <2>4, Zenon
  <2>3. Opens(d, Len(s.functions) + 1)
    BY <2>1, <2>2 DEF Opens, Alone
  <2> QED
    BY <2>3 DEF d
<1>5. /\ Len(t.compilers) = m + 1 /\ \A k \in 1 .. m : t.compilers[k] = r.compilers[k]
  BY <1>1 DEF Joins
<1>6. /\ DOMAIN t.functions = 1 .. Len(s.functions) + 1
      /\ \A f \in DOMAIN s.functions : t.functions[f] = s.functions[f]
      /\ t.functions[Len(s.functions) + 1].code = <<>> /\ t.functions[Len(s.functions) + 1].arity = 0
      /\ t.functions[Len(s.functions) + 1].constants = <<>>
  BY <1>1 DEF Joins
<1> HIDE DEF m
<1>7. t.compilers[m] = c /\ \A k \in 1 .. m - 1 : t.compilers[k] = s.compilers[k]
  BY <1>1, <1>3, <1>5 DEF m
<1> QED
  BY <1>1, <1>4, <1>5, <1>6, <1>7 DEF Enters, m

(* Its compiler is the innermost one then. *)
LEMMA BegunForm ==
  ASSUME TokensOk, NEW s, Base(s), InText(s), Settled(s), This(s).current >= 2
  PROVE  /\ \E c : Hosts(ParseVariable(s), c) /\ Enters(ParseVariable(s), Begun(s), c)
         /\ Begun(s).errors = ParseVariable(s).errors
<1> DEFINE named == ParseVariable(s)
           ready == Titled(s)
           at == This(ready).current
           name == tokens[at - 1].lexeme
           e == Entered(ready, name, at)
           t == BeginScope(e)
<1>1. /\ Base(ready) /\ Settled(ready) /\ Declared(This(ready))
      /\ InText(ready) /\ This(s).current <= This(ready).current
  BY TitledFacts
<1>2. Begun(s) = t
  BY DEF Begun
<1>3. PICK c : Hosts(named, c) /\ Hosted(named, ready, c)
  BY HostedForm
<1> HIDE DEF ready, named
<1>4. /\ at \in 2 .. Len(tokens) /\ at \in Nat \ {0}
  <2>1. This(s).current \in Nat
    BY BaseFacts DEF CompilerType
  <2>2. Len(tokens) \in Nat
    BY DEF TokensOk
  <2> QED
    BY <1>1, <2>1, <2>2 DEF InText
<1> HIDE DEF at
<1>5. name \in Lexeme
  BY <1>4, TokenBefore
<1> HIDE DEF name
<1>6. Base(e)
  BY <1>1, <1>4, <1>5, EnteredFacts
<1>7. Joins(ready, e, 0)
  BY <1>1, <1>4, <1>5, EnteredForm
<1> HIDE DEF e
<1>8. Joins(ready, t, 1)
  BY <1>1, <1>6, <1>7, JoinsScope
<1>9. Base(t)
  BY <1>6, BeginScopeFacts
<1> HIDE DEF t
<1>10. Enters(named, t, c)
  BY <1>3, <1>8, <1>9, EntersHosted
<1>11. t.errors = named.errors
  BY <1>3, <1>8 DEF Joins, Hosted
<1> QED
  BY <1>2, <1>3, <1>10, <1>11 DEF named

(* Function, scope and whether a variable waits, as the plan has them. *)
LevelType == [fun : Nat, depth : Nat, waits : BOOLEAN]

(* The levels of the compilers. *)
LEMMA LevelsType ==
  ASSUME NEW s, Base(s)
  PROVE  Levels(s.compilers) \in Seq(LevelType) /\ Len(Levels(s.compilers)) = Me(s)
<1> DEFINE cs == s.compilers
           m == Me(s)
           ls == Levels(cs)
<1>1. /\ DOMAIN cs = 1 .. m /\ m \in Nat /\ DOMAIN s.functions = 1 .. Len(s.functions) /\ Len(s.functions) \in Nat
      /\ \A k \in DOMAIN cs : cs[k] \in CompilerType /\ cs[k].function \in DOMAIN s.functions
  BY BaseFacts
<1>2. ASSUME NEW k \in 1 .. m PROVE LevelOf(cs[k]) \in LevelType
  <2> DEFINE d == cs[k]
  <2>1. d \in CompilerType /\ d.function \in Nat
    BY <1>1
  <2> HIDE DEF d
  <2>2. d.scope_depth \in Nat
    BY <2>1 DEF CompilerType
  <2>3. Waits(d) \in BOOLEAN
    BY DEF Waits
  <2> DEFINE w == Waits(d)
  <2>4. LevelOf(d) = [fun |-> d.function, depth |-> d.scope_depth, waits |-> w]
    BY DEF LevelOf, Level
  <2>5. w \in BOOLEAN
    BY <2>3
  <2> HIDE DEF w
  <2>6. LevelOf(d) \in LevelType
    BY <2>1, <2>2, <2>4, <2>5 DEF LevelType
  <2> QED
    BY <2>6 DEF d
<1>3. ls = [k \in 1 .. m |-> LevelOf(cs[k])]
  BY <1>1 DEF Levels
<1> HIDE DEF cs, ls, m
<1>4. ls \in [1 .. m -> LevelType]
  BY <1>2, <1>3
<1>5. ls \in Seq(LevelType) /\ Len(ls) = m
  BY <1>1, <1>4, SeqDef, LenProperties
<1> QED
  BY <1>5 DEF ls, m, cs

(* Without its level the levels are those of the compilers around it. *)
LEMMA EnteredLevels ==
  ASSUME NEW s, NEW t, NEW c, Enters(s, t, c), NEW p, Typed(s, p),
         LevelOf(c) = Level(This(s).function, This(s).scope_depth, FALSE),
         NEW marks, NEW r, r = EnteredPlan(p, t, marks)
  PROVE  /\ Front(r.levels) = Defined(p) /\ Len(r.levels) >= 2
         /\ Top(r) = Level(Len(s.functions) + 1, 1, FALSE)
<1> DEFINE m == Me(s)
           new == Level(Len(s.functions) + 1, 1, FALSE)
           d == Defined(p)
           e == Levels(t.compilers)
<1>1. /\ Base(s) /\ Base(t) /\ Len(t.compilers) = m + 1
      /\ \A k \in 1 .. m - 1 : t.compilers[k] = s.compilers[k]
      /\ t.compilers[m] = c /\ Opens(t.compilers[m + 1], Len(s.functions) + 1)
  BY DEF Enters
<1>2. /\ DOMAIN s.compilers = 1 .. m /\ m \in Nat \ {0} /\ This(s) = s.compilers[m]
  BY <1>1, BaseChain
<1>3. DOMAIN t.compilers = 1 .. m + 1 /\ Me(t) = m + 1
  BY <1>1, <1>2, BaseChain
<1>4. e \in Seq(LevelType) /\ Len(e) = m + 1
  BY <1>1, <1>3, LevelsType
<1>5. p.levels = Levels(s.compilers) /\ p.levels \in Seq(LevelType) /\ Len(p.levels) = m
  BY <1>1, TopRow, LevelsType DEF PlanOk
<1>6. Top(p) = LevelOf(This(s)) /\ Top(p).fun = This(s).function /\ Top(p).depth = This(s).scope_depth
  BY <1>1, TopRow
<1>7. d = [p.levels EXCEPT ![m] = LevelOf(c)]
  BY <1>5, <1>6 DEF Defined
<1>8. \A k \in 1 .. m + 1 : e[k] = LevelOf(t.compilers[k])
  BY <1>3 DEF Levels
<1> HIDE DEF m, d, e
<1>9. LevelOf(c) \in LevelType
  <2>1. m \in 1 .. m + 1
    BY <1>2
  <2>2. e[m] = LevelOf(c)
    BY <1>1, <1>8, <2>1
  <2> DEFINE x == LevelOf(c)
  <2>3. e[m] = x /\ e \in Seq(LevelType) /\ m \in 1 .. Len(e)
    BY <1>4, <2>1, <2>2
  <2> HIDE DEF x
  <2>4. x \in LevelType
    BY ONLY <2>3
  <2> QED
    BY <2>4 DEF x
<1>10. d \in Seq(LevelType) /\ Len(d) = m /\ \A k \in 1 .. m : d[k] = IF k = m THEN LevelOf(c) ELSE p.levels[k]
  <2> DEFINE ls == p.levels
             x == LevelOf(c)
  <2>0. m \in 1 .. m
    BY <1>2
  <2>1. ls \in Seq(LevelType) /\ Len(ls) = m /\ m \in 1 .. Len(ls) /\ d = [ls EXCEPT ![m] = x] /\ x \in LevelType
    BY <1>5, <1>7, <1>9, <2>0
  <2> HIDE DEF ls, x
  <2>2. d \in Seq(LevelType) /\ Len(d) = m /\ \A k \in 1 .. m : d[k] = IF k = m THEN x ELSE ls[k]
    BY ONLY <2>1, ExceptSeq
  <2> QED
    BY <2>2 DEF ls, x
<1>11. \A k \in 1 .. m : e[k] = d[k]
  <2> SUFFICES ASSUME NEW k \in 1 .. m PROVE e[k] = d[k]
    OBVIOUS
  <2>1. k \in 1 .. m + 1 /\ (k = m \/ k \in 1 .. m - 1)
    BY <1>2
  <2>2. p.levels[k] = LevelOf(s.compilers[k])
    BY <1>2, <1>5 DEF Levels
  <2> QED
    BY <1>1, <1>8, <1>10, <2>1, <2>2
<1>12. Front(e) = d
  <2>1. e \in Seq(LevelType) /\ d \in Seq(LevelType) /\ Len(e) = Len(d) + 1 /\ \A k \in 1 .. Len(d) : e[k] = d[k]
    BY <1>4, <1>10, <1>11
  <2> QED
    BY ONLY <2>1, FrontOfAppend
<1>13. Len(e) >= 2
  <2> QED
    BY <1>2, <1>4
<1>14. e[m + 1] = new
  <2> DEFINE x == t.compilers[m + 1]
  <2>1. x.function = Len(s.functions) + 1 /\ x.scope_depth = 1 /\ Len(x.locals) = 1 /\ x.locals[1].depth = 0
    BY <1>1 DEF Opens, Alone
  <2>2. m + 1 \in 1 .. m + 1
    BY <1>2
  <2>3. e[m + 1] = LevelOf(x)
    BY <1>8, <2>2
  <2> HIDE DEF x
  <2>4. Waits(x) = FALSE
    BY <2>1 DEF Waits
  <2> QED
    BY <2>1, <2>3, <2>4 DEF LevelOf
<1>15. r.levels = e
  BY DEF EnteredPlan, Plan, e
<1>16. Top(r) = new
  <2>2. Top(r) = e[Len(e)]
    BY <1>15 DEF Top
  <2> QED
    BY <1>4, <1>14, <2>2
<1> QED
  BY <1>12, <1>13, <1>15, <1>16 DEF d, new

(* Where the name of a function has been read, its compiler may begin. *)
LEMMA NamedFacts ==
  ASSUME NEW s, Base(s), NEW p, Typed(s, p), Top(p).waits = FALSE, p.temps = 0,
         NEW marks, marks \subseteq p.marks, Clear(p, p.open), Clear(p, marks),
         NEW t, Base(t), Typed(t, Parsed(p))
  PROVE  /\ Names1(t, Parsed(p), marks)
         /\ This(t).function = Top(p).fun /\ This(t).scope_depth = Top(p).depth
<1> DEFINE q == Parsed(p)
<1>1. /\ q.open = p.open /\ q.marks = p.marks /\ q.temps = 0
      /\ Top(q).fun = Top(p).fun /\ Top(q).depth = Top(p).depth
      /\ Top(p).depth # 0 => Top(q).waits = TRUE
      /\ Len(q.levels) = Len(p.levels)
      /\ Top(p).depth = 0 => q.levels = p.levels
  <2>1. /\ Parsed(p).open = p.open /\ Parsed(p).marks = p.marks /\ Parsed(p).temps = p.temps
        /\ Len(Parsed(p).levels) = Len(p.levels)
        /\ Top(Parsed(p)).fun = Top(p).fun /\ Top(Parsed(p)).depth = Top(p).depth
        /\ Top(p).depth = 0 => Parsed(p).levels = p.levels
        /\ Top(p).depth # 0 => Top(Parsed(p)).waits = TRUE
    BY ParsedFacts
  <2> QED
    BY <2>1
<1> HIDE DEF q
<1>2. Top(p).depth = 0 => Top(q).waits = FALSE
  BY <1>1 DEF Top
<1>3. Typed(t, q)
  BY DEF q
<1>4. Top(q).fun = This(t).function /\ Top(q).depth = This(t).scope_depth /\ Top(q) = LevelOf(This(t))
  BY <1>3, TopRow
<1>5. Top(q).waits = Waits(This(t))
  BY <1>4 DEF LevelOf, Level
<1>6. This(t).scope_depth > 0 => Top(p).depth # 0
  BY <1>1, <1>4
<1>7. NotHere(t, q.open) /\ NotHere(t, marks)
  BY <1>1, <1>4 DEF NotHere, Clear, Here
<1>8. This(t).scope_depth > 0 => Waits(This(t))
  BY <1>1, <1>5, <1>6
<1>9. This(t).scope_depth = 0 => Waits(This(t)) = FALSE
  BY <1>1, <1>2, <1>4, <1>5
<1> QED
  BY <1>1, <1>4, <1>7, <1>8, <1>9 DEF Names1, q

(* What the compiler of the function finds. *)
BegunOk(s, p, r, t) ==
  /\ Front(r.levels) = p.levels /\ Len(r.levels) >= 2 /\ Top(r) = Level(Len(s.functions) + 1, 1, FALSE)
  /\ r.open = p.open /\ r.temps = 0 /\ r.fresh = TRUE
  /\ Top(p).depth = 0 => IsString(t.functions, Top(p).fun, VariableIndex(s))

(* The plan when the compiler of a function has begun. *)
LEMMA BegunTurns ==
  ASSUME TokensOk, NEW s, Base(s), InText(s), Settled(s), This(s).current >= 2,
         NEW p, Typed(s, p), Top(p).waits = FALSE, p.temps = 0,
         NEW marks, marks \subseteq p.marks, Clear(p, p.open), Clear(p, marks),
         NEW t, t = Begun(s), NEW r, r = EnteredPlan(Parsed(p), t, marks)
  PROVE  /\ Turns(s, p, t, r) /\ InText(t) /\ Base(t)
         /\ t.errors = {} => BegunOk(s, p, r, t)
<1> DEFINE named == ParseVariable(s)
           q == Parsed(p)
           i == VariableIndex(s)
<1>1. /\ Turns(s, p, named, q) /\ InText(named) /\ Base(named)
      /\ (named.errors = {} /\ Top(p).depth = 0 => IsString(named.functions, This(named).function, i))
  BY ParseTurns
<1>2. Base(t) /\ t.work = s.work /\ InText(t)
  BY BegunFacts
<1>3. (\E c : Hosts(named, c) /\ Enters(named, t, c)) /\ t.errors = named.errors
  BY BegunForm
<1>4. PICK c : Hosts(named, c) /\ Enters(named, t, c)
  BY <1>3
<1>5. Len(named.functions) = Len(s.functions)
  BY ParseVariableStays
<1>6. named.work = s.work
  BY <1>1 DEF Turns
<1>7. Defined(q) = p.levels /\ q.open = p.open
  BY ParsedFacts
<1>8. r.open = q.open /\ r.temps = 0 /\ r.fresh = TRUE
  BY DEF EnteredPlan, Plan
<1> HIDE DEF named, i
<1>9. ASSUME Typed(named, q)
      PROVE  /\ Typed(t, r) /\ More(named.functions, t.functions)
             /\ Front(r.levels) = p.levels /\ Len(r.levels) >= 2 /\ Top(r) = Level(Len(s.functions) + 1, 1, FALSE)
             /\ This(named).function = Top(p).fun
  <2>1. Names1(named, q, marks) /\ This(named).function = Top(p).fun
    BY <1>1, <1>9, NamedFacts
  <2> HIDE DEF q
  <2>2. /\ Row(named.functions, c, FALSE, 0, q.open, marks)
        /\ LevelOf(c) = Level(This(named).function, This(named).scope_depth, FALSE)
    BY <1>1, <1>4, <1>9, <2>1, HostRow
  <2>3. marks \subseteq q.marks
    BY <2>1 DEF Names1
  <2>4. Typed(t, EnteredPlan(q, t, marks)) /\ More(named.functions, t.functions)
    BY <1>4, <1>9, <2>2, <2>3, EntersTyping
  <2>6. r = EnteredPlan(q, t, marks)
    BY DEF q
  <2>5. /\ Front(r.levels) = Defined(q) /\ Len(r.levels) >= 2
        /\ Top(r) = Level(Len(named.functions) + 1, 1, FALSE)
    <3>1. /\ Enters(named, t, c) /\ Typed(named, q)
          /\ LevelOf(c) = Level(This(named).function, This(named).scope_depth, FALSE)
      BY <1>4, <1>9, <2>2
    <3> QED
      BY ONLY <2>6, <3>1, EnteredLevels
  <2> QED
    BY <1>5, <1>7, <2>1, <2>4, <2>5, <2>6
<1> HIDE DEF q
<1>10. Turns(named, q, t, r)
  BY <1>2, <1>3, <1>6, <1>9 DEF Turns
<1>11. Turns(s, p, t, r)
  BY <1>1, <1>10, TurnsTransitive
<1>12. ASSUME t.errors = {} PROVE BegunOk(s, p, r, t)
  <2>1. named.errors = {} /\ s.errors = {}
    BY <1>1, <1>3, <1>12 DEF Turns
  <2>2. Typed(named, q)
    BY <1>1, <2>1 DEF Turns
  <2>3. Top(p).depth = 0 => IsString(t.functions, Top(p).fun, i)
    <3>1. IsProgram(named.functions) /\ IsProgram(t.functions)
      BY <1>1, <1>2, BaseProgram
    <3>2. \A f, j : IsString(named.functions, f, j) => IsString(t.functions, f, j)
      BY <1>9, <2>2, <3>1, IsStringGrows
    <3> QED
      BY <1>1, <1>9, <2>1, <2>2, <3>2
  <2> QED
    BY <1>7, <1>8, <1>9, <2>2, <2>3 DEF BegunOk, i
<1> QED
  BY <1>2, <1>11, <1>12

(* `function_declaration' *)
LEMMA FunctionDeclarationGoal ==
  ASSUME TokensOk, NEW s, NEW c, NEW p, NEW q, Stands(s, c, p, q), c.do = "function_declaration"
  PROVE  Goal(RunFunctionDeclaration(s, c))
<1>1. Base(s) /\ Typed(s, p) /\ Goes(s.functions, p, c, q) /\ Fits(s.functions, q, s.work) /\ InText(s)
      /\ Ready(s, c) /\ c \in CallType
  BY StandsFacts DEF Stands
<1>2. Moves(p, q) /\ p.temps = 0 /\ q.temps = 0 /\ Clear(p, p.open) /\ Clear(p, q.marks)
  BY <1>1, GoesDeclaring DEF Declaring
<1>3. Settled(s) /\ This(s).current >= 2
  <2>1. c \in BeginFunction /\ c \notin ExpressionCall
    <3>1. c \in BeginFunction
      BY <1>1, KindFacts
    <3> QED
      BY <3>1, KindsDiffer
  <2>2. c \notin Define /\ ~Defining(s.work)
    BY <1>1, <2>1, KindsDiffer DEF Ready
  <2> QED
    BY <1>1, <2>1, <2>2 DEF Ready
<1>4. Top(p).waits = FALSE
  <2>1. Me(s) \in DOMAIN s.compilers /\ This(s) = s.compilers[Me(s)]
    BY <1>1, BaseChain
  <2>2. Len(This(s).locals) \in DOMAIN This(s).locals
    BY <1>1, OwnFacts
  <2>3. This(s).locals[Len(This(s).locals)].depth # -1
    BY <1>3, <2>1, <2>2 DEF Settled
  <2>4. Top(p) = LevelOf(This(s))
    BY <1>1, TopRow
  <2>5. Waits(This(s)) = FALSE
    BY <2>3 DEF Waits
  <2>6. LevelOf(This(s)).waits = Waits(This(s))
    BY DEF LevelOf, Level
  <2> QED
    BY <2>4, <2>5, <2>6
<1> DEFINE begun == Begun(s)
           open == Consume(begun, "LEFT_PAREN")
           first == IF Check(open, "RIGHT_PAREN") THEN Call("function_body") ELSE Call("parameter")
           end == [do |-> "end_function", index |-> VariableIndex(s)]
           r == EnteredPlan(Parsed(p), begun, q.marks)
           m == With(r, r.open, q.marks, 0)
<1>5. RunFunctionDeclaration(s, c) = Then(open, <<first, end>>)
  <2> DEFINE ready == Titled(s)
             at == This(ready).current
             inner == NewCompiler(Len(s.functions) + 1, at, at - 1)
             other == BeginScope([ready EXCEPT
                        !.functions = Append(@, NewFunction(tokens[at - 1].lexeme)),
                        !.compilers = Append(@, inner)])
             into == Consume(other, "LEFT_PAREN")
  <2>1. RunFunctionDeclaration(s, c) =
          Then(into, <<IF Check(into, "RIGHT_PAREN") THEN Call("function_body") ELSE Call("parameter"), end>>)
    BY DEF RunFunctionDeclaration, Titled
  <2>2. Len(ready.functions) = Len(s.functions)
    BY <1>1, <1>3, TitledFacts
  <2>3. other = begun
    BY <2>2 DEF Begun, Entered
  <2> HIDE DEF other, begun
  <2> QED
    BY <2>1, <2>3
<1>6. q.marks \subseteq p.marks /\ q.levels = p.levels /\ q.open = p.open /\ q.fresh = FALSE
  BY <1>2 DEF Moves
<1>7. /\ Turns(s, p, begun, r) /\ InText(begun) /\ Base(begun)
      /\ begun.errors = {} => BegunOk(s, p, r, begun)
  BY <1>1, <1>2, <1>3, <1>4, <1>6, BegunTurns
<1>8. r.marks = q.marks
  BY DEF EnteredPlan, Plan
<1> HIDE DEF begun, r
<1>9. /\ m.levels = r.levels /\ m.open = r.open /\ m.marks = q.marks /\ m.temps = 0 /\ m.fresh = FALSE
      /\ Top(m) = Top(r)
  BY DEF With, Plan, Top
<1>10. Loose(r, r)
  BY DEF Loose
<1>11. Turns(begun, r, open, r) /\ Base(open)
  BY <1>7, <1>10, ConsumeTurns
<1>12. Turns(s, p, open, r)
  BY <1>1, <1>7, <1>11, TurnsTransitive
<1>13. /\ first \in CallType /\ first.do \in {"function_body", "parameter"}
       /\ end \in CallType /\ end.do = "end_function" /\ end.index = VariableIndex(s)
  <2>1. VariableIndex(s) \in 0 .. UINT8_MAX
    BY <1>1, ParseVariableFacts
  <2>2. first \in StatementCall /\ end \in EndFunction
    BY <2>1, StatementCallFacts
  <2>3. Call("function_body").do = "function_body" /\ Call("parameter").do = "parameter"
    BY DEF Call
  <2> QED
    BY <2>2, <2>3 DEF CallType
<1> HIDE DEF open, first, end, m
<1>14. ASSUME Typed(open, r), open.errors = {}
       PROVE  Goes(open.functions, r, first, m) /\ Goes(open.functions, m, end, q)
  <2>1. begun.errors = {}
    BY <1>11, <1>14 DEF Turns
  <2>2. BegunOk(s, p, r, begun)
    BY <1>7, <2>1
  <2>3. /\ Front(r.levels) = p.levels /\ Len(r.levels) >= 2 /\ Top(r).fun = Len(s.functions) + 1 /\ Top(r).depth = 1
        /\ r.open = p.open /\ r.temps = 0 /\ r.fresh = TRUE
    BY <2>2 DEF BegunOk, Level
  <2>4. \A e \in p.open \cup q.marks : e.fun # Len(s.functions) + 1
    <3> DEFINE n == Len(s.functions)
    <3>1. DOMAIN s.functions = 1 .. n /\ n \in Nat
      BY <1>1, BaseFacts
    <3>2. \A e \in p.open \cup p.marks : e.fun \in DOMAIN s.functions
      BY <1>1, TopRow DEF PlanOk
    <3> HIDE DEF n
    <3>3. n + 1 \notin 1 .. n
      BY <3>1
    <3>4. \A e \in p.open \cup q.marks : e.fun # n + 1
      BY <1>6, <3>1, <3>2, <3>3
    <3> QED
      BY <3>4 DEF n
  <2>5. Empty(r, r.open) /\ Empty(r, q.marks) /\ Empty(m, q.open) /\ Empty(m, q.marks)
    BY <1>6, <1>9, <2>3, <2>4 DEF Empty
  <2>6. Clear(r, r.open) /\ Clear(r, q.marks)
    BY <2>5 DEF Clear, Here, Empty
  <2>7. Moves(r, m)
    BY <1>8, <1>9 DEF Moves
  <2>8. Goes(open.functions, r, first, m)
    <3> DEFINE fs == open.functions
    <3>1. r.temps = 0 /\ m.temps = 0 /\ m.marks = q.marks /\ Clear(r, r.open) /\ Clear(r, m.marks)
          /\ Empty(r, r.open) /\ Empty(r, m.marks) /\ r.fresh /\ Len(r.levels) >= 2 /\ Top(r).depth >= 1
      BY <1>9, <2>3, <2>5, <2>6
    <3> HIDE DEF fs
    <3>2. CASE first.do = "function_body"
      <4>1. first.do \in Declaring \ {"parameter"}
        BY <3>2 DEF Declaring
      <4>2. Goes(fs, r, first, m) <=> /\ Moves(r, m) /\ r.temps = 0 /\ m.temps = 0
                                      /\ Clear(r, r.open) /\ Clear(r, m.marks)
        BY ONLY <4>1, GoesDeclaring
      <4> QED
        BY <2>7, <3>1, <4>2 DEF fs
    <3>3. CASE first.do = "parameter"
      <4>2. Goes(fs, r, first, m) <=> /\ Moves(r, m) /\ r.temps = 0 /\ m.temps = 0
                                      /\ Clear(r, r.open) /\ Clear(r, m.marks)
                                      /\ r.fresh /\ Len(r.levels) >= 2 /\ Top(r).depth >= 1
                                      /\ Empty(r, r.open) /\ Empty(r, m.marks)
        BY ONLY <3>3, GoesParameter
      <4> QED
        BY <2>7, <3>1, <4>2 DEF fs
    <3> QED
      BY <1>13, <3>2, <3>3
  <2>9. Goes(open.functions, m, end, q)
    <3> DEFINE fs == open.functions
    <3>1. Top(q).fun = Top(p).fun /\ Top(q).depth = Top(p).depth
      BY <1>6 DEF Top
    <3>2. IsProgram(begun.functions) /\ IsProgram(fs)
      BY <1>7, <1>11, BaseProgram
    <3>3. s.errors = {} /\ Typed(begun, r) /\ More(begun.functions, fs)
      <4>1. s.errors = {} /\ Typed(begun, r)
        BY <1>1, <1>7, <2>1 DEF Turns
      <4> QED
        BY <1>11, <1>14, <4>1 DEF Turns
    <3>4. \A f, j : IsString(begun.functions, f, j) => IsString(fs, f, j)
      BY <3>2, <3>3, IsStringGrows
    <3>5. Top(q).depth = 0 => IsString(fs, Top(q).fun, end.index)
      BY <1>13, <2>2, <3>1, <3>4 DEF BegunOk
    <3>6. GoesEndFunction(fs, m, end, q)
      BY <1>2, <1>6, <1>9, <2>3, <2>5, <3>5 DEF GoesEndFunction
    <3> HIDE DEF fs
    <3>7. q.marks \subseteq m.marks /\ q.fresh = FALSE
      BY <1>6, <1>9
    <3>8. Goes(fs, m, end, q) <=> q.marks \subseteq m.marks /\ q.fresh = FALSE /\ GoesEndFunction(fs, m, end, q)
      BY <1>13, GoesLeaving
    <3> QED
      BY <3>6, <3>7, <3>8 DEF fs
  <2> QED
    BY <2>8, <2>9
<1>15. Goal(Then(open, <<first, end>>))
  BY <1>1, <1>12, <1>13, <1>14, Hands2
<1> QED
  BY <1>5, <1>15

-----------------------------------------------------------------------------
(* Functions return, and closures are made *)

(* emit_return writes two instructions. *)
LEMMA ReturnForm ==
  ASSUME NEW s
  PROVE  /\ Emit(s, "OP_NIL") = EmitBytes(s, <<Code["OP_NIL"]>>)
         /\ Base(s) => EmitReturn(s) = EmitBytes(Emit(s, "OP_NIL"), <<Code["OP_RETURN"]>>)
<1>1. {"OP_NIL", "OP_RETURN"} \subseteq OpCode
  BY OpcodeNames
<1>2. Code["OP_NIL"] \in Byte /\ Code["OP_RETURN"] \in Byte
  BY <1>1, ByteFacts
<1> DEFINE ops == <<"OP_NIL", "OP_RETURN">>
<1>3. [i \in DOMAIN ops |-> Code[ops[i]]] = <<Code["OP_NIL"], Code["OP_RETURN"]>>
  OBVIOUS
<1>4. Base(s) => EmitBytes(EmitBytes(s, <<Code["OP_NIL"]>>), <<Code["OP_RETURN"]>>)
                   = EmitBytes(s, <<Code["OP_NIL"], Code["OP_RETURN"]>>)
  BY <1>2, EmitTwice
<1> QED
  BY <1>3, <1>4 DEF EmitReturn, EmitAll, Emit

(* What the script needs to be complete: its result and nothing but its first slot on the stack. *)
Returns(s, p) ==
  /\ \A e \in p.open : e.fun # This(s).function
  /\ This(s).function = 1 =>
       OnStack(This(s), TRUE) + p.temps = 1 /\ Function(s).arity = 0 /\ Function(s).upvalue_count = 0

(* A function that no jump waits in is complete when it returns. *)
LEMMA ReturnFinishes ==
  ASSUME NEW s, Base(s), s.errors = {}, NEW p, Typed(s, p), Returns(s, p), NEW t, t = EmitReturn(s)
  PROVE  /\ \E code : Writes(s, t, code)
         /\ t.errors = {} /\ Base(t) /\ t.work = s.work
         /\ Finished(t.functions, This(s).function)
         /\ Function(t).constants = Function(s).constants
<1> DEFINE u == Emit(s, "OP_NIL")
           r == With(p, p.open, p.marks, p.temps + 1)
           nil == <<Code["OP_NIL"]>>
           ret == <<Code["OP_RETURN"]>>
           f == This(s).function
<1>1. u = EmitBytes(s, nil) /\ t = EmitBytes(u, ret)
  BY ReturnForm
<1>2. nil \in Seq(Byte) /\ ret \in Seq(Byte) /\ ret # <<>> /\ ret[1] = Code["OP_RETURN"] /\ Len(ret) = 1
  <2>1. {"OP_NIL", "OP_RETURN"} \subseteq OpCode
    BY OpcodeNames
  <2>2. Code["OP_NIL"] \in Byte /\ Code["OP_RETURN"] \in Byte
    BY <2>1, ByteFacts
  <2> QED
    BY <2>2
<1>3. Turns(s, p, u, r)
  BY PushTurns DEF PushOps
<1>4. r.open = p.open /\ r.temps = p.temps + 1
  BY DEF With, Plan
<1>5. p.temps \in Nat
  BY TopRow
<1> HIDE DEF u, r, nil, ret
<1>6. /\ Writes(s, u, Function(s).code \o nil) /\ u.errors = s.errors
      /\ Function(u).constants = Function(s).constants
  BY <1>1, <1>2, EmitBytesWrites
<1>7. Base(u) /\ u.work = s.work /\ Typed(u, r) /\ u.errors = {}
  BY <1>3, <1>6 DEF Turns
<1>8. /\ Writes(u, t, Function(u).code \o ret) /\ t.errors = u.errors
      /\ Function(t).constants = Function(u).constants
      /\ ret \in Seq(Nat)
  BY <1>1, <1>2, <1>7, EmitBytesWrites
<1>9. Writes(s, t, Function(u).code \o ret)
  BY <1>6, <1>8, WritesTransitive
<1>10. Base(t) /\ t.work = u.work
  BY <1>1, <1>2, <1>7, EmitBytesFacts DEF Keeps
<1>11. This(u).function = f /\ Same(This(s), This(u))
  BY <1>6, WritesFacts
<1>12. Grows(u.functions, t.functions, f, ret)
  BY <1>2, <1>8, <1>11, WritesGrows
<1>13. PICK y : FrameOk(u.functions, f, This(u).locals, y, OnStack(This(u), TRUE), r.temps, r.open, r.marks)
  BY <1>7, <1>11, FrameOf
<1>14. Len(This(u).locals) \in Nat
  BY <1>7, OnStackFacts
<1>15. OnStack(This(u), TRUE) = OnStack(This(s), TRUE) /\ OnStack(This(s), TRUE) \in Nat
  <2>1. This(u).locals = This(s).locals /\ This(u).scope_depth = This(s).scope_depth
    BY <1>11 DEF Same
  <2>2. OnStack(This(s), TRUE) \in Nat
    BY OnStackFacts
  <2> QED
    BY <2>1, <2>2 DEF OnStack
<1>16. r.temps > 0 /\ (f = 1 => OnStack(This(u), TRUE) + r.temps = 2)
  <2> DEFINE on == OnStack(This(s), TRUE)
  <2>1. f = 1 => on + p.temps = 1
    BY DEF Returns
  <2>2. on \in Nat
    BY <1>15
  <2> HIDE DEF on, f
  <2>3. p.temps + 1 > 0 /\ (f = 1 => on + (p.temps + 1) = 2)
    BY ONLY <2>1, <2>2, <1>5
  <2> QED
    BY <2>3, <1>4, <1>15 DEF on
<1>17. f = 1 => t.functions[f].arity = 0 /\ t.functions[f].upvalue_count = 0
  <2>1. t.functions[f] = Function(t) /\ Function(t).arity = Function(s).arity
        /\ Function(t).upvalue_count = Function(s).upvalue_count
    BY <1>9, WritesFacts DEF Writes
  <2> QED
    BY <2>1 DEF Returns
<1>18. \A e \in r.open : e.fun # f
  BY <1>4 DEF Returns
<1> HIDE DEF f
<1>19. Finished(t.functions, f)
  <2> DEFINE fs == u.functions
             gs == t.functions
             locals == This(u).locals
             on == OnStack(This(u), TRUE)
             temps == r.temps
             open == r.open
             marks == r.marks
  <2>1. /\ Grows(fs, gs, f, ret) /\ Len(locals) \in Nat
        /\ FrameOk(fs, f, locals, y, on, temps, open, marks)
        /\ ret[1] = Code["OP_RETURN"] /\ Len(ret) = 1 /\ temps > 0
    BY <1>2, <1>12, <1>13, <1>14, <1>16
  <2>2. f = 1 => on + temps = 2 /\ gs[f].arity = 0 /\ gs[f].upvalue_count = 0
    BY <1>16, <1>17
  <2>3. \A e \in open : e.fun # f
    BY <1>18
  <2> HIDE DEF fs, gs, locals, on, temps, open, marks
  <2>4. Finished(gs, f)
    BY ONLY <2>1, <2>2, <2>3, FrameFinishes
  <2> QED
    BY <2>4 DEF gs
<1> QED
  BY <1>6, <1>7, <1>8, <1>9, <1>10, <1>19 DEF f

(* Between two compilers: the functions around the one that was compiled wait for its closure. *)
Nested(u, open, marks) ==
  /\ \A k \in DOMAIN u.compilers : Row(u.functions, u.compilers[k], FALSE, 0, open, marks)
  /\ \A f \in DOMAIN u.functions \ Chain(u.compilers) : Finished(u.functions, f)
  /\ \A f \in DOMAIN u.functions : Outside(u.functions[f], Chain(u.compilers))
  /\ ScriptOk(u.functions, u.compilers)
  /\ open \subseteq EntryType /\ marks \subseteq EntryType
  /\ \A e \in open \cup marks : e.fun \in DOMAIN u.functions
  /\ \A e \in marks : e.temps = 0

(* The compilers but the innermost, whose function is g. *)
Sheds(s, t, u) ==
  /\ Base(u) /\ u.functions = t.functions /\ Me(u) = Me(s) - 1
  /\ \A k \in DOMAIN u.compilers : u.compilers[k] = t.compilers[k]

(* When the innermost compiler is gone, its function is no longer under compilation. *)
LEMMA ShedsChain ==
  ASSUME NEW s, NEW t, NEW code, Writes(s, t, code), NEW u, Sheds(s, t, u)
  PROVE  /\ DOMAIN u.compilers = 1 .. Me(u) /\ Me(u) \in Nat \ {0} /\ 1 .. Me(u) \subseteq DOMAIN s.compilers
         /\ \A k \in DOMAIN u.compilers : /\ Same(s.compilers[k], u.compilers[k])
                                          /\ k # Me(s) /\ k # Len(s.compilers)
         /\ This(s).function \notin Chain(u.compilers)
         /\ \A f \in DOMAIN s.functions \ Chain(u.compilers) :
              f \notin Chain(s.compilers) \/ f = This(s).function
         /\ Chain(u.compilers) \subseteq Chain(s.compilers)
         /\ 1 \in DOMAIN u.compilers
<1>1. /\ Base(s) /\ Base(t) /\ Me(t) = Me(s)
      /\ \A j \in DOMAIN s.compilers : Same(s.compilers[j], t.compilers[j])
  BY DEF Writes
<1>2. /\ DOMAIN s.compilers = 1 .. Me(s) /\ Me(s) = Len(s.compilers) /\ Me(s) \in Nat \ {0}
      /\ This(s) = s.compilers[Me(s)]
      /\ \A k, j \in DOMAIN s.compilers : k # j => s.compilers[k].function # s.compilers[j].function
  BY <1>1, BaseChain
<1>3. Base(u) /\ Me(u) = Me(s) - 1 /\ \A k \in DOMAIN u.compilers : u.compilers[k] = t.compilers[k]
  BY DEF Sheds
<1>4. DOMAIN u.compilers = 1 .. Me(u) /\ Me(u) \in Nat \ {0} /\ 1 \in DOMAIN u.compilers
  BY <1>3, BaseChain
<1> DEFINE m == Me(s)
           n == Me(u)
           cs == s.compilers
           ds == u.compilers
<1>5. m \in Nat /\ n = m - 1 /\ DOMAIN cs = 1 .. m /\ DOMAIN ds = 1 .. n
  BY <1>2, <1>3, <1>4
<1> HIDE DEF m, n, cs, ds
<1>6. 1 .. n \subseteq 1 .. m /\ (\A k \in 1 .. n : k # m) /\ (\A k \in 1 .. m : k \in 1 .. n \/ k = m)
  BY ONLY <1>5
<1>7. \A k \in DOMAIN ds : Same(cs[k], ds[k]) /\ cs[k].function = ds[k].function
  BY <1>1, <1>3, <1>5, <1>6 DEF ds, cs, Same
<1>8. \A k \in DOMAIN ds : k \in DOMAIN cs /\ k # m
  BY <1>5, <1>6
<1>9. cs[m].function \notin Chain(ds)
  BY <1>2, <1>5, <1>6, <1>7, <1>8 DEF Chain, cs, m
<1>10. Chain(ds) \subseteq Chain(cs)
  BY <1>7, <1>8 DEF Chain
<1>11. ASSUME NEW f, f \notin Chain(ds), f \in Chain(cs) PROVE f = cs[m].function
  <2>1. PICK k \in DOMAIN cs : f = cs[k].function
    BY <1>11 DEF Chain
  <2>2. k \in 1 .. n \/ k = m
    BY <1>5, <1>6
  <2>3. k \notin 1 .. n
    BY <1>5, <1>7, <1>11, <2>1 DEF Chain
  <2> QED
    BY <2>1, <2>2, <2>3
<1> QED
  BY <1>2, <1>4, <1>5, <1>7, <1>8, <1>9, <1>10, <1>11 DEF m, n, cs, ds

(* The innermost function is complete, and its compiler is gone. *)
LEMMA ShedsNested ==
  ASSUME NEW s, NEW t, NEW code, Writes(s, t, code), Function(t).constants = Function(s).constants,
         Finished(t.functions, This(s).function), NEW u, Sheds(s, t, u),
         NEW p, Typed(s, p), NEW marks, marks \subseteq p.marks
  PROVE  Nested(u, p.open, marks)
<1> DEFINE fs == s.functions
           gs == t.functions
           g  == This(s).function
           cs == s.compilers
           ds == u.compilers
<1>1. /\ IsProgram(fs) /\ IsProgram(gs) /\ DOMAIN gs = DOMAIN fs /\ g \in DOMAIN fs
      /\ \A f \in DOMAIN fs \ {g} : gs[f] = fs[f]
      /\ \A f \in DOMAIN fs : SameClosures(fs, gs, f)
      /\ gs[g] = Function(t) /\ fs[g] = Function(s)
  BY WritesFacts DEF Writes
<1>2. /\ \A k \in DOMAIN ds : Same(cs[k], ds[k]) /\ k \in DOMAIN cs /\ k # Me(s) /\ k # Len(cs)
      /\ g \notin Chain(ds) /\ Chain(ds) \subseteq Chain(cs)
      /\ \A f \in DOMAIN fs \ Chain(ds) : f \notin Chain(cs) \/ f = g
      /\ 1 \in DOMAIN ds
  BY ShedsChain
<1>3. /\ Base(s) /\ Base(t)
      /\ \A k \in DOMAIN cs : cs[k].function \in DOMAIN fs
      /\ \A k \in DOMAIN cs \ {Me(s)} : cs[k].function # g
  <2>1. Base(s) /\ Base(t)
    BY DEF Writes
  <2> QED
    BY <2>1, BaseChain
<1>4. /\ Typing(fs, cs, p) /\ PlanOk(fs, cs, p)
  BY DEF Typed, Typing
<1>5. u.functions = gs
  BY DEF Sheds
<1> HIDE DEF fs, gs, g, cs, ds
<1>6. ASSUME NEW k \in DOMAIN ds PROVE Row(gs, ds[k], FALSE, 0, p.open, marks)
  <2> DEFINE c == cs[k]
             d == ds[k]
             q == With(p, p.open, marks, 0)
  <2>1. k \in DOMAIN cs /\ k # Len(cs) /\ k # Me(s) /\ Same(c, d)
    BY <1>2
  <2>2. Row(fs, c, FALSE, 0, p.open, p.marks)
    <3>1. Row(fs, c, k = Len(cs), IF k = Len(cs) THEN p.temps ELSE 0, p.open, p.marks)
      BY <2>1, <1>4 DEF Typing
    <3>2. (k = Len(cs)) = FALSE
      BY <2>1
    <3> QED
      BY <3>1, <3>2
  <2>3. q.open = p.open /\ q.marks = marks
    BY DEF With, Plan
  <2>4. Agree(c.function, p, q)
    BY <2>3 DEF Agree
  <2>5. c.function \in DOMAIN fs /\ c.function \in DOMAIN gs /\ gs[c.function] = fs[c.function]
    BY <2>1, <1>1, <1>3
  <2>6. Extends(fs[c.function], gs[c.function]) /\ SameClosures(fs, gs, c.function)
    BY <2>5, <1>1, ExtendsReflexive
  <2> HIDE DEF c, d, q
  <2>7. Row(gs, d, FALSE, 0, q.open, q.marks)
    BY <1>1, <2>1, <2>2, <2>4, <2>5, <2>6, RowStays
  <2> QED
    BY <2>3, <2>7 DEF d
<1>7. ASSUME NEW f \in DOMAIN gs \ Chain(ds) PROVE Finished(gs, f)
  <2>1. CASE f = g
    BY <2>1 DEF g, gs
  <2>2. CASE f # g
    <3>1. f \in DOMAIN fs \ Chain(cs) /\ f \in DOMAIN gs /\ gs[f] = fs[f] /\ SameClosures(fs, gs, f)
      BY <1>1, <1>2, <2>2
    <3>2. Finished(fs, f)
      BY <3>1, <1>4 DEF Typing
    <3> QED
      BY <1>1, <3>1, <3>2, FinishedStays
  <2> QED
    BY <2>1, <2>2
<1>8. ASSUME NEW f \in DOMAIN gs PROVE Outside(gs[f], Chain(ds))
  <2>1. Outside(fs[f], Chain(cs))
    BY <1>1, <1>4 DEF Typing
  <2>2. gs[f].constants = fs[f].constants
    <3>1. CASE f = g
      BY <3>1, <1>1
    <3>2. CASE f # g
      BY <3>2, <1>1
    <3> QED
      BY <3>1, <3>2
  <2> QED
    BY <2>1, <2>2, <1>2 DEF Outside
<1>9. ScriptOk(gs, ds)
  <2>1. ScriptOk(fs, cs)
    BY <1>4 DEF Typing
  <2>2. Same(cs[1], ds[1]) /\ 1 \in DOMAIN cs /\ 1 # Me(s)
    BY <1>2
  <2>3. cs[1].function # g /\ cs[1].function \in DOMAIN fs /\ cs[1].function = 1
    BY <1>3, <2>1, <2>2 DEF ScriptOk
  <2>4. gs[1] = fs[1]
    BY <2>3, <1>1
  <2> QED
    BY <2>1, <2>2, <2>4 DEF ScriptOk, Same
<1>10. /\ p.open \subseteq EntryType /\ marks \subseteq EntryType
       /\ \A e \in p.open \cup marks : e.fun \in DOMAIN gs
       /\ \A e \in marks : e.temps = 0
  BY <1>1, <1>4 DEF PlanOk
<1> QED
  BY <1>5, <1>6, <1>7, <1>8, <1>9, <1>10 DEF Nested, ds

(* A closure of function f, which is the last constant of the function whose locals they are. *)
ClosesOver(gs, c, f, bytes) ==
  Closes(gs, c.function, c.locals, bytes, Fun(f), gs[f].upvalue_count, Len(c.locals))

(* A function is on the stack as a local, or above the locals as the value of a global. *)
Above(c) == IF c.scope_depth > 0 THEN 0 ELSE 1

(* The closure is on the stack: if it is a local's, all locals are. *)
LEMMA ClosedRow ==
  ASSUME NEW fs, NEW gs, NEW c, NEW d, Same(c, d), NEW bytes, Grows(fs, gs, c.function, bytes),
         NEW f, ClosesOver(gs, c, f, bytes),
         Len(c.locals) \in Nat \ {0}, c.scope_depth \in Nat, c.scope_depth > 0 => Len(c.locals) >= 2,
         NEW open, NEW marks, Row(fs, c, FALSE, 0, open, marks)
  PROVE  Row(gs, d, TRUE, Above(c), open, marks) /\ LevelOf(d) = LevelOf(c)
<1> DEFINE on == OnStack(c, FALSE)
           m == Len(c.locals)
           later == Above(c)
           i == c.function
           locals == c.locals
           v == Fun(f)
           count == gs[f].upvalue_count
<1>1. PICK y : FrameOk(fs, i, locals, y, on, 0, open, marks)
  BY DEF Row
<1>2. LocalsOk(c, FALSE)
  BY DEF Row
<1>3. d.function = c.function /\ d.scope_depth = c.scope_depth /\ d.locals = c.locals /\ d.upvalues = c.upvalues
  BY DEF Same
<1>4. locals[m].depth # -1
  <2>1. m \in 1 .. m
    OBVIOUS
  <2> QED
    BY <2>1, <1>2 DEF LocalsOk
<1>5. on = IF c.scope_depth > 0 THEN m - 1 ELSE m
  BY DEF OnStack
<1>6. OnStack(d, TRUE) = m
  BY <1>3, <1>4 DEF OnStack
<1>7. LocalsOk(d, TRUE)
  BY <1>2, <1>3 DEF LocalsOk
<1>8. /\ m \in Nat /\ on <= m /\ m <= on + 1 /\ later \in Nat /\ m + later = on + 0 + 1
  <2>1. later = IF c.scope_depth > 0 THEN 0 ELSE 1
    BY DEF Above
  <2>2. m \in Nat
    OBVIOUS
  <2> HIDE DEF m, on, later
  <2> QED
    BY <2>1, <2>2, <1>5
<1>10. Closes(gs, i, locals, bytes, v, count, m)
  BY DEF ClosesOver
<1>12. Grows(fs, gs, i, bytes) /\ Len(locals) \in Nat /\ m <= Len(locals) /\ on <= m
  <2>1. Grows(fs, gs, i, bytes) /\ m = Len(locals)
    OBVIOUS
  <2>2. m \in Nat /\ on <= m
    BY <1>8
  <2> HIDE DEF m, on, i, locals
  <2> QED
    BY ONLY <2>1, <2>2
<1> HIDE DEF on, m, later, i, locals, v, count
<1>13. \E z : FrameOk(gs, i, locals, z, m, later, open, marks)
  <2> DEFINE none == 0
  <2>1. Lifts(locals, on, none, m, later)
    BY <1>8, <1>12 DEF Lifts
  <2>2. FrameOk(fs, i, locals, y, on, none, open, marks)
    BY <1>1
  <2>3. Grows(fs, gs, i, bytes) /\ Len(locals) \in Nat
    BY <1>12
  <2> HIDE DEF none
  <2> QED
    BY ONLY <2>1, <2>2, <2>3, <1>10, FrameCloses
<1>14. \E z : FrameOk(gs, d.function, d.locals, z, OnStack(d, TRUE), Above(c), open, marks)
  BY <1>3, <1>6, <1>13 DEF i, locals, later
<1>15. \A e \in open \cup marks : e.fun = d.function => CountedBy(d, e)
  BY <1>3 DEF Row, CountedBy
<1>16. \A j \in DOMAIN d.upvalues : d.upvalues[j].is_local => d.upvalues[j].index >= 1
  BY <1>3 DEF Row
<1>17. LevelOf(d) = LevelOf(c)
  BY <1>3 DEF LevelOf, Waits
<1> QED
  BY <1>7, <1>14, <1>15, <1>16, <1>17 DEF Row

(* What is found when a closure has been made. *)
ClosedPlan(u, open, marks) == Plan(Levels(u.compilers), open, marks, Above(This(u)), FALSE)

(* The enclosing function makes a closure of f: w is u with the closure, which is another constant. *)
MakesClosure(u, w, f, bytes) ==
  /\ Writes(u, w, Function(u).code \o bytes) /\ bytes \in Seq(Nat) /\ bytes # <<>>
  /\ Function(w).constants = Append(Function(u).constants, Fun(f))
  /\ f \in DOMAIN u.functions \ Chain(u.compilers)
  /\ ClosesOver(w.functions, This(u), f, bytes)

(* Where a closure has been made, what is on the stack is as the plan says. *)
LEMMA ClosureTyping ==
  ASSUME NEW u, NEW open, NEW marks, Nested(u, open, marks),
         This(u).scope_depth \in Nat, This(u).scope_depth > 0 => Len(This(u).locals) >= 2,
         NEW w, NEW f, NEW bytes, MakesClosure(u, w, f, bytes)
  PROVE  Typed(w, ClosedPlan(u, open, marks)) /\ More(u.functions, w.functions)
<1> DEFINE fs == u.functions
           gs == w.functions
           cs == u.compilers
           ds == w.compilers
           q  == ClosedPlan(u, open, marks)
           g  == This(u).function
           m  == Me(u)
<1>1. /\ Writes(u, w, Function(u).code \o bytes) /\ bytes \in Seq(Nat) /\ bytes # <<>>
      /\ Function(w).constants = Append(Function(u).constants, Fun(f))
      /\ f \in DOMAIN fs \ Chain(cs)
      /\ ClosesOver(gs, This(u), f, bytes)
  BY DEF MakesClosure
<1>2. /\ Base(u) /\ Base(w) /\ Me(w) = m /\ \A j \in DOMAIN cs : Same(cs[j], ds[j])
      /\ DOMAIN gs = DOMAIN fs /\ \A h \in DOMAIN fs \ {g} : gs[h] = fs[h]
      /\ Extends(Function(u), Function(w))
  BY <1>1 DEF Writes
<1>3. /\ gs[g] = Function(w) /\ fs[g] = Function(u) /\ g \in DOMAIN fs
      /\ Levels(ds) = Levels(cs)
      /\ \A h \in DOMAIN fs : SameClosures(fs, gs, h)
      /\ IsProgram(fs) /\ IsProgram(gs)
      /\ Function(w).name = Function(u).name /\ Function(w).arity = Function(u).arity
  BY <1>1, WritesFacts DEF Writes
<1>4. /\ DOMAIN cs = 1 .. m /\ m \in Nat \ {0} /\ This(u) = cs[m] /\ m = Len(cs) /\ 1 \in DOMAIN cs
      /\ \A k \in DOMAIN cs : cs[k].function \in DOMAIN fs
      /\ \A k \in DOMAIN cs \ {m} : cs[k].function # g
  BY <1>2, BaseChain
<1>5. DOMAIN ds = 1 .. m /\ m = Len(ds)
  BY <1>2, BaseChain
<1>6. q.levels = Levels(cs) /\ q.open = open /\ q.marks = marks /\ q.temps = Above(This(u)) /\ q.fresh = FALSE
  BY DEF ClosedPlan, Plan
<1>7. Grows(fs, gs, g, bytes)
  BY <1>1, WritesGrows
<1>8. Len(This(u).locals) \in Nat \ {0}
  BY <1>2, OnStackFacts
<1>9. /\ \A k \in DOMAIN cs : Row(fs, cs[k], FALSE, 0, open, marks)
      /\ \A h \in DOMAIN fs \ Chain(cs) : Finished(fs, h)
      /\ \A h \in DOMAIN fs : Outside(fs[h], Chain(cs))
      /\ ScriptOk(fs, cs)
      /\ open \subseteq EntryType /\ marks \subseteq EntryType
      /\ \A e \in open \cup marks : e.fun \in DOMAIN fs
      /\ \A e \in marks : e.temps = 0
  BY DEF Nested
<1>10. Above(This(u)) \in Nat
  BY DEF Above
<1>11. \A h \in DOMAIN fs : Extends(fs[h], gs[h])
  <2> TAKE h \in DOMAIN fs
  <2>1. CASE h = g
    BY <2>1, <1>2, <1>3
  <2>2. CASE h # g
    BY <2>2, <1>2, <1>3, ExtendsReflexive
  <2> QED
    BY <2>1, <2>2
<1>12. More(fs, gs)
  BY <1>2, <1>11 DEF More
<1>13. Chain(ds) = Chain(cs)
  <2>1. DOMAIN ds = DOMAIN cs /\ \A k \in DOMAIN cs : ds[k].function = cs[k].function
    BY <1>2, <1>4, <1>5 DEF Same
  <2> QED
    BY <2>1 DEF Chain
<1> HIDE DEF fs, gs, cs, ds, q, m
<1>14. ASSUME NEW k \in DOMAIN ds
       PROVE  Row(gs, ds[k], k = Len(ds), IF k = Len(ds) THEN q.temps ELSE 0, q.open, q.marks)
  <2> DEFINE c == cs[k]
             d == ds[k]
  <2>1. k \in DOMAIN cs /\ Same(c, d) /\ Row(fs, c, FALSE, 0, open, marks)
    BY <1>2, <1>4, <1>5, <1>9
  <2>2. CASE k = m
    <3>1. c = This(u) /\ c.function = g
      BY <2>2, <1>4
    <3> HIDE DEF c, d
    <3>2. /\ Grows(fs, gs, c.function, bytes) /\ ClosesOver(gs, c, f, bytes)
          /\ Len(c.locals) \in Nat \ {0} /\ c.scope_depth \in Nat
          /\ c.scope_depth > 0 => Len(c.locals) >= 2
      BY <3>1, <1>1, <1>7, <1>8
    <3>3. Row(gs, d, TRUE, Above(c), open, marks)
      BY <2>1, <3>2, ClosedRow
    <3>4. (k = Len(ds)) = TRUE /\ q.temps = Above(c) /\ q.open = open /\ q.marks = marks
      BY <2>2, <3>1, <1>5, <1>6
    <3> QED
      BY <3>3, <3>4 DEF d
  <2>3. CASE k # m
    <3>1. c.function # g /\ c.function \in DOMAIN fs
      BY <2>1, <2>3, <1>4
    <3>2. /\ gs[c.function] = fs[c.function] /\ c.function \in DOMAIN gs
          /\ Extends(fs[c.function], gs[c.function]) /\ SameClosures(fs, gs, c.function)
      BY <3>1, <1>2, <1>3, <1>11
    <3>3. Agree(c.function, q, q)
      BY DEF Agree
    <3>4. Row(fs, c, FALSE, 0, q.open, q.marks)
      BY <2>1, <1>6
    <3> HIDE DEF c, d
    <3>5. Row(gs, d, FALSE, 0, q.open, q.marks)
      BY <1>3, <2>1, <3>1, <3>2, <3>3, <3>4, RowStays
    <3>6. (k = Len(ds)) = FALSE
      BY <2>3, <1>5
    <3> QED
      BY <3>5, <3>6 DEF d
  <2> QED
    BY <2>2, <2>3
<1>15. ASSUME NEW h \in DOMAIN gs \ Chain(ds) PROVE Finished(gs, h)
  <2>1. h \in DOMAIN fs \ Chain(cs) /\ h # g
    <3>1. g \in Chain(cs)
      BY <1>4 DEF Chain
    <3> QED
      BY <3>1, <1>2, <1>13
  <2>2. gs[h] = fs[h] /\ SameClosures(fs, gs, h) /\ Finished(fs, h) /\ h \in DOMAIN gs /\ h \in DOMAIN fs
    BY <2>1, <1>2, <1>3, <1>9
  <2> QED
    BY <2>2, <1>3, FinishedStays
<1>16. ASSUME NEW h \in DOMAIN gs PROVE Outside(gs[h], Chain(ds))
  <2>1. Outside(fs[h], Chain(cs)) /\ h \in DOMAIN fs
    BY <1>2, <1>9
  <2>2. CASE h # g
    BY <2>1, <2>2, <1>2, <1>13
  <2>3. CASE h = g
    <3> DEFINE old == Function(u).constants
               new == Function(w).constants
    <3>1. new = Append(old, Fun(f)) /\ Outside(Function(u), Chain(cs)) /\ f \notin Chain(cs)
      BY <2>1, <2>3, <1>1, <1>3
    <3>2. IsSeq(old)
      <4>1. Function(u) \in FunctionType
        BY <1>2, BaseFacts
      <4>4. old \in Seq(ConstantType)
        BY <4>1 DEF FunctionType
      <4> HIDE DEF old
      <4> QED
        BY <4>4, SeqIsSeq
    <3> HIDE DEF old, new
    <3>3. \A j \in DOMAIN new : (j \in DOMAIN old /\ new[j] = old[j]) \/ new[j] = Fun(f)
      BY <3>1, <3>2, AppendFacts
    <3>4. \A j \in DOMAIN new : IsFun(new[j]) => new[j].fun \notin Chain(cs)
      <4> TAKE j \in DOMAIN new
      <4>1. Fun(f).fun = f
        BY DEF Fun
      <4>2. \A i \in DOMAIN old : IsFun(old[i]) => old[i].fun \notin Chain(cs)
        BY <3>1 DEF Outside, old
      <4> QED
        BY <3>1, <3>3, <4>1, <4>2
    <3> QED
      BY <2>3, <3>4, <1>3, <1>13 DEF Outside, new
  <2> QED
    BY <2>2, <2>3
<1>17. ScriptOk(gs, ds)
  <2>1. ScriptOk(fs, cs) /\ Same(cs[1], ds[1]) /\ cs[1].function \in DOMAIN fs
    BY <1>2, <1>4, <1>9
  <2>2. cs[1].function = 1 /\ gs[1].arity = fs[1].arity /\ gs[1].name = fs[1].name
    <3>1. cs[1].function = 1
      BY <2>1 DEF ScriptOk
    <3>2. CASE 1 = g
      <4>1. gs[1] = Function(w) /\ fs[1] = Function(u)
        BY <3>2, <1>3
      <4> QED
        BY <4>1, <3>1, <1>3
    <3>3. CASE 1 # g
      BY <3>1, <3>3, <2>1, <1>2
    <3> QED
      BY <3>1, <3>2, <3>3
  <2> QED
    BY <2>1, <2>2 DEF ScriptOk, Same
<1>18. PlanOk(gs, ds, q)
  BY <1>2, <1>3, <1>6, <1>9, <1>10 DEF PlanOk
<1>19. Typing(gs, ds, q)
  BY <1>14, <1>15, <1>16, <1>17, <1>18 DEF Typing
<1> QED
  BY <1>12, <1>19 DEF Typed, fs, gs, ds, q

(* A local that is defined already may be so again. *)
LEMMA AgainTurns ==
  ASSUME NEW s, Base(s), Declared(This(s)), This(s).scope_depth > 0,
         This(s).locals[Len(This(s).locals)].depth = This(s).scope_depth, NEW p
  PROVE  Turns(s, p, MarkReady(s), Kept(p))
<1> DEFINE t == MarkReady(s)
           q == Kept(p)
           b == This(s)
<1>1. PICK c : Readies(s, c) /\ Replaces(s, t, c)
  BY MarkReadyForm
<1>2. Base(t) /\ t.work = s.work /\ (InText(s) => InText(t))
  BY MarkReadyFacts DEF Defines
<1>3. t.errors = s.errors
  BY <1>1 DEF Replaces
<1> HIDE DEF t
<1> SUFFICES ASSUME Typed(s, p) PROVE Typed(t, q) /\ More(s.functions, t.functions)
  BY <1>2, <1>3 DEF Turns, t
<1>4. /\ Row(s.functions, b, TRUE, p.temps, p.open, p.marks) /\ p.temps \in Nat
      /\ Top(p) = LevelOf(b)
      /\ PlanOk(s.functions, s.compilers, p)
  BY TopRow
<1>5. c.function = b.function /\ c.upvalues = b.upvalues /\ c.scope_depth = b.scope_depth
  BY <1>1 DEF Readies
<1>6. LocalsOk(b, TRUE)
  BY <1>4 DEF Row
<1>7. /\ LocalsOk(c, TRUE) /\ Waits(c) = FALSE
      /\ Len(c.locals) = Len(b.locals) /\ Len(c.locals) \in Nat /\ Len(c.locals) >= 2
      /\ \A i \in 1 .. Len(c.locals) :
           /\ c.locals[i].is_captured = b.locals[i].is_captured
           /\ c.locals[i].depth = IF i = Len(c.locals) THEN b.scope_depth ELSE b.locals[i].depth
      /\ LevelOf(c) = Level(b.function, b.scope_depth, FALSE)
  BY <1>1, <1>6, ReadiedLocals
<1>8. \A i \in 1 .. Len(c.locals) : c.locals[i].depth = b.locals[i].depth
  BY <1>7
<1>9. b.scope_depth # -1
  BY <1>1 DEF Readies
<1>10. OnStack(c, TRUE) = Len(b.locals) /\ OnStack(b, TRUE) = Len(b.locals)
  <2>1. b.locals[Len(b.locals)].depth # -1
    BY <1>9
  <2>2. Len(c.locals) \in 1 .. Len(c.locals)
    BY <1>7
  <2>3. c.locals[Len(c.locals)].depth # -1
    BY <2>1, <2>2, <1>7, <1>8
  <2> QED
    BY <2>1, <2>3, <1>7 DEF OnStack
<1>11. LevelOf(c) = LevelOf(b)
  BY <1>7, <1>9 DEF LevelOf, Waits, Level
<1>12. Row(s.functions, c, TRUE, p.temps, p.open, p.marks)
  <2> DEFINE fs == s.functions
             f == b.function
             old == b.locals
             new == c.locals
             on == Len(old)
             temps == p.temps
             open == p.open
             marks == p.marks
  <2>1. PICK y : FrameOk(fs, f, old, y, on, temps, open, marks)
    BY <1>4, <1>10 DEF Row
  <2>2. Len(old) \in Nat /\ Len(new) \in Nat /\ on <= Len(new) /\ \A i \in 1 .. on : new[i].is_captured = old[i].is_captured
    BY <1>7
  <2>3. \A e \in open \cup marks : e.fun = f => CountedBy(b, e)
    BY <1>4 DEF Row
  <2>4. \A e \in open \cup marks : e.fun = f => CountedBy(c, e)
    BY <2>3, <1>5, <1>7, <1>8 DEF CountedBy
  <2>5. \A i \in DOMAIN b.upvalues : b.upvalues[i].is_local => b.upvalues[i].index >= 1
    BY <1>4 DEF Row
  <2> HIDE DEF fs, f, old, new, on, temps, open, marks
  <2>6. FrameOk(fs, f, new, y, on, temps, open, marks)
    BY ONLY <2>1, <2>2, FrameLocals
  <2>7. \E z : FrameOk(fs, c.function, c.locals, z, OnStack(c, TRUE), temps, open, marks)
    BY <2>6, <1>5, <1>10 DEF f, new, on, old
  <2>8. Row(fs, c, TRUE, temps, open, marks)
    BY <2>4, <2>5, <2>7, <1>5, <1>7 DEF Row, f
  <2> QED
    BY <2>8 DEF fs, temps, open, marks
<1>13. q.levels = p.levels /\ q.open = p.open /\ q.marks = p.marks /\ q.temps = p.temps /\ q.fresh = FALSE
  BY KeptFacts
<1>14. p.levels = [p.levels EXCEPT ![Len(p.levels)] = LevelOf(c)]
  BY <1>4, <1>11 DEF Top, PlanOk, Levels
<1> HIDE DEF q
<1>15. q.levels = [p.levels EXCEPT ![Len(p.levels)] = LevelOf(c)] /\ q.temps \in Nat /\ q.marks \subseteq p.marks
  BY <1>4, <1>13, <1>14
<1>16. Row(s.functions, c, TRUE, q.temps, q.open, q.marks)
  BY <1>12, <1>13
<1> QED
  BY <1>1, <1>5, <1>13, <1>15, <1>16, ReplacesTyping

(* define_variable, where a local that is defined already has its value, or a global's is on top. *)
LEMMA DefineTurns ==
  ASSUME NEW w, Base(w), Declared(This(w)), NEW p, NEW index, index \in 0 .. UINT8_MAX,
         This(w).scope_depth > 0 =>
           This(w).locals[Len(This(w).locals)].depth = This(w).scope_depth /\ p.temps = 0,
         This(w).scope_depth = 0 => p.temps = 1 /\ IsString(w.functions, This(w).function, index)
  PROVE  Turns(w, p, DefineVariable(w, index), With(p, p.open, p.marks, 0))
<1>1. This(w).scope_depth \in Nat
  BY OwnFacts
<1>2. CASE This(w).scope_depth > 0
  <2>1. DefineVariable(w, index) = MarkReady(w)
    BY <1>2 DEF DefineVariable
  <2>2. Turns(w, p, MarkReady(w), Kept(p))
    BY <1>2, AgainTurns
  <2>3. Kept(p) = With(p, p.open, p.marks, 0)
    BY <1>2 DEF Kept
  <2> QED
    BY <2>1, <2>2, <2>3
<1>3. CASE This(w).scope_depth = 0
  <2>1. DefineVariable(w, index) = EmitWith(w, "OP_DEFINE_GLOBAL", index)
    BY <1>3 DEF DefineVariable
  <2>2. Turns(w, p, EmitWith(w, "OP_DEFINE_GLOBAL", index), With(p, p.open, p.marks, p.temps - 1))
    <3>1. IsString(w.functions, This(w).function, index) /\ p.temps >= 1
      BY <1>3
    <3> QED
      BY <3>1, GlobalTurns
  <2>3. p.temps - 1 = 0
    BY <1>3
  <2> QED
    BY <2>1, <2>2, <2>3
<1> QED
  BY <1>1, <1>2, <1>3

(* The two bytes for each of the upvalues. *)
LEMMA CapturePairs ==
  ASSUME NEW upvalues, upvalues \in Seq(UpvalueType)
  PROVE  /\ Len(CaptureBytes(upvalues)) = 2 * Len(upvalues)
         /\ \A i \in 0 .. Len(upvalues) - 1 :
              /\ i + 1 \in DOMAIN upvalues
              /\ CaptureBytes(upvalues)[1 + 2 * i] = IF upvalues[i + 1].is_local THEN 1 ELSE 0
              /\ CaptureBytes(upvalues)[2 + 2 * i] = upvalues[i + 1].index
<1> DEFINE n == Len(upvalues)
           m == 2 * n
           bytes == CaptureBytes(upvalues)
<1>1. n \in Nat /\ DOMAIN upvalues = 1 .. n
  OBVIOUS
<1>2. bytes = [i \in 1 .. m |-> LET uv == upvalues[(i + 1) \div 2]
                                IN  IF i % 2 = 0 THEN uv.index ELSE IF uv.is_local THEN 1 ELSE 0]
  BY DEF CaptureBytes
<1> HIDE DEF n, bytes
<1>3. Len(bytes) = m
  <2>1. m \in Nat
    BY <1>1
  <2>2. DOMAIN bytes = 1 .. m /\ bytes = [i \in 1 .. m |-> bytes[i]]
    BY <1>2
  <2> HIDE DEF m
  <2> QED
    BY <2>1, <2>2, FunctionIsSeq
<1>4. ASSUME NEW i \in 0 .. n - 1
      PROVE  /\ i + 1 \in DOMAIN upvalues
             /\ bytes[1 + 2 * i] = IF upvalues[i + 1].is_local THEN 1 ELSE 0
             /\ bytes[2 + 2 * i] = upvalues[i + 1].index
  <2> DEFINE a == 1 + 2 * i
             b == 2 + 2 * i
  <2>1. /\ a \in 1 .. m /\ b \in 1 .. m /\ i + 1 \in 1 .. n
        /\ (a + 1) \div 2 = i + 1 /\ a % 2 = 1 /\ (b + 1) \div 2 = i + 1 /\ b % 2 = 0
    BY <1>1
  <2> HIDE DEF a, b, m
  <2>2. bytes[a] = IF upvalues[i + 1].is_local THEN 1 ELSE 0
    BY <1>2, <2>1
  <2>3. bytes[b] = upvalues[i + 1].index
    BY <1>2, <2>1
  <2> QED
    BY <1>1, <2>1, <2>2, <2>3 DEF a, b
<1> QED
  BY <1>3, <1>4 DEF n, bytes

(* Two bytes in front of others. *)
LEMMA TwoInFront ==
  ASSUME NEW a, a \in Nat, NEW b, b \in Nat, NEW rest, rest \in Seq(Nat), NEW bytes, bytes = <<a, b>> \o rest
  PROVE  /\ bytes[1] = a /\ bytes[2] = b /\ Len(bytes) = 2 + Len(rest)
         /\ \A i \in 1 .. Len(rest) : bytes[2 + i] = rest[i]
<1> DEFINE two == <<a, b>>
<1>1. two \in Seq(Nat) /\ Len(two) = 2 /\ two[1] = a /\ two[2] = b
  OBVIOUS
<1>2. bytes = two \o rest
  OBVIOUS
<1> HIDE DEF two
<1>3. Len(bytes) = Len(two) + Len(rest) /\ \A i \in 1 .. Len(bytes) : bytes[i] = IF i <= Len(two) THEN two[i] ELSE rest[i - Len(two)]
  BY <1>1, <1>2, ConcatProperties
<1>4. Len(rest) \in Nat
  OBVIOUS
<1>5. 1 \in 1 .. Len(bytes) /\ 2 \in 1 .. Len(bytes)
  BY <1>1, <1>3, <1>4
<1>6. bytes[1] = a /\ bytes[2] = b
  BY <1>1, <1>3, <1>5
<1>7. ASSUME NEW i \in 1 .. Len(rest) PROVE bytes[2 + i] = rest[i]
  <2>1. 2 + i \in 1 .. Len(bytes) /\ ~(2 + i <= Len(two)) /\ (2 + i) - Len(two) = i
    BY <1>1, <1>3, <1>4
  <2> DEFINE j == 2 + i
  <2>2. j \in 1 .. Len(bytes) /\ ~(j <= Len(two)) /\ j - Len(two) = i
    BY <2>1
  <2> HIDE DEF j
  <2>3. bytes[j] = rest[j - Len(two)]
    BY <1>3, <2>2
  <2> QED
    BY <2>2, <2>3 DEF j
<1> QED
  BY <1>1, <1>3, <1>6, <1>7

(* What the enclosing compiler knows of the upvalues of the inner one. *)
Reaches(outer, upvalues) ==
  \A i \in DOMAIN upvalues :
    /\ UpvalueResolves(outer, upvalues[i])
    /\ upvalues[i].is_local => upvalues[i].index >= 1

(* The instruction that makes the closure. *)
LEMMA ClosureBytes ==
  ASSUME NEW c, Len(c.locals) \in Nat, NEW upvalues, upvalues \in Seq(UpvalueType), Reaches(c, upvalues),
         NEW gs, NEW f, gs[f].upvalue_count = Len(upvalues),
         gs[c.function].upvalue_count = Len(c.upvalues),
         NEW index, index \in Byte, index < Len(gs[c.function].constants),
         gs[c.function].constants[index + 1] = Fun(f),
         NEW bytes, bytes = <<Code["OP_CLOSURE"], index>> \o CaptureBytes(upvalues)
  PROVE  ClosesOver(gs, c, f, bytes) /\ bytes \in Seq(Byte) /\ bytes # <<>>
<1> DEFINE a == Code["OP_CLOSURE"]
           rest == CaptureBytes(upvalues)
           n == Len(upvalues)
           m == Len(c.locals)
           v == Fun(f)
<1>1. rest \in Seq(Byte) /\ Len(rest) = 2 * n /\ n \in Nat
  BY CaptureBytesFacts, CapturePairs
<1>2. a \in Byte
  BY OpcodeNames, ByteFacts
<1>3. /\ \A i \in 0 .. n - 1 : /\ i + 1 \in DOMAIN upvalues
                               /\ rest[1 + 2 * i] = IF upvalues[i + 1].is_local THEN 1 ELSE 0
                               /\ rest[2 + 2 * i] = upvalues[i + 1].index
  BY CapturePairs
<1>4. bytes = <<a, index>> \o rest
  OBVIOUS
<1> HIDE DEF a, rest, n, m
<1>5. bytes \in Seq(Byte) /\ rest \in Seq(Nat) /\ a \in Nat /\ index \in Nat
  <2>1. <<a, index>> \in Seq(Byte)
    BY <1>2
  <2>2. \A b \in Byte : b \in Nat
    BY BytesAreNats
  <2>3. rest \in Seq(Nat)
    BY <1>1, BytesAreNats, SeqMonotonic
  <2>4. bytes \in Seq(Byte)
    BY <1>1, <1>4, <2>1, ConcatProperties
  <2> QED
    BY <1>2, <2>2, <2>3, <2>4
<1>6. /\ bytes[1] = a /\ bytes[2] = index /\ Len(bytes) = 2 + Len(rest)
      /\ \A i \in 1 .. Len(rest) : bytes[2 + i] = rest[i]
  BY <1>4, <1>5, TwoInFront
<1>7. ASSUME NEW i \in 0 .. n - 1
      PROVE  IF bytes[3 + 2 * i] # 0
             THEN bytes[4 + 2 * i] \in 1 .. m - 1 /\ c.locals[bytes[4 + 2 * i] + 1].is_captured
             ELSE bytes[4 + 2 * i] < gs[c.function].upvalue_count
  <2> DEFINE uv == upvalues[i + 1]
             x == 1 + 2 * i
             y == 2 + 2 * i
  <2>1. x \in 1 .. Len(rest) /\ y \in 1 .. Len(rest) /\ 2 + x = 3 + 2 * i /\ 2 + y = 4 + 2 * i
    BY <1>1
  <2>2. i + 1 \in DOMAIN upvalues /\ rest[x] = (IF uv.is_local THEN 1 ELSE 0) /\ rest[y] = uv.index
    BY <1>3
  <2>3. uv \in UpvalueType /\ UpvalueResolves(c, uv) /\ (uv.is_local => uv.index >= 1)
    BY <2>2 DEF Reaches
  <2> HIDE DEF x, y, uv
  <2>4. bytes[3 + 2 * i] = (IF uv.is_local THEN 1 ELSE 0) /\ bytes[4 + 2 * i] = uv.index
    BY <1>6, <2>1, <2>2
  <2>5. uv.index \in Nat /\ uv.is_local \in BOOLEAN
    BY <2>3, ByteFacts DEF UpvalueType
  <2>6. CASE uv.is_local
    <3>1. uv.index < m /\ c.locals[uv.index + 1].is_captured /\ uv.index >= 1
      BY <2>3, <2>6 DEF UpvalueResolves, m
    <3>2. bytes[3 + 2 * i] # 0
      <4>1. bytes[3 + 2 * i] = 1
        BY <2>4, <2>6
      <4> QED
        BY ONLY <4>1
    <3>3. uv.index \in 1 .. m - 1
      <4>1. m \in Nat
        BY DEF m
      <4> QED
        BY <4>1, <2>5, <3>1
    <3> QED
      BY <2>4, <3>1, <3>2, <3>3
  <2>7. CASE ~uv.is_local
    <3>1. uv.index < Len(c.upvalues)
      BY <2>3, <2>7 DEF UpvalueResolves
    <3>2. bytes[3 + 2 * i] = 0
      BY <2>4, <2>7
    <3> QED
      BY <2>4, <3>1, <3>2
  <2> QED
    BY <2>6, <2>7
<1>8. v.fun = f /\ IsFun(v)
  BY DEF Fun, IsFun
<1>9. gs[v.fun].upvalue_count = n /\ Len(bytes) = 2 + 2 * n
  BY <1>1, <1>6, <1>8 DEF n
<1>10. bytes[2] < Len(gs[c.function].constants) /\ gs[c.function].constants[bytes[2] + 1] = v
  BY <1>6
<1> HIDE DEF v
<1>11. gs[f].upvalue_count = n
  BY DEF n
<1>12. Closes(gs, c.function, c.locals, bytes, v, n, m)
  BY <1>1, <1>6, <1>7, <1>8, <1>9, <1>10 DEF Closes, a
<1>13. ClosesOver(gs, c, f, bytes)
  BY <1>11, <1>12 DEF ClosesOver, m, v
<1>14. bytes # <<>>
  <2>1. Len(bytes) # 0
    BY <1>1, <1>9
  <2> QED
    BY <2>1
<1> QED
  BY <1>5, <1>13, <1>14

(* What is known when the innermost function has returned and its compiler is gone. *)
Returned(s, u, open, marks) ==
  /\ Nested(u, open, marks) /\ Base(u) /\ Declared(This(u)) /\ u.work = s.work
  /\ u.errors = {} /\ Me(u) = Me(s) - 1 /\ This(u) = s.compilers[Me(s) - 1]
  /\ \A k \in DOMAIN u.compilers : u.compilers[k] = s.compilers[k]
  /\ This(s).function \in DOMAIN u.functions \ Chain(u.compilers)
  /\ u.functions[This(s).function].upvalue_count = Len(This(s).upvalues)
  /\ More(s.functions, u.functions) /\ IsProgram(u.functions) /\ IsProgram(s.functions)

(* The enclosing function after the return of the inner one. *)
LEMMA OuterFacts ==
  ASSUME NEW s, Base(s), Settled(s), Me(s) >= 2, s.errors = {}, NEW p, Typed(s, p), Returns(s, p),
         NEW marks, marks \subseteq p.marks,
         NEW r, r = EmitReturn(s), NEW u, u = Left(r)
  PROVE  Returned(s, u, p.open, marks)
<1> DEFINE f == This(s).function
<1>1. /\ \E code : Writes(s, r, code)
      /\ r.errors = {} /\ Base(r) /\ r.work = s.work
      /\ Finished(r.functions, f)
      /\ Function(r).constants = Function(s).constants
  BY ReturnFinishes
<1>2. PICK code : Writes(s, r, code)
  BY <1>1
<1>3. r.compilers = s.compilers /\ Keeps(s, r)
  BY EmitReturnFacts
<1>4. Settled(r) /\ Me(r) = Me(s) /\ Len(r.compilers) >= 2
  <2>1. Settled(r)
    BY <1>3, ScopesKept DEF Keeps
  <2>2. Me(r) = Me(s) /\ Me(r) = Len(r.compilers)
    BY <1>3 DEF Me
  <2> QED
    BY <2>1, <2>2
<1>5. /\ Base(u) /\ Declared(This(u))
      /\ u.work = r.work /\ u.errors = r.errors /\ u.functions = r.functions
      /\ Me(u) = Me(r) - 1
      /\ \A k \in 1 .. Me(r) - 1 : u.compilers[k] = r.compilers[k]
  BY <1>1, <1>4, LeftFacts
<1>6. DOMAIN u.compilers = 1 .. Me(u) /\ Me(u) \in DOMAIN u.compilers /\ This(u) = u.compilers[Me(u)]
  BY <1>5, BaseChain
<1>7. /\ Me(u) = Me(s) - 1 /\ This(u) = s.compilers[Me(s) - 1]
      /\ \A k \in DOMAIN u.compilers : u.compilers[k] = s.compilers[k] /\ u.compilers[k] = r.compilers[k]
  BY <1>3, <1>4, <1>5, <1>6
<1>8. Sheds(s, r, u)
  BY <1>5, <1>7 DEF Sheds
<1>9. Nested(u, p.open, marks)
  BY <1>1, <1>2, <1>8, ShedsNested
<1>10. f \notin Chain(u.compilers)
  BY <1>2, <1>8, ShedsChain
<1>11. f \in DOMAIN u.functions /\ u.functions[f].upvalue_count = Len(This(s).upvalues)
  <2>1. f \in DOMAIN r.functions /\ Function(r) = r.functions[f] /\ Function(s) = s.functions[f]
    BY <1>2, WritesFacts
  <2>2. Function(r).upvalue_count = Function(s).upvalue_count
    BY <1>2 DEF Writes
  <2>3. Len(This(s).upvalues) = s.functions[f].upvalue_count
    BY OwnFacts
  <2> QED
    BY <2>1, <2>2, <2>3, <1>5
<1>12. More(s.functions, r.functions) /\ IsProgram(s.functions) /\ IsProgram(r.functions)
  <2> DEFINE fs == s.functions
             gs == r.functions
  <2>1. /\ IsProgram(fs) /\ IsProgram(gs) /\ DOMAIN gs = DOMAIN fs
        /\ \A g \in DOMAIN fs \ {f} : gs[g] = fs[g]
        /\ fs[f] = Function(s) /\ gs[f] = Function(r) /\ Extends(Function(s), Function(r))
    BY <1>2, WritesFacts DEF Writes
  <2> HIDE DEF fs, gs, f
  <2>2. \A g \in DOMAIN fs : Extends(fs[g], gs[g])
    <3> TAKE g \in DOMAIN fs
    <3>1. CASE g = f
      BY <2>1, <3>1
    <3>2. CASE g # f
      BY <2>1, <3>2, ExtendsReflexive
    <3> QED
      BY <3>1, <3>2
  <2>3. More(fs, gs)
    BY <2>1, <2>2 DEF More
  <2> QED
    BY <2>1, <2>3 DEF fs, gs
<1> QED
  BY <1>1, <1>5, <1>7, <1>9, <1>10, <1>11, <1>12 DEF Returned

(* The upvalues of the inner function are captured locals and upvalues of the enclosing one. *)
LEMMA InnerReaches ==
  ASSUME NEW s, Base(s), Me(s) >= 2, s.errors = {}, NEW p, Typed(s, p)
  PROVE  Reaches(s.compilers[Me(s) - 1], This(s).upvalues) /\ This(s).upvalues \in Seq(UpvalueType)
<1>1. /\ Me(s) = Len(s.compilers) /\ Me(s) \in Nat /\ This(s) = s.compilers[Me(s)] /\ Me(s) \in 2 .. Len(s.compilers)
  BY BaseChain
<1>2. \A i \in DOMAIN This(s).upvalues : UpvalueResolves(s.compilers[Me(s) - 1], This(s).upvalues[i])
  BY <1>1 DEF Base, Resolved
<1>3. \A i \in DOMAIN This(s).upvalues : This(s).upvalues[i].is_local => This(s).upvalues[i].index >= 1
  BY TopRow DEF Row
<1>4. This(s).upvalues \in Seq(UpvalueType)
  BY BaseFacts DEF CompilerType
<1> QED
  BY <1>2, <1>3, <1>4 DEF Reaches

(* The constant for the closure, and the instruction. *)
Closure(u, inner) ==
  EmitBytes(AddConstant(u, Fun(inner.function)),
            <<Code["OP_CLOSURE"], ConstantIndex(u)>> \o CaptureBytes(inner.upvalues))

(* The enclosing function with a closure of f. *)
LEMMA ClosureWrites ==
  ASSUME NEW u, Base(u), NEW inner, inner.upvalues \in Seq(UpvalueType), Reaches(This(u), inner.upvalues),
         inner.function \in DOMAIN u.functions \ Chain(u.compilers),
         u.functions[inner.function].upvalue_count = Len(inner.upvalues),
         NEW w, w = Closure(u, inner), w.errors = {}
  PROVE  /\ \E bytes : MakesClosure(u, w, inner.function, bytes)
         /\ Base(w) /\ w.work = u.work /\ (InText(u) => InText(w))
<1> DEFINE f == inner.function
           val == Fun(f)
           added == AddConstant(u, val)
           index == ConstantIndex(u)
           bytes == <<Code["OP_CLOSURE"], index>> \o CaptureBytes(inner.upvalues)
           g == This(u).function
<1>1. w = EmitBytes(added, bytes)
  BY DEF Closure
<1>2. f \in DOMAIN u.functions /\ f \notin Chain(u.compilers)
  OBVIOUS
<1>3. val \in ConstantType /\ IsConstant(u.functions, val)
  <2>1. f \in Nat
    BY <1>2, BaseFacts DEF CompilerType
  <2> HIDE DEF f
  <2>2. [fun |-> f] \in [fun : DOMAIN u.functions] /\ [fun |-> f] \in [fun : Nat]
    BY <1>2, <2>1
  <2>3. val = [fun |-> f]
    BY DEF Fun
  <2> QED
    BY <2>2, <2>3 DEF ConstantType, IsConstant
<1>4. index \in 0 .. UINT8_MAX /\ index \in Byte
  <2>1. index \in 0 .. UINT8_MAX
    BY <1>3, AddConstantFacts
  <2> QED
    BY <2>1, ByteFacts
<1>5. bytes \in Seq(Byte)
  <2> DEFINE rest == CaptureBytes(inner.upvalues)
             a == Code["OP_CLOSURE"]
             b == index
  <2>1. rest \in Seq(Byte)
    BY CaptureBytesFacts
  <2>2. a \in Byte /\ b \in Byte
    BY <1>4, OpcodeNames, ByteFacts
  <2>3. bytes = <<a, b>> \o rest
    OBVIOUS
  <2> HIDE DEF a, b, rest, bytes
  <2>4. <<a, b>> \in Seq(Byte)
    BY <2>2
  <2> QED
    BY <2>1, <2>3, <2>4, ConcatProperties
<1>6. Base(added) /\ Keeps(u, added)
  BY <1>3, AddConstantFacts DEF Keeps
<1>7. bytes = <<Code["OP_CLOSURE"], index>> \o CaptureBytes(inner.upvalues)
  OBVIOUS
<1> HIDE DEF added, bytes
<1>8. /\ Writes(added, w, Function(added).code \o bytes) /\ w.errors = added.errors
      /\ Function(w).constants = Function(added).constants /\ bytes \in Seq(Nat)
  BY <1>1, <1>5, <1>6, EmitBytesWrites
<1>9. added.errors = {}
  BY <1>8
<1>10. /\ index = Len(Function(u).constants) /\ Len(Function(u).constants) \in Nat
       /\ Writes(u, added, Function(u).code)
       /\ Function(added).constants = Append(Function(u).constants, val)
  BY <1>3, <1>9, ConstantForm DEF added
<1> HIDE DEF index, val
<1>11. Writes(u, w, Function(u).code \o bytes)
  <2>1. Writes(u, w, Function(added).code \o bytes)
    BY <1>8, <1>10, WritesTransitive
  <2>2. Function(added).code = Function(u).code
    BY <1>10 DEF Writes
  <2> QED
    BY <2>1, <2>2
<1>12. Keeps(added, w)
  BY <1>1, <1>5, <1>6, EmitBytesFacts
<1>13. Base(w) /\ w.work = u.work /\ (InText(u) => InText(w))
  BY <1>6, <1>12 DEF Keeps
<1>14. /\ Function(w) = w.functions[g] /\ Same(This(u), This(w)) /\ g = This(w).function
  BY <1>11, WritesFacts
<1>15. \A h \in DOMAIN u.functions \ {g} : w.functions[h] = u.functions[h]
  BY <1>11 DEF Writes
<1>16. f # g
  <2>1. g \in Chain(u.compilers)
    BY BaseChain DEF Chain
  <2> QED
    BY <1>2, <2>1
<1>17. w.functions[f].upvalue_count = Len(inner.upvalues)
  BY <1>2, <1>15, <1>16
<1>18. w.functions[g].upvalue_count = Len(This(u).upvalues)
  <2>1. Len(This(w).upvalues) = w.functions[This(w).function].upvalue_count
    BY <1>13, OwnFacts
  <2> QED
    BY <2>1, <1>14 DEF Same
<1>19. index < Len(w.functions[g].constants) /\ w.functions[g].constants[index + 1] = val
  <2> DEFINE old == Function(u).constants
  <2>1. w.functions[g].constants = Append(old, val)
    BY <1>8, <1>10, <1>14
  <2>2. IsSeq(old)
    <3>1. Function(u) \in FunctionType
      BY BaseFacts
    <3>2. old \in Seq(ConstantType)
      BY <3>1 DEF FunctionType
    <3> HIDE DEF old
    <3> QED
      BY <3>2, SeqIsSeq
  <2>3. index = Len(old) /\ Len(old) \in Nat
    BY <1>10
  <2> HIDE DEF old
  <2>4. Len(Append(old, val)) = Len(old) + 1 /\ Append(old, val)[Len(old) + 1] = val
    BY <2>2, AppendFacts
  <2> QED
    BY <2>1, <2>3, <2>4
<1>20. Len(This(u).locals) \in Nat
  BY OnStackFacts
<1>21. ClosesOver(w.functions, This(u), f, bytes) /\ bytes # <<>>
  <2> DEFINE gs == w.functions
             c == This(u)
             upvalues == inner.upvalues
  <2>1. /\ Len(c.locals) \in Nat /\ upvalues \in Seq(UpvalueType) /\ Reaches(c, upvalues)
        /\ gs[f].upvalue_count = Len(upvalues) /\ gs[c.function].upvalue_count = Len(c.upvalues)
        /\ index \in Byte /\ index < Len(gs[c.function].constants)
        /\ gs[c.function].constants[index + 1] = Fun(f)
    BY <1>4, <1>17, <1>18, <1>19, <1>20 DEF val
  <2>2. bytes = <<Code["OP_CLOSURE"], index>> \o CaptureBytes(upvalues)
    BY <1>7
  <2> HIDE DEF gs, c, upvalues, f
  <2>3. ClosesOver(gs, c, f, bytes) /\ bytes # <<>>
    BY ONLY <2>1, <2>2, ClosureBytes
  <2> QED
    BY <2>3 DEF gs, c, f
<1>22. MakesClosure(u, w, f, bytes)
  BY <1>2, <1>8, <1>10, <1>11, <1>21 DEF MakesClosure, val
<1> QED
  BY <1>13, <1>22

(* The closure is made in the enclosing function, with or without an error. *)
LEMMA ClosureKeeps ==
  ASSUME NEW u, Base(u), NEW inner, inner.upvalues \in Seq(UpvalueType), inner.function \in DOMAIN u.functions,
         NEW w, w = Closure(u, inner)
  PROVE  Keeps(u, w) /\ u.errors \subseteq w.errors
<1> DEFINE f == inner.function
           val == Fun(f)
           added == AddConstant(u, val)
           index == ConstantIndex(u)
           bytes == <<Code["OP_CLOSURE"], index>> \o CaptureBytes(inner.upvalues)
<1>1. w = EmitBytes(added, bytes)
  BY DEF Closure
<1>3. val \in ConstantType /\ IsConstant(u.functions, val)
  <2>1. f \in DOMAIN u.functions /\ f \in Nat
    BY BaseFacts DEF CompilerType
  <2> HIDE DEF f
  <2>2. [fun |-> f] \in [fun : DOMAIN u.functions] /\ [fun |-> f] \in [fun : Nat]
    BY <2>1
  <2>3. val = [fun |-> f]
    BY DEF Fun
  <2> QED
    BY <2>2, <2>3 DEF ConstantType, IsConstant
<1>4. index \in 0 .. UINT8_MAX /\ index \in Byte
  <2>1. index \in 0 .. UINT8_MAX
    BY <1>3, AddConstantFacts
  <2> QED
    BY <2>1, ByteFacts
<1>5. bytes \in Seq(Byte)
  <2> DEFINE rest == CaptureBytes(inner.upvalues)
             a == Code["OP_CLOSURE"]
             b == index
  <2>1. rest \in Seq(Byte)
    BY CaptureBytesFacts
  <2>2. a \in Byte /\ b \in Byte
    BY <1>4, OpcodeNames, ByteFacts
  <2>3. bytes = <<a, b>> \o rest
    OBVIOUS
  <2> HIDE DEF a, b, rest, bytes
  <2>4. <<a, b>> \in Seq(Byte)
    BY <2>2
  <2> QED
    BY <2>1, <2>3, <2>4, ConcatProperties
<1>6. Base(added) /\ Keeps(u, added) /\ u.errors \subseteq added.errors
  <2>1. Keeps(u, added)
    BY <1>3, AddConstantFacts
  <2>2. u.errors \subseteq added.errors
    BY AddConstantStays
  <2> QED
    BY <2>1, <2>2 DEF Keeps
<1> HIDE DEF added, bytes, index, val
<1>7. Keeps(added, w) /\ w.errors = added.errors
  <2>1. Keeps(added, EmitBytes(added, bytes))
    BY <1>5, <1>6, EmitBytesFacts
  <2>2. EmitBytes(added, bytes).errors = added.errors
    BY <1>6, EmitBytesStays
  <2> QED
    BY <1>1, <2>1, <2>2
<1> QED
  BY <1>6, <1>7, KeepsTransitive

(* `end_function' *)
LEMMA EndFunctionGoal ==
  ASSUME TokensOk, NEW s, NEW c, NEW p, NEW q, Stands(s, c, p, q), c.do = "end_function"
  PROVE  Goal(RunEndFunction(s, c))
<1>1. /\ Base(s) /\ Ready(s, c) /\ s.errors = {} /\ Typed(s, p) /\ InText(s)
      /\ Goes(s.functions, p, c, q) /\ Fits(s.functions, q, s.work)
  BY StandsFacts DEF Stands
<1>2. c \in EndFunction /\ c.index \in 0 .. UINT8_MAX
  BY <1>1, KindFacts, ShapeFacts DEF Ready
<1>3. Settled(s)
  BY <1>1, <1>2, KindsDiffer DEF Ready
<1>4. q.marks \subseteq p.marks /\ q.fresh = FALSE /\ GoesEndFunction(s.functions, p, c, q)
  BY <1>1, GoesLeaving
<1>5. /\ Me(s) = Len(p.levels) /\ Len(p.levels) >= 2 /\ q.levels = Front(p.levels) /\ p.temps = 0 /\ q.temps = 0
      /\ q.open = p.open /\ \A e \in p.open : e.fun # Top(p).fun
      /\ Top(p).fun = This(s).function
      /\ Top(q).depth = 0 => IsString(s.functions, Top(q).fun, c.index)
  BY <1>1, <1>4, TopRow DEF GoesEndFunction, Empty
<1>6. Returns(s, p)
  <2>1. /\ Me(s) \in DOMAIN s.compilers /\ 1 \in DOMAIN s.compilers /\ This(s) = s.compilers[Me(s)]
        /\ \A k, j \in DOMAIN s.compilers : k # j => s.compilers[k].function # s.compilers[j].function
        /\ Me(s) \in Nat
    BY <1>1, BaseChain
  <2>2. s.compilers[1].function = 1
    BY <1>1 DEF Typed, Typing, ScriptOk
  <2>3. Me(s) # 1
    <3> DEFINE m == Me(s)
    <3>1. m \in Nat /\ m >= 2
      BY <1>5, <2>1
    <3> HIDE DEF m
    <3>2. m # 1
      BY <3>1
    <3> QED
      BY <3>2 DEF m
  <2>4. This(s).function # 1
    BY <2>1, <2>2, <2>3
  <2> QED
    BY <1>5, <2>4 DEF Returns
<1> DEFINE inner == This(s)
           r == EmitReturn(s)
           u == Left(r)
           w == Closure(u, inner)
           v == DefineVariable(w, c.index)
           t == TakeOver(v, inner)
<1>7. RunEndFunction(s, c) = t
  BY DEF RunEndFunction, Left, Closure
<1>8. Me(s) >= 2
  BY <1>5
<1>9. /\ Nested(u, p.open, q.marks) /\ Base(u) /\ Declared(This(u)) /\ u.work = s.work
      /\ u.errors = {} /\ Me(u) = Me(s) - 1 /\ This(u) = s.compilers[Me(s) - 1]
      /\ \A k \in DOMAIN u.compilers : u.compilers[k] = s.compilers[k]
      /\ inner.function \in DOMAIN u.functions \ Chain(u.compilers)
      /\ u.functions[inner.function].upvalue_count = Len(inner.upvalues)
      /\ More(s.functions, u.functions) /\ IsProgram(u.functions) /\ IsProgram(s.functions)
  <2> DEFINE marks == q.marks
  <2>1. r = EmitReturn(s) /\ u = Left(r) /\ marks \subseteq p.marks
    BY <1>4
  <2> HIDE DEF r, u, marks
  <2>2. Returned(s, u, p.open, marks)
    BY ONLY <1>1, <1>3, <1>6, <1>8, <2>1, OuterFacts
  <2> QED
    BY <2>2 DEF Returned, marks
<1>10. Reaches(This(u), inner.upvalues) /\ inner.upvalues \in Seq(UpvalueType)
  BY <1>1, <1>8, <1>9, InnerReaches
<1> HIDE DEF u, r
<1>11. inner \in CompilerType /\ (inner.panic_mode \/ inner.had_error => v.errors # {})
  <2>1. inner \in CompilerType
    BY <1>1, BaseFacts
  <2>2. inner.panic_mode \/ inner.had_error => s.errors # {}
    BY <1>1, OwnFacts
  <2> QED
    BY <1>1, <2>1, <2>2
<1> HIDE DEF inner
<1>12. Keeps(u, w)
  BY <1>9, <1>10, ClosureKeeps
<1> HIDE DEF w
<1>13. Base(w) /\ w.work = u.work /\ v.errors = w.errors
  <2>1. Base(w) /\ w.work = u.work
    BY <1>12 DEF Keeps
  <2> QED
    BY <2>1, DefineVariableStays
<1>14. t.errors = v.errors /\ t.functions = v.functions /\ t.work = v.work
  BY DEF TakeOver
<1> SUFFICES ASSUME t.errors = {} PROVE \E x : Typed(t, x) /\ Fits(t.functions, x, t.work)
  BY <1>7 DEF Goal
<1>15. v.errors = {} /\ w.errors = {}
  BY <1>13, <1>14
<1>16. PICK bytes : MakesClosure(u, w, inner.function, bytes)
  BY <1>9, <1>10, <1>15, ClosureWrites DEF w
<1> DEFINE p1 == ClosedPlan(u, p.open, q.marks)
           p2 == With(p1, p1.open, p1.marks, 0)
<1>17. Typed(w, p1) /\ More(u.functions, w.functions)
  <2>1. This(u).scope_depth \in Nat
    BY <1>9, OwnFacts
  <2>2. This(u).scope_depth > 0 => Len(This(u).locals) >= 2
    BY <1>9 DEF Declared
  <2> QED
    BY <1>9, <1>16, <2>1, <2>2, ClosureTyping
<1>18. /\ p1.levels = Levels(u.compilers) /\ p1.open = p.open /\ p1.marks = q.marks /\ p1.temps = Above(This(u))
       /\ p2.levels = Levels(u.compilers) /\ p2.open = p.open /\ p2.marks = q.marks /\ p2.temps = 0
       /\ p2.fresh = FALSE
  BY DEF ClosedPlan, With, Plan
<1>19. Same(This(u), This(w)) /\ This(w).function = This(u).function /\ IsProgram(w.functions)
  <2>1. Writes(u, w, Function(u).code \o bytes)
    BY <1>16 DEF MakesClosure
  <2> QED
    BY <2>1, WritesFacts
<1>20. q.levels = Levels(u.compilers) /\ Top(q) = LevelOf(This(u))
  <2> DEFINE d == Levels(u.compilers)
             e == Levels(s.compilers)
  <2>1. d \in Seq(LevelType) /\ Len(d) = Me(u)
    BY <1>9, LevelsType
  <2>2. e \in Seq(LevelType) /\ Len(e) = Me(s)
    BY <1>1, LevelsType
  <2>3. p.levels = e
    BY <1>1 DEF Typed, Typing, PlanOk
  <2>4. Me(u) = Me(s) - 1 /\ Me(s) \in Nat /\ Me(u) \in Nat \ {0}
    BY <1>1, <1>9, BaseChain
  <2>5. DOMAIN u.compilers = 1 .. Me(u) /\ DOMAIN s.compilers = 1 .. Me(s) /\ This(u) = u.compilers[Me(u)]
        /\ Me(u) \in DOMAIN u.compilers
    <3>1. DOMAIN u.compilers = 1 .. Me(u) /\ This(u) = u.compilers[Me(u)] /\ Me(u) \in DOMAIN u.compilers
      BY <1>9, BaseChain
    <3>2. DOMAIN s.compilers = 1 .. Me(s)
      BY <1>1, BaseChain
    <3> QED
      BY <3>1, <3>2
  <2>6. \A k \in 1 .. Len(d) : e[k] = d[k]
    <3> SUFFICES ASSUME NEW k, k \in 1 .. Len(d) PROVE e[k] = d[k]
      OBVIOUS
    <3>1. k \in 1 .. Me(u) /\ k \in 1 .. Me(s)
      <4> DEFINE m == Me(u)
                 n == Me(s)
      <4>1. m = n - 1 /\ n \in Nat /\ m \in Nat /\ k \in 1 .. m
        BY <2>1, <2>4
      <4> HIDE DEF m, n
      <4>2. k \in 1 .. n
        BY ONLY <4>1
      <4> QED
        BY <4>1, <4>2 DEF m, n
    <3>2. k \in DOMAIN u.compilers /\ k \in DOMAIN s.compilers
      BY <2>5, <3>1
    <3>3. d[k] = LevelOf(u.compilers[k]) /\ e[k] = LevelOf(s.compilers[k])
      BY <3>2 DEF Levels
    <3> QED
      BY <1>9, <3>2, <3>3
  <2>7. d[Me(u)] = LevelOf(This(u))
    BY <2>5 DEF Levels
  <2> HIDE DEF d, e
  <2>8. Len(e) = Len(d) + 1
    BY <2>1, <2>2, <2>4
  <2>9. Front(e) = d
    BY <2>1, <2>2, <2>6, <2>8, FrontOfAppend
  <2>10. q.levels = d
    BY <1>5, <2>3, <2>9
  <2> QED
    BY <2>1, <2>7, <2>10 DEF Top, d
<1>21. Loose(p2, q)
  BY <1>4, <1>5, <1>18, <1>20 DEF Loose
<1>22. Turns(w, p1, v, p2)
  <2>1. Declared(This(w))
    BY <1>9, <1>19 DEF Same, Declared
  <2>2. This(w).scope_depth > 0 =>
          This(w).locals[Len(This(w).locals)].depth = This(w).scope_depth /\ p1.temps = 0
    <3>1. LocalsOk(This(u), FALSE)
      <4>1. Me(u) \in DOMAIN u.compilers /\ This(u) = u.compilers[Me(u)]
        BY <1>9, BaseChain
      <4> QED
        BY <1>9, <4>1 DEF Nested, Row
    <3>2. This(u).scope_depth > 0 => This(u).locals[Len(This(u).locals)].depth = This(u).scope_depth
      BY <3>1 DEF LocalsOk
    <3> QED
      BY <1>18, <1>19, <3>2 DEF Same, Above
  <2>3. This(w).scope_depth = 0 => p1.temps = 1 /\ IsString(w.functions, This(w).function, c.index)
    <3> SUFFICES ASSUME This(w).scope_depth = 0
                 PROVE  p1.temps = 1 /\ IsString(w.functions, This(w).function, c.index)
      OBVIOUS
    <3>1. This(u).scope_depth = 0
      BY <1>19 DEF Same
    <3>2. Top(q).depth = 0 /\ Top(q).fun = This(u).function
      BY <1>20, <3>1 DEF LevelOf, Level
    <3>3. IsString(s.functions, This(u).function, c.index)
      BY <1>5, <3>2
    <3>4. IsString(u.functions, This(u).function, c.index)
      BY <1>9, <3>3, IsStringGrows
    <3>5. IsString(w.functions, This(u).function, c.index)
      BY <1>9, <1>17, <1>19, <3>4, IsStringGrows
    <3> QED
      BY <1>18, <1>19, <3>1, <3>5 DEF Above
  <2> HIDE DEF p1
  <2> QED
    BY <1>2, <1>13, <2>1, <2>2, <2>3, DefineTurns
<1> HIDE DEF p1, p2, v
<1>23. Base(v) /\ v.work = w.work /\ Typed(v, p2) /\ More(w.functions, v.functions)
  BY <1>15, <1>17, <1>22 DEF Turns
<1>24. Base(t)
  BY <1>11, <1>23, TakeOverFacts
<1>25. Reads(v, t)
  <2>1. \A k \in DOMAIN v.compilers : Same(v.compilers[k], t.compilers[k])
    BY DEF TakeOver, Same
  <2>2. Len(t.compilers) = Len(v.compilers)
    <3>1. v.compilers \in Seq(CompilerType)
      BY <1>23, BaseFacts
    <3>3. t.compilers \in Seq(CompilerType)
      <4> HIDE DEF t
      <4> QED
        BY <1>24, BaseFacts
    <3>2. DOMAIN t.compilers = DOMAIN v.compilers
      BY DEF TakeOver
    <3> QED
      BY <3>1, <3>2, <3>3, LenProperties
  <2> QED
    BY <1>14, <2>1, <2>2 DEF Reads
<1>26. Typed(t, q)
  <2>1. DOMAIN v.compilers = 1 .. Len(v.compilers) /\ Len(v.compilers) \in Nat \ {0}
        /\ \A j \in DOMAIN v.compilers : v.compilers[j].function \in DOMAIN v.functions
    BY <1>23, BaseChain
  <2>2. DOMAIN t.compilers = 1 .. Len(t.compilers)
    BY <1>24, BaseChain
  <2>3. IsProgram(v.functions)
    BY <1>23, BaseProgram
  <2>4. Typing(v.functions, v.compilers, p2)
    BY <1>23 DEF Typed
  <2>5. t.functions = v.functions /\ Len(t.compilers) = Len(v.compilers)
        /\ \A k \in DOMAIN v.compilers : Same(v.compilers[k], t.compilers[k])
    BY <1>25 DEF Reads
  <2> HIDE DEF t
  <2>6. Typing(v.functions, t.compilers, q)
    BY <1>21, <2>1, <2>2, <2>3, <2>4, <2>5, SameTyping
  <2> QED
    BY <2>5, <2>6 DEF Typed
<1>27. Fits(t.functions, q, t.work)
  <2>1. IsProgram(v.functions)
    BY <1>23, BaseProgram
  <2>2. More(s.functions, w.functions)
    BY <1>9, <1>17, <1>19, MoreTransitive
  <2>3. More(s.functions, v.functions)
    BY <1>9, <1>19, <1>23, <2>1, <2>2, MoreTransitive
  <2>4. Fits(v.functions, q, s.work)
    BY <1>1, <1>9, <2>1, <2>3, FitsGrows
  <2>5. t.work = s.work
    BY <1>9, <1>13, <1>14, <1>23
  <2> QED
    BY <1>14, <2>4, <2>5
<1> QED
  BY <1>26, <1>27

-----------------------------------------------------------------------------
(* Errors are never forgotten. *)

Shaped(s) == DOMAIN s = {"compilers", "functions", "errors", "work"}

(* The state t knows of the errors that s knows of. *)
Adds(s, t) == Shaped(t) /\ s.errors \subseteq t.errors

(* One procedure after another. *)
LEMMA AddsTransitive ==
  ASSUME NEW s, NEW t, NEW u, Adds(s, t), Adds(t, u)
  PROVE  Adds(s, u)
BY DEF Adds

(* What Base says of the state's fields. *)
LEMMA BaseShaped ==
  ASSUME NEW s, Base(s)
  PROVE  Shaped(s) /\ Adds(s, s)
BY BaseFacts DEF IsState, Shaped, Adds

(* Errors are reported, *)
LEMMA ErrorAdds ==
  ASSUME NEW s, Shaped(s)
  PROVE  /\ \A k, at, msg : Adds(s, ErrorAt(s, k, at, msg))
         /\ \A msg : Adds(s, ErrorAtCurrent(s, msg)) /\ Adds(s, ErrorAtPrevious(s, msg))
<1>1. ASSUME NEW k, NEW at, NEW msg PROVE Adds(s, ErrorAt(s, k, at, msg))
  BY DEF ErrorAt, Adds, Shaped
<1> QED
  BY <1>1 DEF ErrorAtCurrent, ErrorAtPrevious

(* tokens read, *)
LEMMA ReadAdds ==
  ASSUME NEW s, Shaped(s)
  PROVE  Adds(s, s) /\ Adds(s, Advance(s)) /\ \A type : Adds(s, Consume(s, type))
<1>1. Adds(s, s)
  BY DEF Adds
<1>2. Adds(s, Advance(s))
  BY DEF Adds, Shaped, Advance
<1> QED
  BY <1>1, <1>2, ErrorAdds DEF Consume

(* code written, *)
LEMMA EmitAdds ==
  ASSUME NEW s, Shaped(s)
  PROVE  /\ \A bytes : Adds(s, EmitBytes(s, bytes))
         /\ \A op : Adds(s, Emit(s, op)) /\ Adds(s, EmitJump(s, op))
         /\ \A op, b : Adds(s, EmitWith(s, op, b))
         /\ \A ops : Adds(s, EmitAll(s, ops))
         /\ Adds(s, EmitReturn(s))
<1>1. ASSUME NEW bytes PROVE Adds(s, EmitBytes(s, bytes))
  BY DEF EmitBytes, Adds, Shaped
<1> QED
  BY <1>1 DEF Emit, EmitJump, EmitWith, EmitAll, EmitReturn

(* jumps patched and loops closed, *)
LEMMA JumpAdds ==
  ASSUME NEW s, Shaped(s)
  PROVE  /\ \A jump : Adds(s, PatchJump(s, jump))
         /\ \A start : Adds(s, EmitLoop(s, start))
<1>1. ASSUME NEW jump PROVE Adds(s, PatchJump(s, jump))
  <2> DEFINE dist == CodeSize(s) - 3 - jump
             t == IF dist > UINT16_MAX THEN ErrorAtCurrent(s, "Too much code to jump over.") ELSE s
             r == [t EXCEPT !.functions[This(s).function].code[jump + 2] = UpperByte(dist),
                            !.functions[This(s).function].code[jump + 3] = AsByte(dist)]
  <2>1. Adds(s, t)
    BY ErrorAdds DEF Adds
  <2>2. PatchJump(s, jump) = r
    BY DEF PatchJump
  <2> HIDE DEF t, dist
  <2>3. Adds(t, r)
    BY <2>1 DEF Adds, Shaped
  <2> HIDE DEF r
  <2> QED
    BY <2>1, <2>2, <2>3, AddsTransitive
<1>2. ASSUME NEW start PROVE Adds(s, EmitLoop(s, start))
  <2> DEFINE opcode == Emit(s, "OP_LOOP")
             dist == CodeSize(opcode) + 2 - start
             t == IF dist > UINT16_MAX
                  THEN ErrorAtPrevious(opcode, "Loop body too large, too much code to jump over.")
                  ELSE opcode
             r == [t EXCEPT !.functions[This(s).function].code = @ \o <<UpperByte(dist), AsByte(dist)>>]
  <2>1. EmitLoop(s, start) = r
    BY DEF EmitLoop
  <2>2. Adds(s, opcode)
    BY EmitAdds
  <2> HIDE DEF opcode, dist
  <2>3. Adds(opcode, t)
    BY <2>2, ErrorAdds DEF Adds
  <2> HIDE DEF t
  <2>4. Adds(t, r)
    BY <2>3 DEF Adds, Shaped
  <2> HIDE DEF r
  <2>5. Adds(s, t)
    BY <2>2, <2>3, AddsTransitive
  <2> QED
    BY <2>1, <2>4, <2>5, AddsTransitive
<1> QED
  BY <1>1, <1>2

(* constants added, *)
LEMMA ConstantAdds ==
  ASSUME NEW s, Shaped(s), NEW val
  PROVE  Adds(s, AddConstant(s, val)) /\ Adds(s, EmitConstant(s, val))
<1> DEFINE t == [s EXCEPT !.functions[This(s).function].constants = Append(@, val)]
           u == AddConstant(s, val)
<1>1. Adds(s, t) /\ Shaped(t)
  BY DEF Adds, Shaped
<1>2. u = IF Len(Function(s).constants) > UINT8_MAX
          THEN ErrorAtPrevious(t, "Too many constants in code chunk.") ELSE t
  BY DEF AddConstant
<1> HIDE DEF t, u
<1>3. Adds(s, u)
  BY <1>1, <1>2, ErrorAdds, AddsTransitive
<1>4. \A op, b : Adds(u, EmitWith(u, op, b))
  BY <1>3, EmitAdds DEF Adds
<1>5. \A op, b : Adds(s, EmitWith(u, op, b))
  BY <1>3, <1>4, AddsTransitive
<1> QED
  BY <1>3, <1>5 DEF EmitConstant, u

(* scopes opened and closed, variables declared and defined, *)
LEMMA ScopeAdds ==
  ASSUME NEW s, Shaped(s)
  PROVE  /\ Adds(s, DeclareVariable(s)) /\ Adds(s, MarkReady(s)) /\ Adds(s, BeginScope(s)) /\ Adds(s, EndScope(s))
         /\ \A index : Adds(s, DefineVariable(s, index))
<1>1. Adds(s, DeclareVariable(s))
  <2> DEFINE locals == This(s).locals
             depth  == This(s).scope_depth
             name   == Previous(s).lexeme
             clash  == \E i \in DOMAIN locals :
                         /\ locals[i].name = name
                         /\ \A j \in i .. Len(locals) : locals[j].depth >= depth
             t == IF clash THEN ErrorAtPrevious(s, "Variable with this name already in scope.") ELSE s
             m == Me(s)
             r == [t EXCEPT !.compilers[m].locals = Append(@, NewLocal(name, -1))]
  <2>1. DeclareVariable(s) = IF depth = 0 THEN s
                             ELSE IF Len(locals) > UINT8_MAX THEN ErrorAtPrevious(t, "Too many local variables.")
                             ELSE r
    BY DEF DeclareVariable
  <2> HIDE DEF clash, locals, depth, name
  <2>2. Adds(s, t) /\ Adds(s, s)
    BY ErrorAdds DEF Adds
  <2> HIDE DEF t, m
  <2>3. Adds(t, r)
    BY <2>2 DEF Adds, Shaped
  <2> HIDE DEF r
  <2>4. Adds(t, ErrorAtPrevious(t, "Too many local variables."))
    BY <2>2, ErrorAdds DEF Adds
  <2>5. Adds(s, r) /\ Adds(s, ErrorAtPrevious(t, "Too many local variables."))
    BY <2>2, <2>3, <2>4, AddsTransitive
  <2> QED
    BY <2>1, <2>2, <2>5
<1>2. Adds(s, MarkReady(s)) /\ Adds(s, BeginScope(s))
  BY DEF MarkReady, BeginScope, Adds, Shaped
<1>3. Adds(s, EndScope(s))
  <2> DEFINE d == This(s).scope_depth - 1
             kept == SelectLastInSeq(This(s).locals, LAMBDA l : l.depth <= d)
             gone == Reverse(SubSeq(This(s).locals, kept + 1, Len(This(s).locals)))
             m == Me(s)
             t == [s EXCEPT !.compilers[m].scope_depth = d, !.compilers[m].locals = SubSeq(@, 1, kept)]
             ops == [i \in DOMAIN gone |-> ScopeExitCode(gone[i])]
  <2>1. EndScope(s) = EmitAll(t, ops)
    BY DEF EndScope
  <2> HIDE DEF d, kept, gone, m, ops
  <2>2. Adds(s, t)
    BY DEF Adds, Shaped
  <2> HIDE DEF t
  <2>3. Adds(t, EmitAll(t, ops))
    BY <2>2, EmitAdds DEF Adds
  <2> QED
    BY <2>1, <2>2, <2>3, AddsTransitive
<1> QED
  BY <1>1, <1>2, <1>3, EmitAdds DEF DefineVariable

(* and names read. *)
LEMMA ParseAdds ==
  ASSUME NEW s, Shaped(s)
  PROVE  Adds(s, ParseVariable(s))
<1> DEFINE r == Consume(s, "IDENTIFIER")
           t == DeclareVariable(r)
<1>1. Adds(s, r)
  BY ReadAdds
<1> HIDE DEF r
<1>2. Adds(r, t)
  BY <1>1, ScopeAdds DEF Adds
<1>3. ParseVariable(s) = IF This(s).scope_depth = 0 THEN AddConstant(t, Str(Previous(t).lexeme)) ELSE t
  BY DEF ParseVariable, r
<1> HIDE DEF t
<1>4. Adds(s, t)
  BY <1>1, <1>2, AddsTransitive
<1>5. Adds(t, AddConstant(t, Str(Previous(t).lexeme)))
  BY <1>4, ConstantAdds DEF Adds
<1>6. Adds(s, AddConstant(t, Str(Previous(t).lexeme)))
  BY <1>4, <1>5, AddsTransitive
<1> QED
  BY <1>3, <1>4, <1>6

(* and calls left to be made. *)
LEMMA ThenAdds ==
  ASSUME NEW s, NEW t, Adds(s, t), NEW cs
  PROVE  Adds(s, Then(t, cs))
BY DEF Adds, Shaped, Then

(* Names resolved: upvalues are added, from the owner of the local inwards. *)
LEMMA CaptureAdds ==
  ASSUME NEW s, Shaped(s)
  PROVE  /\ \A k, name : Adds(s, ReportUnready(s, k, name))
         /\ \A k, i : Adds(s, MarkCaptured(s, k, i))
         /\ \A k, uv : Adds(s, AddUpvalue(s, k, uv))
<1>1. \A k, name : Adds(s, ReportUnready(s, k, name))
  BY ErrorAdds DEF ReportUnready, Adds
<1>2. \A k, i : Adds(s, MarkCaptured(s, k, i))
  BY DEF MarkCaptured, Adds, Shaped
<1>3. ASSUME NEW k, NEW uv PROVE Adds(s, AddUpvalue(s, k, uv))
  <2> DEFINE upvalues == s.compilers[k].upvalues
             f == s.compilers[k].function
             t == [s EXCEPT !.compilers[k].upvalues = Append(@, uv),
                            !.functions[f].upvalue_count = @ + 1]
  <2>1. AddUpvalue(s, k, uv) =
          IF Contains(upvalues, uv) THEN s
          ELSE IF Len(upvalues) > UINT8_MAX
               THEN ErrorAt(t, k, t.compilers[k].previous, "Too many closure variables in function.")
               ELSE t
    BY DEF AddUpvalue
  <2> HIDE DEF upvalues, f
  <2>2. Adds(s, t) /\ Adds(s, s)
    BY DEF Adds, Shaped
  <2> HIDE DEF t
  <2> DEFINE at == t.compilers[k].previous
             u == ErrorAt(t, k, at, "Too many closure variables in function.")
  <2>3. Adds(t, u)
    BY <2>2, ErrorAdds DEF Adds
  <2> HIDE DEF u
  <2>4. Adds(s, u)
    BY <2>2, <2>3, AddsTransitive
  <2> QED
    BY <2>1, <2>2, <2>4 DEF u
<1> QED
  BY <1>1, <1>2, <1>3

(* resolve_upvalue *)
LEMMA ResolveUpvalueAdds ==
  ASSUME NEW s, Base(s), NEW owner, owner \in DOMAIN s.compilers, NEW name
  PROVE  Adds(s, ResolveUpvalue(s, owner, name).s)
<1> DEFINE N == Me(s) - owner
<1>1. owner \in Nat /\ Me(s) \in Nat /\ N \in Nat /\ Shaped(s)
  BY BaseFacts, BaseShaped
<1>2. PICK r : /\ r[0] = CaptureLocal(s, owner, name)
               /\ \A n \in 0 .. N - 1 : r[n + 1] = CaptureUpvalue(r[n], owner + (n + 1))
               /\ ResolveUpvalue(s, owner, name) = r[N]
  BY <1>1, CaptureLoop
<1> DEFINE S == {n \in Nat : n <= N => Adds(s, r[n].s)}
<1>3. 0 \in S
  <2> DEFINE t == ReportUnready(s, owner, name)
             i == LocalIndex(s, owner, name)
  <2>1. r[0].s = MarkCaptured(t, owner, i)
    BY <1>2 DEF CaptureLocal
  <2>2. Adds(s, t)
    BY <1>1, CaptureAdds
  <2> HIDE DEF t, i
  <2>3. Adds(t, MarkCaptured(t, owner, i))
    BY <2>2, CaptureAdds DEF Adds
  <2>4. Adds(s, r[0].s)
    BY <2>1, <2>2, <2>3, AddsTransitive
  <2> QED
    BY <2>4
<1>4. ASSUME NEW n \in Nat, n \in S PROVE n + 1 \in S
  <2> SUFFICES ASSUME n + 1 <= N PROVE Adds(s, r[n + 1].s)
    OBVIOUS
  <2>1. n \in 0 .. N - 1
    BY <1>1
  <2>2. Adds(s, r[n].s)
    BY <1>1, <1>4
  <2>3. r[n + 1] = CaptureUpvalue(r[n], owner + (n + 1))
    BY <1>2, <2>1
  <2> DEFINE q == r[n]
             k == owner + (n + 1)
             t == q.s
             uv == q.uv
  <2>4. r[n + 1].s = AddUpvalue(t, k, uv) /\ Adds(s, t)
    BY <2>2, <2>3 DEF CaptureUpvalue
  <2> HIDE DEF t, k, q, uv
  <2>5. Adds(t, AddUpvalue(t, k, uv))
    BY <2>4, CaptureAdds DEF Adds
  <2> QED
    BY <2>4, <2>5, AddsTransitive
<1>5. Nat \subseteq S
  <2> HIDE DEF S
  <2> QED
    BY <1>3, <1>4, Induction
<1>6. Adds(s, r[N].s)
  BY <1>1, <1>5
<1> QED
  BY <1>2, <1>6

(* named_variable, up to the choice between reading and assigning *)
LEMMA ResolveAdds ==
  ASSUME NEW s, Base(s), NEW name
  PROVE  Adds(s, Resolve(s, name).s)
<1> DEFINE owner == Owner(s, name)
           r == Resolve(s, name)
<1>1. /\ owner \in 0 .. Me(s)
      /\ owner # 0 => owner \in DOMAIN s.compilers /\ LocalIndex(s, owner, name) >= 0
  BY OwnerFacts
<1>2. Me(s) # 0 /\ Me(s) \in Nat /\ Shaped(s)
  BY BaseFacts, BaseShaped
<1>3. CASE owner = Me(s)
  <2>1. r = [s |-> ReportUnready(s, owner, name), index |-> AsByte(LocalIndex(s, owner, name)),
              get |-> "OP_GET_LOCAL", set |-> "OP_SET_LOCAL"]
    BY <1>2, <1>3 DEF Resolve
  <2> HIDE DEF owner
  <2>2. Adds(s, ReportUnready(s, owner, name))
    BY <1>2, CaptureAdds
  <2> HIDE DEF r
  <2> QED
    BY <2>1, <2>2 DEF r
<1>4. CASE owner = 0
  <2>1. r = [s |-> AddConstant(s, Str(name)), index |-> ConstantIndex(s),
             get |-> "OP_GET_GLOBAL", set |-> "OP_SET_GLOBAL"]
    BY <1>2, <1>4 DEF Resolve
  <2>2. Adds(s, AddConstant(s, Str(name)))
    BY <1>2, ConstantAdds
  <2> HIDE DEF r
  <2> QED
    BY <2>1, <2>2 DEF r
<1>5. CASE owner # Me(s) /\ owner # 0
  <2> DEFINE q == ResolveUpvalue(s, owner, name)
  <2>1. r = [s |-> q.s, index |-> q.uv.index, get |-> "OP_GET_UPVALUE", set |-> "OP_SET_UPVALUE"]
    BY <1>5 DEF Resolve
  <2> HIDE DEF owner
  <2>2. Adds(s, q.s)
    BY <1>1, <1>5, ResolveUpvalueAdds
  <2> HIDE DEF q, r
  <2> QED
    BY <2>1, <2>2 DEF r
<1> QED
  BY <1>3, <1>4, <1>5

(* The value of a name, or the assignment to it. *)
LEMMA NamedVariableAdds ==
  ASSUME NEW s, Base(s), NEW may_assign
  PROVE  Adds(s, NamedVariable(s, may_assign))
<1> DEFINE r == Resolve(s, Previous(s).lexeme)
           calls == <<Expression, EmittingWith(r.set, r.index)>>
<1>1. NamedVariable(s, may_assign) =
        IF may_assign /\ Check(r.s, "EQUAL") THEN Then(Advance(r.s), calls) ELSE EmitWith(r.s, r.get, r.index)
  BY DEF NamedVariable
<1>2. Adds(s, r.s)
  BY ResolveAdds
<1> HIDE DEF r, calls
<1>3. Adds(r.s, Advance(r.s)) /\ Adds(r.s, EmitWith(r.s, r.get, r.index))
  BY <1>2, ReadAdds, EmitAdds DEF Adds
<1>4. Adds(s, Advance(r.s)) /\ Adds(s, EmitWith(r.s, r.get, r.index))
  BY <1>2, <1>3, AddsTransitive
<1>5. Adds(s, Then(Advance(r.s), calls))
  BY <1>4, ThenAdds
<1> QED
  BY <1>1, <1>4, <1>5

(* Two procedures one after the other, whatever the second is. *)
LEMMA AddsAfter ==
  ASSUME NEW s, NEW t, Adds(s, t), NEW u, Shaped(t) => Adds(t, u)
  PROVE  Adds(s, u) /\ \A cs : Adds(s, Then(u, cs))
<1>1. Adds(s, u)
  BY DEF Adds
<1> QED
  BY <1>1, ThenAdds

(* The calls that only leave calls to be made, or that read a token first. *)
LEMMA PlainCallsAdd ==
  ASSUME NEW s, Shaped(s), NEW c
  PROVE  /\ Adds(s, RunConsume(s, c)) /\ Adds(s, RunEmit(s, c)) /\ Adds(s, RunPatchJump(s, c))
         /\ Adds(s, RunEndScope(s, c)) /\ Adds(s, RunDefineVariable(s, c)) /\ Adds(s, RunEndCompiler(s, c))
         /\ Adds(s, RunExpressionStatement(s, c)) /\ Adds(s, RunBlock(s, c)) /\ Adds(s, RunForCondition(s, c))
         /\ Adds(s, RunArgument(s, c)) /\ Adds(s, RunNextArgument(s, c)) /\ Adds(s, RunDeclaration(s, c))
<1>1. Adds(s, s) /\ Adds(s, Advance(s)) /\ \A type : Adds(s, Consume(s, type))
  BY ReadAdds
<1>2. \A cs : Adds(s, Then(s, cs)) /\ Adds(s, Then(Advance(s), cs))
  BY <1>1, ThenAdds
<1>3. Adds(s, RunConsume(s, c)) /\ Adds(s, RunEmit(s, c)) /\ Adds(s, RunPatchJump(s, c))
  BY <1>1, EmitAdds, JumpAdds DEF RunConsume, RunEmit, RunPatchJump
<1>4. Adds(s, RunEndScope(s, c)) /\ Adds(s, RunDefineVariable(s, c)) /\ Adds(s, RunEndCompiler(s, c))
  BY ScopeAdds, EmitAdds DEF RunEndScope, RunDefineVariable, RunEndCompiler
<1>5. Adds(s, RunExpressionStatement(s, c)) /\ Adds(s, RunForCondition(s, c))
  BY <1>2 DEF RunExpressionStatement, RunForCondition
<1>6. Adds(s, RunBlock(s, c))
  BY <1>1, <1>2 DEF RunBlock
<1>7. Adds(s, RunNextArgument(s, c))
  BY <1>2 DEF RunNextArgument
<1>8. Adds(s, RunArgument(s, c))
  BY <1>2, ErrorAdds DEF RunArgument
<1>9. Adds(s, RunDeclaration(s, c))
  <2> DEFINE sync == [do |-> "synchronize", from |-> This(s).current]
  <2>1. \/ RunDeclaration(s, c) = Then(Advance(s), <<Call("var_declaration"), sync>>)
        \/ RunDeclaration(s, c) = Then(Advance(s), <<Call("function_declaration"), sync>>)
        \/ RunDeclaration(s, c) = Then(s, <<Call("statement"), sync>>)
    BY DEF RunDeclaration
  <2> HIDE DEF sync
  <2> QED
    BY <1>2, <2>1
<1> QED
  BY <1>3, <1>4, <1>5, <1>6, <1>7, <1>8, <1>9

(* compile *)
LEMMA CompileAdds ==
  ASSUME NEW s, Shaped(s), NEW c
  PROVE  Adds(s, RunCompile(s, c))
<1> DEFINE more == This(s).current <= Len(tokens)
           t == IF more THEN Advance(s) ELSE s
           u == IF Previous(t).type = "LOX_EOF" THEN t ELSE ErrorAtPrevious(t, "Expected end of file.")
           one == <<Call("declaration"), Call("compile")>>
           two == <<Call("end_compiler")>>
<1>1. RunCompile(s, c) = IF more /\ ~Check(s, "LOX_EOF") THEN Then(s, one) ELSE Then(u, two)
  BY DEF RunCompile
<1> HIDE DEF one, two, more
<1>2. Adds(s, t) /\ Adds(s, s)
  BY ReadAdds
<1> HIDE DEF t
<1>3. Shaped(t) => Adds(t, u)
  BY ErrorAdds DEF Adds
<1> HIDE DEF u
<1>4. Adds(s, Then(u, two)) /\ Adds(s, Then(s, one))
  BY <1>2, <1>3, AddsAfter, ThenAdds
<1> QED
  BY <1>1, <1>4

(* synchronize and the bodies of functions *)
LEMMA BodyCallsAdd ==
  ASSUME NEW s, Shaped(s), NEW c
  PROVE  Adds(s, RunSynchronize(s, c)) /\ Adds(s, RunFunctionBody(s, c))
<1>1. Adds(s, RunSynchronize(s, c))
  BY DEF RunSynchronize, Synchronize, Adds, Shaped
<1>2. Adds(s, RunFunctionBody(s, c))
  <2> DEFINE t == Consume(s, "RIGHT_PAREN")
             u == Consume(t, "LEFT_BRACE")
             cs == <<Call("block")>>
  <2>1. RunFunctionBody(s, c) = Then(u, cs)
    BY DEF RunFunctionBody
  <2>2. Adds(s, t)
    BY ReadAdds
  <2> HIDE DEF t, cs
  <2>3. Shaped(t) => Adds(t, u)
    BY ReadAdds
  <2> HIDE DEF u
  <2> QED
    BY <2>1, <2>2, <2>3, AddsAfter
<1> QED
  BY <1>1, <1>2

(* var_declaration *)
LEMMA VarDeclarationAdds ==
  ASSUME NEW s, Shaped(s), NEW c
  PROVE  Adds(s, RunVarDeclaration(s, c))
<1> DEFINE t == ParseVariable(s)
           end == <<Expect("SEMICOLON"), [do |-> "define_variable", index |-> VariableIndex(s)]>>
           all == <<Expression>> \o end
<1>1. RunVarDeclaration(s, c) = IF Check(t, "EQUAL") THEN Then(Advance(t), all) ELSE Then(Emit(t, "OP_NIL"), end)
  BY DEF RunVarDeclaration
<1>2. Adds(s, t)
  BY ParseAdds
<1> HIDE DEF t, end, all
<1>3. Shaped(t) => Adds(t, Advance(t)) /\ Adds(t, Emit(t, "OP_NIL"))
  BY ReadAdds, EmitAdds
<1>4. Adds(s, Then(Advance(t), all))
  BY <1>2, <1>3, AddsAfter
<1>5. Adds(s, Then(Emit(t, "OP_NIL"), end))
  BY <1>2, <1>3, AddsAfter
<1> QED
  BY <1>1, <1>4, <1>5

(* function_declaration *)
LEMMA FunctionDeclarationAdds ==
  ASSUME NEW s, Shaped(s), NEW c
  PROVE  Adds(s, RunFunctionDeclaration(s, c))
<1> DEFINE named == ParseVariable(s)
           ready == IF This(s).scope_depth > 0 THEN MarkReady(named) ELSE named
           at    == This(ready).current
           inner == NewCompiler(Len(s.functions) + 1, at, at - 1)
           fun   == NewFunction(tokens[at - 1].lexeme)
           host  == [ready EXCEPT !.functions = Append(@, fun), !.compilers = Append(@, inner)]
           begun == BeginScope(host)
           open  == Consume(begun, "LEFT_PAREN")
           cs    == <<IF Check(open, "RIGHT_PAREN") THEN Call("function_body") ELSE Call("parameter"),
                      [do |-> "end_function", index |-> VariableIndex(s)]>>
<1>1. RunFunctionDeclaration(s, c) = Then(open, cs)
  BY DEF RunFunctionDeclaration
<1>2. Adds(s, named)
  BY ParseAdds
<1> HIDE DEF named, cs
<1>3. Adds(s, ready)
  <2>1. Adds(named, MarkReady(named))
    BY <1>2, ScopeAdds DEF Adds
  <2> QED
    BY <1>2, <2>1, AddsTransitive
<1> HIDE DEF ready, inner, fun
<1>4. Adds(s, host)
  <2>1. Adds(ready, host)
    BY <1>3 DEF Adds, Shaped
  <2> HIDE DEF host
  <2> QED
    BY <1>3, <2>1, AddsTransitive
<1> HIDE DEF host
<1>5. Shaped(host) => Adds(host, begun)
  BY ScopeAdds
<1> HIDE DEF begun
<1>6. Adds(s, begun)
  BY <1>4, <1>5, AddsAfter
<1>7. Shaped(begun) => Adds(begun, open)
  BY ReadAdds
<1> HIDE DEF open
<1>8. Adds(s, Then(open, cs))
  BY <1>6, <1>7, AddsAfter
<1> QED
  BY <1>1, <1>8

(* parameter *)
LEMMA ParameterAdds ==
  ASSUME NEW s, Shaped(s), NEW c
  PROVE  Adds(s, RunParameter(s, c))
<1> DEFINE f == This(s).function
           counted == [s EXCEPT !.functions[f].arity = @ + 1]
           named == ParseVariable(counted)
           t == DefineVariable(named, 0)
           one == <<Call("parameter")>>
           two == <<Call("function_body")>>
<1>1. RunParameter(s, c) = IF Function(s).arity >= UINT8_MAX
                           THEN ErrorAtCurrent(s, "Functions accept at most 255 parameters.")
                           ELSE IF Check(t, "COMMA") THEN Then(Advance(t), one) ELSE Then(t, two)
  BY DEF RunParameter
<1> HIDE DEF f, one, two
<1>2. Adds(s, counted)
  BY DEF Adds, Shaped
<1> HIDE DEF counted
<1>3. Shaped(counted) => Adds(counted, named)
  BY ParseAdds
<1> HIDE DEF named
<1>4. Adds(s, named)
  BY <1>2, <1>3, AddsAfter
<1>5. Shaped(named) => Adds(named, t)
  BY ScopeAdds
<1> HIDE DEF t
<1>6. Adds(s, t) /\ Adds(s, Then(t, two))
  BY <1>4, <1>5, AddsAfter
<1>7. Shaped(t) => Adds(t, Advance(t))
  BY ReadAdds
<1>8. Adds(s, Then(Advance(t), one))
  BY <1>6, <1>7, AddsAfter
<1> QED
  BY <1>1, <1>6, <1>8, ErrorAdds

(* end_function *)
LEMMA EndFunctionAdds ==
  ASSUME NEW s, Shaped(s), NEW c
  PROVE  Adds(s, RunEndFunction(s, c))
<1> DEFINE inner == This(s)
           r == EmitReturn(s)
           u == Left(r)
           val == Fun(inner.function)
           added == AddConstant(u, val)
           bytes == <<Code["OP_CLOSURE"], ConstantIndex(u)>> \o CaptureBytes(inner.upvalues)
           w == EmitBytes(added, bytes)
           v == DefineVariable(w, c.index)
           t == TakeOver(v, inner)
<1>1. RunEndFunction(s, c) = t
  BY DEF RunEndFunction, Left
<1> HIDE DEF inner, bytes, val
<1>2. Adds(s, r)
  BY EmitAdds
<1> HIDE DEF r
<1>3. Shaped(r) => Adds(r, u)
  BY DEF Left, Adds, Shaped
<1> HIDE DEF u
<1>4. Adds(s, u)
  BY <1>2, <1>3, AddsAfter
<1>5. Shaped(u) => Adds(u, added)
  BY ConstantAdds
<1> HIDE DEF added
<1>6. Adds(s, added)
  BY <1>4, <1>5, AddsAfter
<1>7. Shaped(added) => Adds(added, w)
  BY EmitAdds
<1> HIDE DEF w
<1>8. Adds(s, w)
  BY <1>6, <1>7, AddsAfter
<1>9. Shaped(w) => Adds(w, v)
  BY ScopeAdds
<1> HIDE DEF v
<1>10. Adds(s, v)
  BY <1>8, <1>9, AddsAfter
<1>11. Shaped(v) => Adds(v, t)
  BY DEF TakeOver, Adds, Shaped
<1> HIDE DEF t
<1> QED
  BY <1>1, <1>10, <1>11, AddsAfter

(* statement *)
LEMMA StatementAdds ==
  ASSUME NEW s, Shaped(s), NEW c
  PROVE  Adds(s, RunStatement(s, c))
<1> DEFINE t == Advance(s)
<1>1. \E cs : RunStatement(s, c) \in {Then(t, cs), Then(BeginScope(t), cs), Then(s, cs)}
  BY DEF RunStatement
<1>2. Adds(s, t) /\ Adds(s, s)
  BY ReadAdds
<1> HIDE DEF t
<1>3. Shaped(t) => Adds(t, BeginScope(t))
  BY ScopeAdds
<1>4. Adds(s, BeginScope(t))
  BY <1>2, <1>3, AddsAfter
<1>5. \A cs : Adds(s, Then(t, cs)) /\ Adds(s, Then(BeginScope(t), cs)) /\ Adds(s, Then(s, cs))
  BY <1>2, <1>4, ThenAdds
<1> QED
  BY <1>1, <1>5

(* A jump that is emitted in front of a pop. *)
LEMMA JumpPopAdds ==
  ASSUME NEW s, Shaped(s), NEW cs, NEW op
  PROVE  Adds(s, Then(Emit(EmitJump(s, op), "OP_POP"), cs))
<1> DEFINE t == EmitJump(s, op)
           u == Emit(t, "OP_POP")
<1>1. Adds(s, t)
  BY EmitAdds
<1> HIDE DEF t
<1>2. Shaped(t) => Adds(t, u)
  BY EmitAdds
<1> HIDE DEF u
<1>3. Adds(s, Then(u, cs))
  BY <1>1, <1>2, AddsAfter
<1> QED
  BY <1>3 DEF t, u

(* if_then, while_body and for_exit *)
LEMMA ConditionsAdd ==
  ASSUME NEW s, Shaped(s), NEW c
  PROVE  Adds(s, RunIfThen(s, c)) /\ Adds(s, RunWhileBody(s, c)) /\ Adds(s, RunForExit(s, c))
BY JumpPopAdds DEF RunIfThen, RunWhileBody, RunForExit

(* A jump is patched, and the value that decided it popped. *)
LEMMA PatchPopAdds ==
  ASSUME NEW s, Shaped(s), NEW jump
  PROVE  Adds(s, Emit(PatchJump(s, jump), "OP_POP"))
<1> DEFINE t == PatchJump(s, jump)
           u == Emit(t, "OP_POP")
<1>1. Adds(s, t)
  BY JumpAdds
<1> HIDE DEF t
<1>2. Shaped(t) => Adds(t, u)
  BY EmitAdds
<1> HIDE DEF u
<1>3. Adds(s, u)
  BY <1>1, <1>2, AddsAfter
<1> QED
  BY <1>3 DEF t, u

(* if_else *)
LEMMA IfElseAdds ==
  ASSUME NEW s, Shaped(s), NEW c
  PROVE  Adds(s, RunIfElse(s, c))
<1> DEFINE j == EmitJump(s, "OP_JUMP")
           t == Emit(PatchJump(j, c.jump), "OP_POP")
           one == <<Call("statement"), Patching(JumpAddress(s))>>
           two == <<Patching(JumpAddress(s))>>
<1>1. RunIfElse(s, c) = IF Check(t, "ELSE") THEN Then(Advance(t), one) ELSE Then(t, two)
  BY DEF RunIfElse
<1> HIDE DEF one, two
<1>2. Adds(s, j)
  BY EmitAdds
<1> HIDE DEF j
<1>3. Shaped(j) => Adds(j, t)
  BY PatchPopAdds
<1> HIDE DEF t
<1>4. Adds(s, t) /\ Adds(s, Then(t, two))
  BY <1>2, <1>3, AddsAfter
<1>5. Shaped(t) => Adds(t, Advance(t))
  BY ReadAdds
<1>6. Adds(s, Then(Advance(t), one))
  BY <1>4, <1>5, AddsAfter
<1> QED
  BY <1>1, <1>4, <1>6

(* end_loop *)
LEMMA EndLoopAdds ==
  ASSUME NEW s, Shaped(s), NEW c
  PROVE  Adds(s, RunEndLoop(s, c))
<1> DEFINE t == EmitLoop(s, c.start)
           u == Emit(PatchJump(t, c.exit[1]), "OP_POP")
<1>1. RunEndLoop(s, c) = IF c.exit = <<>> THEN t ELSE u
  BY DEF RunEndLoop
<1>2. Adds(s, t)
  BY JumpAdds
<1> HIDE DEF t
<1>3. Shaped(t) => Adds(t, u)
  BY PatchPopAdds
<1> HIDE DEF u
<1>4. Adds(s, u)
  BY <1>2, <1>3, AddsAfter
<1> QED
  BY <1>1, <1>2, <1>4

(* for_statement *)
LEMMA ForStatementAdds ==
  ASSUME NEW s, Shaped(s), NEW c
  PROVE  Adds(s, RunForStatement(s, c))
<1> DEFINE b == BeginScope(s)
           t == Consume(b, "LEFT_PAREN")
<1>1. \E cs : RunForStatement(s, c) \in {Then(Advance(t), cs), Then(t, cs)}
  BY DEF RunForStatement
<1>2. Adds(s, b)
  BY ScopeAdds
<1> HIDE DEF b
<1>3. Shaped(b) => Adds(b, t)
  BY ReadAdds
<1> HIDE DEF t
<1>4. Adds(s, t) /\ \A cs : Adds(s, Then(t, cs))
  BY <1>2, <1>3, AddsAfter
<1>5. Shaped(t) => Adds(t, Advance(t))
  BY ReadAdds
<1>6. \A cs : Adds(s, Then(Advance(t), cs))
  BY <1>4, <1>5, AddsAfter
<1> QED
  BY <1>1, <1>4, <1>6

(* for_increment, for_resume and for_body *)
LEMMA ForPartsAdd ==
  ASSUME NEW s, Shaped(s), NEW c
  PROVE  Adds(s, RunForIncrement(s, c)) /\ Adds(s, RunForResume(s, c)) /\ Adds(s, RunForBody(s, c))
<1>1. Adds(s, RunForIncrement(s, c))
  <2> DEFINE t == Consume(s, "SEMICOLON")
             u == EmitJump(t, "OP_JUMP")
  <2>1. \E cs : RunForIncrement(s, c) \in {Then(t, cs), Then(u, cs)}
    BY DEF RunForIncrement
  <2>2. Adds(s, t)
    BY ReadAdds
  <2> HIDE DEF t
  <2>3. Shaped(t) => Adds(t, u)
    BY EmitAdds
  <2> HIDE DEF u
  <2>4. \A cs : Adds(s, Then(t, cs)) /\ Adds(s, Then(u, cs))
    BY <2>2, <2>3, AddsAfter, ThenAdds
  <2> QED
    BY <2>1, <2>4
<1>2. Adds(s, RunForResume(s, c))
  <2> DEFINE t == EmitLoop(s, c.start)
             u == PatchJump(t, c.jump)
  <2>1. \E cs : RunForResume(s, c) = Then(u, cs)
    BY DEF RunForResume
  <2>2. Adds(s, t)
    BY JumpAdds
  <2> HIDE DEF t
  <2>3. Shaped(t) => Adds(t, u)
    BY JumpAdds
  <2> HIDE DEF u
  <2>4. \A cs : Adds(s, Then(u, cs))
    BY <2>2, <2>3, AddsAfter
  <2> QED
    BY <2>1, <2>4
<1>3. Adds(s, RunForBody(s, c))
  <2>1. \E cs : RunForBody(s, c) = Then(Consume(s, "RIGHT_PAREN"), cs)
    BY DEF RunForBody
  <2> QED
    BY <2>1, ReadAdds, ThenAdds
<1> QED
  BY <1>1, <1>2, <1>3

(* return_statement *)
LEMMA ReturnStatementAdds ==
  ASSUME NEW s, Shaped(s), NEW c
  PROVE  Adds(s, RunReturnStatement(s, c))
<1> DEFINE t == IF Function(s).name = "script"
                THEN ErrorAtPrevious(s, "Cannot return from top-level code.") ELSE s
           a == Advance(t)
           r == EmitReturn(a)
<1>1. r = RunReturnStatement(s, c) \/ \E cs : RunReturnStatement(s, c) = Then(t, cs)
  BY DEF RunReturnStatement
<1>2. Adds(s, t)
  BY ErrorAdds, ReadAdds
<1> HIDE DEF t
<1>3. Shaped(t) => Adds(t, a)
  BY ReadAdds
<1> HIDE DEF a
<1>4. Adds(s, a)
  BY <1>2, <1>3, AddsAfter
<1>5. Shaped(a) => Adds(a, r)
  BY EmitAdds
<1> HIDE DEF r
<1>6. Adds(s, r)
  BY <1>4, <1>5, AddsAfter
<1> QED
  BY <1>1, <1>2, <1>6, ThenAdds

(* end_call *)
LEMMA EndCallAdds ==
  ASSUME NEW s, Shaped(s), NEW c
  PROVE  Adds(s, RunEndCall(s, c))
<1> DEFINE t == Consume(s, "RIGHT_PAREN")
           u == EmitWith(t, "OP_CALL", c.count)
<1>1. RunEndCall(s, c) = u
  BY DEF RunEndCall
<1>2. Adds(s, t)
  BY ReadAdds
<1> HIDE DEF t
<1>3. Shaped(t) => Adds(t, u)
  BY EmitAdds
<1> HIDE DEF u
<1> QED
  BY <1>1, <1>2, <1>3, AddsAfter

(* A token is read, and the call that goes on waits. *)
LEMMA WaitingAdds ==
  ASSUME NEW s, Base(s), NEW c, c \in CallType
  PROVE  Adds(s, Then(Advance(s), <<c>>)) /\ Base(Then(Advance(s), <<c>>)) /\ Adds(s, Advance(s))
<1> DEFINE t == Advance(s)
           cs == <<c>>
<1>1. Base(t)
  BY AdvanceBase
<1>2. Adds(s, t)
  BY ReadAdds, BaseShaped
<1> HIDE DEF t
<1>3. cs \in Seq(CallType)
  OBVIOUS
<1> HIDE DEF cs
<1>4. Adds(s, Then(t, cs)) /\ Base(Then(t, cs))
  BY <1>1, <1>2, <1>3, ThenAdds, ThenFacts
<1> QED
  BY <1>2, <1>4 DEF t, cs

(* The prefix functions, for the tokens that have one *)
LEMMA PrefixAdds ==
  ASSUME NEW v, Base(v), NEW t, t.type \in Prefix, NEW may
  PROVE  Adds(v, PrefixExpression(v, t, may))
<1>1. Shaped(v) /\ Adds(v, v)
  BY BaseShaped
<1>2. \A cs : Adds(v, Then(v, cs))
  BY <1>1, ThenAdds
<1>3. Adds(v, NamedVariable(v, may))
  BY NamedVariableAdds
<1>4. \A val : Adds(v, EmitConstant(v, val))
  BY <1>1, ConstantAdds
<1>5. \A op : Adds(v, Emit(v, op))
  BY <1>1, EmitAdds
<1>6. \/ \E cs : PrefixExpression(v, t, may) = Then(v, cs)
      \/ \E val : PrefixExpression(v, t, may) = EmitConstant(v, val)
      \/ \E op : PrefixExpression(v, t, may) = Emit(v, op)
      \/ PrefixExpression(v, t, may) = NamedVariable(v, may)
  BY DEF PrefixExpression, Prefix, UnaryCode, LiteralCode
<1> QED
  BY <1>2, <1>3, <1>4, <1>5, <1>6

(* parse_precedence *)
LEMMA ParsePrecedenceAdds ==
  ASSUME NEW s, Base(s), NEW c, c \in CallType, c.do = "parse_precedence"
  PROVE  Adds(s, RunParsePrecedence(s, c))
<1> DEFINE k == [c EXCEPT !.do = "infix"]
           v == Then(Advance(s), <<k>>)
           may == c.precedence <= ASSIGNMENT
           u == PrefixExpression(v, Current(s), may)
<1>1. RunParsePrecedence(s, c) = IF Current(s).type \notin Prefix THEN ErrorAtCurrent(s, "Expected expression.") ELSE u
  BY DEF RunParsePrecedence
<1>2. k \in CallType
  <2>1. c \in [do : {"parse_precedence", "infix"}, precedence : ASSIGNMENT .. CALL + 1]
    BY ShapeFacts
  <2>2. k \in ExpressionCall
    BY <2>1 DEF ExpressionCall
  <2> QED
    BY <2>2, CallKinds
<1> HIDE DEF k, may
<1>3. Adds(s, v) /\ Base(v)
  BY <1>2, WaitingAdds
<1> HIDE DEF v
<1>4. ASSUME Current(s).type \in Prefix PROVE Adds(s, u)
  <2>1. Adds(v, u)
    BY <1>3, <1>4, PrefixAdds
  <2> HIDE DEF u
  <2> QED
    BY <1>3, <2>1, AddsTransitive
<1>5. Adds(s, ErrorAtCurrent(s, "Expected expression."))
  BY BaseShaped, ErrorAdds
<1> QED
  BY <1>1, <1>4, <1>5

(* The infix functions, for the tokens that have one *)
LEMMA InfixAdds ==
  ASSUME NEW v, Shaped(v), NEW t, t.type \in DOMAIN BinaryCode \cup {"AND", "OR", "LEFT_PAREN"}
  PROVE  Adds(v, InfixExpression(v, t))
<1> DEFINE to_rhs == EmitJump(v, "OP_JUMP_IF_FALSE")
           over_rhs == EmitJump(to_rhs, "OP_JUMP")
           u == Emit(PatchJump(over_rhs, JumpAddress(v)), "OP_POP")
<1>1. \/ \E cs : InfixExpression(v, t) = Then(v, cs)
      \/ \E cs : InfixExpression(v, t) = Then(Emit(EmitJump(v, "OP_JUMP_IF_FALSE"), "OP_POP"), cs)
      \/ \E cs : InfixExpression(v, t) = Then(u, cs)
  BY DEF InfixExpression, BinaryCode
<1>2. Adds(v, to_rhs)
  BY EmitAdds
<1> HIDE DEF to_rhs
<1>3. Shaped(to_rhs) => Adds(to_rhs, over_rhs)
  BY EmitAdds
<1> HIDE DEF over_rhs
<1>4. Adds(v, over_rhs)
  BY <1>2, <1>3, AddsAfter
<1>5. Shaped(over_rhs) => Adds(over_rhs, u)
  BY PatchPopAdds
<1> HIDE DEF u
<1>6. \A cs : Adds(v, Then(u, cs))
  BY <1>4, <1>5, AddsAfter
<1>7. \A cs : Adds(v, Then(v, cs))
  BY ReadAdds, ThenAdds
<1>8. \A cs : Adds(v, Then(Emit(EmitJump(v, "OP_JUMP_IF_FALSE"), "OP_POP"), cs))
  BY JumpPopAdds
<1> QED
  BY <1>1, <1>6, <1>7, <1>8

(* infix *)
LEMMA RunInfixAdds ==
  ASSUME TokensOk, NEW s, Base(s), InText(s), NEW c, c \in CallType, c.do = "infix"
  PROVE  Adds(s, RunInfix(s, c))
<1>1. c \in [do : {"parse_precedence", "infix"}, precedence : ASSIGNMENT .. CALL + 1]
  BY ShapeFacts
<1>2. Current(s).type \in TokenType
  BY TokenFacts
<1> DEFINE v == Then(Advance(s), <<c>>)
           binds == c.precedence <= InfixPrecedence[Current(s).type]
           invalid == c.precedence <= ASSIGNMENT /\ Check(s, "EQUAL")
<1>3. RunInfix(s, c) = IF binds THEN InfixExpression(v, Current(s))
                       ELSE IF invalid THEN ErrorAtPrevious(Advance(s), "Invalid assignment target.") ELSE s
  BY DEF RunInfix
<1>4. ASSUME binds PROVE Adds(s, InfixExpression(v, Current(s)))
  <2>1. InfixPrecedence[Current(s).type] # NONE
    BY <1>1, <1>4, PrecedenceFacts
  <2>2. DOMAIN BinaryCode = {"BANG_EQUAL", "EQUAL_EQUAL", "GREATER", "LESS", "GREATER_EQUAL", "LESS_EQUAL",
                             "STAR", "SLASH", "PLUS", "MINUS"}
    BY DEF BinaryCode
  <2>3. Current(s).type \in DOMAIN BinaryCode \cup {"AND", "OR", "LEFT_PAREN"}
    BY <1>2, <2>1, <2>2 DEF InfixPrecedence, NONE
  <2>4. Adds(s, v) /\ Base(v)
    BY WaitingAdds
  <2>5. Shaped(v)
    BY <2>4, BaseShaped
  <2> HIDE DEF v
  <2> DEFINE u == InfixExpression(v, Current(s))
  <2>6. Adds(v, u)
    BY <2>3, <2>5, InfixAdds
  <2> HIDE DEF u
  <2>7. Adds(s, u)
    BY <2>4, <2>6, AddsTransitive
  <2> QED
    BY <2>7 DEF u
<1>5. Adds(s, s) /\ Adds(s, Advance(s)) /\ Shaped(Advance(s))
  BY BaseShaped, ReadAdds DEF Adds
<1>6. Adds(s, ErrorAtPrevious(Advance(s), "Invalid assignment target."))
  <2> DEFINE t == Advance(s)
             u == ErrorAtPrevious(t, "Invalid assignment target.")
  <2>1. Adds(s, t) /\ Shaped(t)
    BY <1>5
  <2> HIDE DEF t
  <2>2. Adds(t, u)
    BY <2>1, ErrorAdds
  <2> HIDE DEF u
  <2>3. Adds(s, u)
    BY <2>1, <2>2, AddsTransitive
  <2> QED
    BY <2>3 DEF u, t
<1> HIDE DEF v, binds, invalid
<1> QED
  BY <1>3, <1>4, <1>5, <1>6

-----------------------------------------------------------------------------
(* The outermost level *)

(* A call that is the last one. *)
LEMMA FitsAlone ==
  ASSUME NEW fs, NEW p, Final(p), NEW c, c.do \in {"compile", "end_compiler"}
  PROVE  Fits(fs, p, <<c>>)
<1> DEFINE w == <<c>>
           plan == <<p>>
<1>1. w # <<>> /\ plan[1] = p /\ Len(w) = 1 /\ w[1] = c
  OBVIOUS
<1> HIDE DEF w, plan
<1>2. \A i \in 1 .. Len(w) - 1 : Goes(fs, plan[i], w[i], plan[i + 1])
  BY <1>1
<1>3. Fits(fs, p, w)
  BY <1>1, <1>2 DEF Fits
<1> QED
  BY <1>3 DEF w

(* The calls of the outermost level. *)
CompileCalls == {"compile", "end_compiler"}

(* What the loop of compile() and its end find. *)
StandsLast(s, c, p) == Ready(s, c) /\ c.do \in CompileCalls /\ s.errors = {} /\ Typed(s, p) /\ Final(p)

(* What is known of the state then. *)
LEMMA LastFacts ==
  ASSUME NEW s, NEW c, NEW p, StandsLast(s, c, p)
  PROVE  /\ Base(s) /\ s.work = <<>> /\ Settled(s) /\ s.errors = {} /\ Typed(s, p) /\ Final(p)
         /\ c \in CallType /\ (c.do # "end_compiler" => InText(s))
<1>1. Ready(s, c) /\ c.do \in CompileCalls /\ s.errors = {} /\ Typed(s, p) /\ Final(p)
  BY DEF StandsLast
<1>2. Base(s) /\ c \in CallType /\ (c.do # "end_compiler" => InText(s))
  BY <1>1, ReadyFacts
<1>3. c \in Outermost
  BY <1>1, <1>2, KindFacts DEF CompileCalls
<1>4. s.work = <<>> /\ Settled(s)
  BY <1>1, <1>3, OutermostReady
<1> QED
  BY <1>1, <1>2, <1>4

(* Where the outermost level has no jump that waits, a declaration may be made. *)
LEMMA FinalGoes ==
  ASSUME NEW fs, NEW p, Final(p), p.temps \in Nat, NEW c, c.do = "declaration"
  PROVE  \E m : Final(m) /\ Goes(fs, p, c, m)
<1>1. Len(p.levels) = 1 /\ Top(p).depth = 0 /\ p.open = {} /\ p.temps = 0
  BY DEF Final
<1> DEFINE m == With(p, {}, {}, 0)
<1>2. m.levels = p.levels /\ m.open = {} /\ m.marks = {} /\ m.temps = 0 /\ m.fresh = FALSE
  BY DEF With, Plan
<1> HIDE DEF m
<1>3. Final(m)
  BY <1>1, <1>2 DEF Final, Top
<1>4. Moves(p, m)
  BY <1>1, <1>2 DEF Moves
<1>5. Clear(p, p.open) /\ Clear(p, m.marks)
  BY <1>1, <1>2 DEF Clear
<1>6. c.do \in Declaring \ {"parameter"}
  BY DEF Declaring
<1>7. Goes(fs, p, c, m)
  BY <1>1, <1>2, <1>4, <1>5, <1>6, GoesDeclaring
<1> QED
  BY <1>3, <1>7

(* `compile', before a declaration *)
LEMMA CompileMoreGoal ==
  ASSUME NEW s, NEW c, NEW p, StandsLast(s, c, p)
  PROVE  Goal(Then(s, <<Call("declaration"), Call("compile")>>))
<1> DEFINE d == Call("declaration")
           e == Call("compile")
           cs == <<d, e>>
           t == Then(s, cs)
<1>1. /\ Base(s) /\ s.work = <<>> /\ s.errors = {} /\ Typed(s, p) /\ Final(p)
  BY LastFacts
<1>2. d \in CallType /\ e \in CallType /\ d.do = "declaration" /\ e.do = "compile"
  <2>1. d \in CallType /\ e \in CallType
    BY StatementCallFacts DEF CallType
  <2> QED
    BY <2>1 DEF Call
<1> HIDE DEF d, e
<1>3. cs \in Seq(CallType) /\ cs = <<d>> \o <<e>> /\ cs \o <<>> = cs /\ <<e>> \in Seq(CallType)
  <2>1. cs \in Seq(CallType) /\ <<e>> \in Seq(CallType) /\ <<d>> \in Seq(CallType)
    BY <1>2
  <2>2. cs = <<d>> \o <<e>>
    <3> DEFINE none == <<>>
               es == <<e>>
    <3>1. none \in Seq(CallType)
      OBVIOUS
    <3>2. es \o none = es
      <4> HIDE DEF es
      <4> QED
        BY <2>1 DEF es
    <3> HIDE DEF none
    <3>3. <<d, e>> \o none = <<d>> \o (<<e>> \o none)
      BY <1>2, <3>1, ConsTwo
    <3>4. cs \o none = cs
      <4> HIDE DEF cs
      <4> QED
        BY <2>1 DEF none
    <3> QED
      BY <3>2, <3>3, <3>4
  <2>3. cs \o <<>> = cs
    <3> HIDE DEF cs
    <3> QED
      BY <2>1, EmptyFacts
  <2> QED
    BY <2>1, <2>2, <2>3
<1> HIDE DEF cs
<1>4. t.work = cs \o s.work /\ t.compilers = s.compilers /\ t.functions = s.functions
  BY <1>1, <1>3, ThenFacts
<1> HIDE DEF t
<1>5. PICK m : Final(m) /\ Goes(s.functions, p, d, m)
  BY <1>1, <1>2, TopRow, FinalGoes
<1>6. Fits(s.functions, m, <<e>>)
  BY <1>2, <1>5, FitsAlone
<1>7. Fits(s.functions, p, <<d>> \o <<e>>)
  BY <1>2, <1>3, <1>5, <1>6, FitsCons
<1>8. t.work = <<d>> \o <<e>>
  BY <1>1, <1>3, <1>4
<1>9. Typed(t, p) /\ Fits(t.functions, p, t.work)
  BY <1>1, <1>4, <1>7, <1>8 DEF Typed
<1> QED
  BY <1>9 DEF Goal, t, cs, d, e

(* `compile', at the end *)
LEMMA CompileEndGoal ==
  ASSUME NEW s, NEW c, NEW p, StandsLast(s, c, p), NEW t, Base(t), Reads(s, t), t.work = s.work
  PROVE  Goal(Then(t, <<Call("end_compiler")>>))
<1> DEFINE e == Call("end_compiler")
           cs == <<e>>
           u == Then(t, cs)
<1>1. /\ Base(s) /\ s.work = <<>> /\ s.errors = {} /\ Typed(s, p) /\ Final(p)
  BY LastFacts
<1>2. e \in CallType /\ e.do = "end_compiler"
  <2>1. e \in CallType
    BY StatementCallFacts DEF CallType
  <2> QED
    BY <2>1 DEF Call
<1> HIDE DEF e
<1>3. cs \in Seq(CallType) /\ cs \o <<>> = cs
  BY <1>2
<1>4. Fits(t.functions, p, cs)
  BY <1>1, <1>2, FitsAlone
<1> HIDE DEF cs
<1>5. u.work = cs \o t.work /\ u.compilers = t.compilers /\ u.functions = t.functions
  BY <1>3, ThenFacts
<1> HIDE DEF u
<1>6. u.work = cs
  BY <1>1, <1>3, <1>5
<1>7. Typed(t, p)
  <2>1. Loose(p, p)
    BY DEF Loose
  <2>2. /\ t.functions = s.functions /\ Len(t.compilers) = Len(s.compilers)
        /\ \A k \in DOMAIN s.compilers : Same(s.compilers[k], t.compilers[k])
    BY DEF Reads
  <2>3. /\ DOMAIN s.compilers = 1 .. Len(s.compilers) /\ Len(s.compilers) \in Nat \ {0}
        /\ \A k \in DOMAIN s.compilers : s.compilers[k].function \in DOMAIN s.functions
    BY <1>1, BaseChain
  <2>4. DOMAIN t.compilers = DOMAIN s.compilers
    <3>1. DOMAIN t.compilers = 1 .. Len(t.compilers)
      BY BaseChain
    <3> QED
      BY <2>2, <2>3, <3>1
  <2>5. IsProgram(s.functions) /\ Typing(s.functions, s.compilers, p)
    BY <1>1, BaseProgram DEF Typed
  <2> DEFINE fs == s.functions
             cs1 == s.compilers
             ds == t.compilers
  <2>6. Typing(fs, ds, p)
    <3>1. /\ IsProgram(fs) /\ DOMAIN cs1 = 1 .. Len(cs1) /\ Len(cs1) \in Nat \ {0}
          /\ \A j \in DOMAIN cs1 : cs1[j].function \in DOMAIN fs
          /\ DOMAIN ds = DOMAIN cs1 /\ Len(ds) = Len(cs1) /\ \A j \in DOMAIN cs1 : Same(cs1[j], ds[j])
          /\ Typing(fs, cs1, p)
      BY <2>2, <2>3, <2>4, <2>5
    <3> HIDE DEF fs, cs1, ds
    <3> QED
      BY <2>1, <3>1, SameTyping
  <2> QED
    BY <2>2, <2>6 DEF Typed
<1>8. Typed(u, p) /\ Fits(u.functions, p, u.work)
  BY <1>4, <1>5, <1>6, <1>7 DEF Typed
<1> QED
  BY <1>8 DEF Goal, u, cs, e

(* `compile' *)
LEMMA CompileGoal ==
  ASSUME TokensOk, NEW s, NEW c, NEW p, StandsLast(s, c, p), c.do = "compile"
  PROVE  Goal(RunCompile(s, c))
<1>1. Base(s) /\ InText(s)
  BY LastFacts
<1> DEFINE t == Advance(s)
           last == <<Call("end_compiler")>>
           failed == ErrorAtPrevious(t, "Expected end of file.")
<1>2. This(s).current <= Len(tokens)
  BY <1>1 DEF InText
<1>3. RunCompile(s, c) =
        IF ~Check(s, "LOX_EOF") THEN Then(s, <<Call("declaration"), Call("compile")>>)
        ELSE Then(IF Previous(t).type = "LOX_EOF" THEN t ELSE failed, last)
  BY <1>2 DEF RunCompile
<1>4. Base(t) /\ Reads(s, t) /\ t.work = s.work
  BY <1>1, AdvanceBase, AdvanceReads
<1> HIDE DEF t
<1>5. Goal(Then(t, last))
  BY <1>4, CompileEndGoal
<1>6. Goal(Then(failed, last))
  <2>1. failed.errors # {} /\ Base(failed)
    BY <1>4, ErrorFacts DEF Keeps
  <2>2. Then(failed, last).errors = failed.errors
    BY DEF Then
  <2> HIDE DEF failed, last
  <2> QED
    BY <2>1, <2>2 DEF Goal
<1>7. Goal(Then(s, <<Call("declaration"), Call("compile")>>))
  BY CompileMoreGoal
<1> HIDE DEF failed, last
<1> QED
  BY <1>3, <1>5, <1>6, <1>7

(* The code of every function is complete. *)
AllFinished(fs) == \A f \in DOMAIN fs : Finished(fs, f)

(* Where the outermost level has nothing on the stack, the script may return. *)
LEMMA LastReturns ==
  ASSUME NEW s, NEW c, NEW p, StandsLast(s, c, p)
  PROVE  Returns(s, p) /\ DOMAIN s.compilers = {1} /\ This(s).function = s.compilers[1].function
<1>1. /\ Base(s) /\ Settled(s) /\ Typed(s, p) /\ Final(p)
  BY LastFacts
<1>2. Len(p.levels) = 1 /\ Top(p).depth = 0 /\ p.open = {} /\ p.temps = 0
  BY <1>1 DEF Final
<1>3. Me(s) = 1 /\ This(s).scope_depth = 0
  BY <1>1, <1>2, TopRow
<1>4. DOMAIN s.compilers = {1} /\ This(s) = s.compilers[1] /\ 1 \in DOMAIN s.compilers
  <2> DEFINE n == Me(s)
             dom == DOMAIN s.compilers
  <2>1. dom = 1 .. n /\ n = 1 /\ This(s) = s.compilers[n] /\ 1 \in dom
    BY <1>1, <1>3, BaseChain
  <2> HIDE DEF n, dom
  <2>2. 1 .. n = {1}
    BY <2>1
  <2> QED
    BY <2>1, <2>2 DEF dom
<1>5. ScriptOk(s.functions, s.compilers)
  BY <1>1 DEF Typed, Typing
<1>6. This(s).function = 1 /\ Function(s).arity = 0 /\ This(s).upvalues = <<>>
  <2>1. Function(s) = s.functions[This(s).function]
    BY <1>1, BaseChain
  <2> QED
    BY <1>4, <1>5, <2>1 DEF ScriptOk
<1>7. Function(s).upvalue_count = 0
  <2>1. Len(This(s).upvalues) = s.functions[This(s).function].upvalue_count
    BY <1>1, OwnFacts
  <2>2. Function(s) = s.functions[This(s).function]
    BY <1>1, BaseChain
  <2>3. Len(This(s).upvalues) = 0
    <3>1. Len(<<>>) = 0
      BY EmptyFacts
    <3> QED
      BY <1>6, <3>1
  <2> QED
    BY <2>1, <2>2, <2>3
<1>8. OnStack(This(s), TRUE) + p.temps = 1
  <2>1. Len(This(s).locals) = 1 /\ DOMAIN This(s).locals = 1 .. Len(This(s).locals)
    BY <1>1, <1>3, OwnFacts
  <2>2. Len(This(s).locals) \in DOMAIN This(s).locals
    <3>1. Len(This(s).locals) \in 1 .. Len(This(s).locals)
      BY <2>1
    <3> QED
      BY <2>1, <3>1
  <2>3. This(s).locals[Len(This(s).locals)].depth # -1
    BY <1>1, <1>4, <2>2 DEF Settled
  <2>4. OnStack(This(s), TRUE) = Len(This(s).locals)
    BY <1>1, <2>3, OnStackFacts
  <2> DEFINE a == OnStack(This(s), TRUE)
             b == p.temps
  <2>5. a = 1 /\ b = 0
    BY <1>2, <2>1, <2>4
  <2> HIDE DEF a, b
  <2>6. a + b = 1
    BY ONLY <2>5
  <2> QED
    BY <2>6 DEF a, b
<1> QED
  BY <1>2, <1>4, <1>6, <1>7, <1>8 DEF Returns

(* `end_compiler' completes the script, and with it the program. *)
LEMMA EndCompilerFinishes ==
  ASSUME NEW s, NEW c, NEW p, StandsLast(s, c, p), NEW t, t = EmitReturn(s)
  PROVE  t.work = <<>> /\ AllFinished(t.functions)
<1>1. /\ Base(s) /\ s.work = <<>> /\ s.errors = {} /\ Typed(s, p)
  BY LastFacts
<1>2. Returns(s, p) /\ DOMAIN s.compilers = {1} /\ This(s).function = s.compilers[1].function
  BY LastReturns
<1>3. /\ \E code : Writes(s, t, code)
      /\ Base(t) /\ t.work = s.work /\ Finished(t.functions, This(s).function)
  BY <1>1, <1>2, ReturnFinishes
<1>4. PICK code : Writes(s, t, code)
  BY <1>3
<1>5. /\ DOMAIN t.functions = DOMAIN s.functions
      /\ \A g \in DOMAIN s.functions \ {This(s).function} : t.functions[g] = s.functions[g]
  BY <1>4 DEF Writes
<1>6. /\ \A f \in DOMAIN s.functions : SameClosures(s.functions, t.functions, f)
      /\ IsProgram(s.functions) /\ IsProgram(t.functions)
  BY <1>4, WritesFacts
<1>7. \A f \in DOMAIN s.functions \ Chain(s.compilers) : Finished(s.functions, f)
  BY <1>1 DEF Typed, Typing
<1>8. Chain(s.compilers) = {This(s).function}
  BY <1>2 DEF Chain
<1>9. ASSUME NEW f \in DOMAIN t.functions PROVE Finished(t.functions, f)
  <2>1. CASE f = This(s).function
    BY <1>3, <2>1
  <2>2. CASE f # This(s).function
    <3>1. f \in DOMAIN s.functions /\ t.functions[f] = s.functions[f] /\ Finished(s.functions, f)
      BY <1>5, <1>7, <1>8, <2>2
    <3> QED
      BY <1>6, <3>1, FinishedStays
  <2> QED
    BY <2>1, <2>2
<1> QED
  BY <1>1, <1>3, <1>9 DEF AllFinished

(* The names that the scanner finds are not empty, so that none is that of the slot of the function itself. *)
LEMMA TokenizeNames ==
  ASSUME NEW source \in Sources, tokens = Tokenize(source)
  PROVE  NamesOk
<1> DEFINE n == Len(source)
           read == [i \in DOMAIN source |-> [type |-> TypeOf(source[i]), lexeme |-> source[i]]]
           end == [type |-> "LOX_EOF", lexeme |-> ""]
<1>1. source \in Seq(Range(source)) /\ "" \notin Range(source)
  BY SourcesAssumption
<1>2. n \in Nat /\ DOMAIN source = 1 .. n
  <2>1. IsSeq(source)
    BY <1>1 DEF IsSeq
  <2> QED
    BY <2>1, SeqFacts
<1>3. tokens = Append(read, end)
  BY DEF Tokenize
<1>4. \A i \in 1 .. n : source[i] # ""
  BY <1>1, <1>2 DEF Range
<1>5. DOMAIN read = 1 .. n /\ read = [i \in 1 .. n |-> read[i]] /\ \A i \in 1 .. n : read[i].lexeme = source[i]
  BY <1>2
<1>6. end.type # "IDENTIFIER"
  OBVIOUS
<1> HIDE DEF read, n, end
<1>7. IsSeq(read) /\ Len(read) = n
  BY <1>2, <1>5, FunctionIsSeq
<1>8. /\ DOMAIN tokens = 1 .. n + 1 /\ tokens[n + 1] = end
      /\ \A i \in 1 .. n : tokens[i] = read[i]
  BY <1>2, <1>3, <1>7, AppendFacts
<1>9. \A i \in 1 .. n + 1 : i \in 1 .. n \/ i = n + 1
  BY <1>2
<1> QED
  BY <1>4, <1>5, <1>6, <1>8, <1>9 DEF NamesOk

-----------------------------------------------------------------------------
(* The inductive invariant *)

(* While no error is reported: the state is as a plan says that the waiting calls fit, and where none
   waits the code of every function is complete. *)
Verifying(s) ==
  s.errors = {} => IF s.work = <<>> THEN AllFinished(s.functions)
                   ELSE \E p : Typed(s, p) /\ Fits(s.functions, p, s.work)

(* What a call leaves where others wait. *)
LEMMA GoalVerifies ==
  ASSUME NEW t, Goal(t)
  PROVE  Verifying(t)
<1>1. \A fs, p, w : Fits(fs, p, w) => w # <<>>
  BY DEF Fits
<1> QED
  BY <1>1 DEF Goal, Verifying

(* A Compiler that has just been made, in one state: function 1 is without code. *)
Begins(s) ==
  /\ DOMAIN s.functions = {1} /\ s.functions[1].code = <<>> /\ s.functions[1].arity = 0
  /\ s.functions[1].constants = <<>> /\ s.functions[1].name = "script"
  /\ Alone(s.compilers[1], 1) /\ s.compilers[1].scope_depth = 0
  /\ s.compilers[1].locals \in Seq(LocalType)
  /\ DOMAIN s.compilers = {1} /\ Len(s.compilers) = 1

(* Init makes one. *)
LEMMA InitBegins == Init => Begins(Now) /\ Now.work = <<Call("compile")>>
<1> SUFFICES ASSUME NEW source \in Sources, InitFor(source) PROVE Begins(Now) /\ Now.work = <<Call("compile")>>
  BY DEF Init
<1> DEFINE f == NewFunction("script")
           c == NewCompiler(1, 1, 1)
           name == "script"
<1>1. Now.functions = <<f>> /\ Now.compilers = <<c>> /\ Now.work = <<Call("compile")>>
  BY DEF InitFor, Now
<1>2. f.code = <<>> /\ f.arity = 0 /\ f.constants = <<>> /\ f.name = name
  BY DEF NewFunction
<1>3. Fresh(c, 1, 1, 1)
  BY NewCompilerType
<1>4. c.locals = <<NewLocal("", 0)>>
  BY DEF NewCompiler
<1>5. c.locals[1].name = ""
  <2> DEFINE l == NewLocal("", 0)
             locals == c.locals
  <2>1. l.name = "" /\ locals = <<l>>
    BY <1>4 DEF NewLocal
  <2> HIDE DEF l, locals
  <2>2. locals[1] = l
    BY <2>1
  <2> QED
    BY <2>1, <2>2 DEF locals
<1>6. /\ c.function = 1 /\ c.scope_depth = 0 /\ c.upvalues = <<>> /\ Len(c.locals) = 1
      /\ c.locals[1].depth = 0 /\ c.locals \in Seq(LocalType)
  BY <1>3 DEF Fresh, CompilerType
<1> HIDE DEF f, c, name
<1>7. Alone(c, 1)
  <2>1. 0 \in Nat
    OBVIOUS
  <2>2. c.scope_depth \in Nat
    BY <1>6, <2>1, Zenon
  <2> QED
    BY <1>5, <1>6, <2>2 DEF Alone
<1>8. DOMAIN Now.functions = {1} /\ Now.functions[1] = f
  BY <1>1
<1>9. DOMAIN Now.compilers = {1} /\ Now.compilers[1] = c /\ Len(Now.compilers) = 1
  BY <1>1
<1> QED
  BY <1>1, <1>2, <1>6, <1>7, <1>8, <1>9 DEF Begins, name

(* Nothing is on the stack, and no jump waits. *)
LEMMA BeginsTyping ==
  ASSUME NEW s, Base(s), Begins(s)
  PROVE  \E p : Typed(s, p) /\ Final(p)
<1> DEFINE fs == s.functions
           cs == s.compilers
           d == cs[1]
           p == Plan(Levels(cs), {}, {}, 0, FALSE)
<1>1. /\ DOMAIN fs = {1} /\ fs[1].code = <<>> /\ fs[1].arity = 0
      /\ fs[1].constants = <<>> /\ fs[1].name = "script"
      /\ Alone(d, 1) /\ d.scope_depth = 0 /\ d.locals \in Seq(LocalType)
      /\ DOMAIN cs = {1} /\ Len(cs) = 1
  BY DEF Begins
<1>2. p.levels = Levels(cs) /\ p.open = {} /\ p.marks = {} /\ p.temps = 0 /\ p.fresh = FALSE
  BY DEF Plan
<1> HIDE DEF fs, cs, d, p
<1>3. d.function = 1 /\ d.upvalues = <<>>
  BY <1>1 DEF Alone
<1>4. Row(fs, d, TRUE, 0, {}, {}) /\ LevelOf(d) = Level(1, d.scope_depth, FALSE)
  <2> DEFINE n == 1
             none == {}
  <2>1. Alone(d, n) /\ fs[n].code = <<>> /\ fs[n].arity = 0 /\ \A e \in none \cup none : e.fun # n
    BY <1>1
  <2> HIDE DEF n, none
  <2>2. Row(fs, d, TRUE, 0, none, none) /\ LevelOf(d) = Level(n, d.scope_depth, FALSE)
    BY <1>1, <2>1, OpenedRow
  <2> QED
    BY <2>2 DEF n, none
<1>5. PlanOk(fs, cs, p)
  BY <1>2 DEF PlanOk
<1>6. \A k \in DOMAIN cs : Row(fs, cs[k], k = Len(cs), IF k = Len(cs) THEN p.temps ELSE 0, p.open, p.marks)
  <2> SUFFICES ASSUME NEW k \in DOMAIN cs
               PROVE  Row(fs, cs[k], k = Len(cs), IF k = Len(cs) THEN p.temps ELSE 0, p.open, p.marks)
    OBVIOUS
  <2>1. cs[k] = d /\ (k = Len(cs)) = TRUE /\ (IF k = Len(cs) THEN p.temps ELSE 0) = 0
    BY <1>1, <1>2 DEF d
  <2> QED
    BY <1>2, <1>4, <2>1
<1>7. Chain(cs) = {1}
  BY <1>1, <1>3 DEF Chain, d
<1>8. \A f \in DOMAIN fs \ Chain(cs) : Finished(fs, f)
  BY <1>1, <1>7
<1>9. \A f \in DOMAIN fs : Outside(fs[f], Chain(cs))
  <2>1. DOMAIN fs[1].constants = {}
    BY <1>1, EmptyFacts
  <2> QED
    BY <1>1, <2>1 DEF Outside
<1>10. ScriptOk(fs, cs)
  BY <1>1, <1>3 DEF ScriptOk, d
<1>11. Typing(fs, cs, p)
  BY <1>5, <1>6, <1>8, <1>9, <1>10 DEF Typing
<1>12. Final(p)
  <2>1. p.levels = [k \in {1} |-> Level(1, 0, FALSE)]
    BY <1>1, <1>2, <1>4 DEF Levels, d
  <2>2. Level(1, 0, FALSE).depth = 0
    BY DEF Level
  <2> DEFINE l == Level(1, 0, FALSE)
  <2> HIDE DEF l
  <2>3. p.levels = [k \in {1} |-> l]
    BY <2>1 DEF l
  <2>4. Len(p.levels) = 1 /\ p.levels[1] = l
    <3>1. [k \in {1} |-> l] = <<l>>
      OBVIOUS
    <3>2. Len(<<l>>) = 1 /\ <<l>>[1] = l
      OBVIOUS
    <3> QED
      BY <2>3, <3>1, <3>2
  <2> QED
    BY <1>2, <2>2, <2>4 DEF Final, Top, l
<1> QED
  BY <1>11, <1>12 DEF Typed, fs, cs

(* The first call fits. *)
LEMMA InitVerifies == Init => Verifying(Now)
<1> SUFFICES ASSUME Init PROVE Verifying(Now)
  OBVIOUS
<1> DEFINE c == Call("compile")
<1>1. Base(Now) /\ Begins(Now) /\ Now.work = <<c>>
  BY InitOk, InitBegins DEF IInv, Ok
<1>2. c.do \in {"compile", "end_compiler"}
  BY DEF Call
<1>3. PICK p : Typed(Now, p) /\ Final(p)
  BY <1>1, BeginsTyping
<1> HIDE DEF c
<1>4. Fits(Now.functions, p, Now.work)
  BY <1>1, <1>2, <1>3, FitsAlone
<1> HIDE DEF Now
<1>5. Goal(Now)
  BY <1>3, <1>4 DEF Goal
<1> QED
  BY <1>5, GoalVerifies

(* The call c, made in s, returns t. *)
Calls(s, c, t) ==
  \/ c.do = "consume" /\ t = RunConsume(s, c)
  \/ c.do = "emit" /\ t = RunEmit(s, c)
  \/ c.do = "patch_jump" /\ t = RunPatchJump(s, c)
  \/ c.do = "end_scope" /\ t = RunEndScope(s, c)
  \/ c.do = "define_variable" /\ t = RunDefineVariable(s, c)
  \/ c.do = "compile" /\ t = RunCompile(s, c)
  \/ c.do = "end_compiler" /\ t = RunEndCompiler(s, c)
  \/ c.do = "declaration" /\ t = RunDeclaration(s, c)
  \/ c.do = "synchronize" /\ t = RunSynchronize(s, c)
  \/ c.do = "var_declaration" /\ t = RunVarDeclaration(s, c)
  \/ c.do = "function_declaration" /\ t = RunFunctionDeclaration(s, c)
  \/ c.do = "parameter" /\ t = RunParameter(s, c)
  \/ c.do = "function_body" /\ t = RunFunctionBody(s, c)
  \/ c.do = "end_function" /\ t = RunEndFunction(s, c)
  \/ c.do = "statement" /\ t = RunStatement(s, c)
  \/ c.do = "expression_statement" /\ t = RunExpressionStatement(s, c)
  \/ c.do = "block" /\ t = RunBlock(s, c)
  \/ c.do = "if_then" /\ t = RunIfThen(s, c)
  \/ c.do = "if_else" /\ t = RunIfElse(s, c)
  \/ c.do = "while_body" /\ t = RunWhileBody(s, c)
  \/ c.do = "end_loop" /\ t = RunEndLoop(s, c)
  \/ c.do = "for_statement" /\ t = RunForStatement(s, c)
  \/ c.do = "for_condition" /\ t = RunForCondition(s, c)
  \/ c.do = "for_exit" /\ t = RunForExit(s, c)
  \/ c.do = "for_increment" /\ t = RunForIncrement(s, c)
  \/ c.do = "for_resume" /\ t = RunForResume(s, c)
  \/ c.do = "for_body" /\ t = RunForBody(s, c)
  \/ c.do = "return_statement" /\ t = RunReturnStatement(s, c)
  \/ c.do = "parse_precedence" /\ t = RunParsePrecedence(s, c)
  \/ c.do = "infix" /\ t = RunInfix(s, c)
  \/ c.do = "argument" /\ t = RunArgument(s, c)
  \/ c.do = "next_argument" /\ t = RunNextArgument(s, c)
  \/ c.do = "end_call" /\ t = RunEndCall(s, c)

(* Each step of the compiler makes a call. *)
LEMMA NextMakes ==
  ASSUME Next
  PROVE  work # <<>> /\ \E t : Calls(Popped, Head(work), t) /\ Becomes(t)
<1> DEFINE c == Head(work)
           s == Popped
<1>1. /\ work # <<>>
      /\ \/ c.do = "consume" /\ Becomes(RunConsume(s, c))
         \/ c.do = "emit" /\ Becomes(RunEmit(s, c))
         \/ c.do = "patch_jump" /\ Becomes(RunPatchJump(s, c))
         \/ c.do = "end_scope" /\ Becomes(RunEndScope(s, c))
         \/ c.do = "define_variable" /\ Becomes(RunDefineVariable(s, c))
         \/ c.do = "compile" /\ Becomes(RunCompile(s, c))
         \/ c.do = "end_compiler" /\ Becomes(RunEndCompiler(s, c))
         \/ c.do = "declaration" /\ Becomes(RunDeclaration(s, c))
         \/ c.do = "synchronize" /\ Becomes(RunSynchronize(s, c))
         \/ c.do = "var_declaration" /\ Becomes(RunVarDeclaration(s, c))
         \/ c.do = "function_declaration" /\ Becomes(RunFunctionDeclaration(s, c))
         \/ c.do = "parameter" /\ Becomes(RunParameter(s, c))
         \/ c.do = "function_body" /\ Becomes(RunFunctionBody(s, c))
         \/ c.do = "end_function" /\ Becomes(RunEndFunction(s, c))
         \/ c.do = "statement" /\ Becomes(RunStatement(s, c))
         \/ c.do = "expression_statement" /\ Becomes(RunExpressionStatement(s, c))
         \/ c.do = "block" /\ Becomes(RunBlock(s, c))
         \/ c.do = "if_then" /\ Becomes(RunIfThen(s, c))
         \/ c.do = "if_else" /\ Becomes(RunIfElse(s, c))
         \/ c.do = "while_body" /\ Becomes(RunWhileBody(s, c))
         \/ c.do = "end_loop" /\ Becomes(RunEndLoop(s, c))
         \/ c.do = "for_statement" /\ Becomes(RunForStatement(s, c))
         \/ c.do = "for_condition" /\ Becomes(RunForCondition(s, c))
         \/ c.do = "for_exit" /\ Becomes(RunForExit(s, c))
         \/ c.do = "for_increment" /\ Becomes(RunForIncrement(s, c))
         \/ c.do = "for_resume" /\ Becomes(RunForResume(s, c))
         \/ c.do = "for_body" /\ Becomes(RunForBody(s, c))
         \/ c.do = "return_statement" /\ Becomes(RunReturnStatement(s, c))
         \/ c.do = "parse_precedence" /\ Becomes(RunParsePrecedence(s, c))
         \/ c.do = "infix" /\ Becomes(RunInfix(s, c))
         \/ c.do = "argument" /\ Becomes(RunArgument(s, c))
         \/ c.do = "next_argument" /\ Becomes(RunNextArgument(s, c))
         \/ c.do = "end_call" /\ Becomes(RunEndCall(s, c))
  BY NextCalls
<1> HIDE DEF c, s
<1>2. work # <<>> /\ \E t : Calls(s, c, t) /\ Becomes(t)
  BY <1>1, Zenon DEF Calls
<1> QED
  BY <1>2 DEF c, s

(* No call forgets an error. *)
LEMMA CallsAdd ==
  ASSUME TokensOk, NEW s, NEW c, Ready(s, c), NEW t, Calls(s, c, t)
  PROVE  Adds(s, t)
<1>1. /\ Shaped(s) /\ Base(s) /\ c \in CallType /\ (c.do # "end_compiler" => InText(s))
  BY ReadyFacts, BaseShaped
<1>2. c.do = "consume" => Adds(s, RunConsume(s, c))
  BY <1>1, PlainCallsAdd
<1>3. c.do = "emit" => Adds(s, RunEmit(s, c))
  BY <1>1, PlainCallsAdd
<1>4. c.do = "patch_jump" => Adds(s, RunPatchJump(s, c))
  BY <1>1, PlainCallsAdd
<1>5. c.do = "end_scope" => Adds(s, RunEndScope(s, c))
  BY <1>1, PlainCallsAdd
<1>6. c.do = "define_variable" => Adds(s, RunDefineVariable(s, c))
  BY <1>1, PlainCallsAdd
<1>7. c.do = "compile" => Adds(s, RunCompile(s, c))
  BY <1>1, CompileAdds
<1>8. c.do = "end_compiler" => Adds(s, RunEndCompiler(s, c))
  BY <1>1, PlainCallsAdd
<1>9. c.do = "declaration" => Adds(s, RunDeclaration(s, c))
  BY <1>1, PlainCallsAdd
<1>10. c.do = "synchronize" => Adds(s, RunSynchronize(s, c))
  BY <1>1, BodyCallsAdd
<1>11. c.do = "var_declaration" => Adds(s, RunVarDeclaration(s, c))
  BY <1>1, VarDeclarationAdds
<1>12. c.do = "function_declaration" => Adds(s, RunFunctionDeclaration(s, c))
  BY <1>1, FunctionDeclarationAdds
<1>13. c.do = "parameter" => Adds(s, RunParameter(s, c))
  BY <1>1, ParameterAdds
<1>14. c.do = "function_body" => Adds(s, RunFunctionBody(s, c))
  BY <1>1, BodyCallsAdd
<1>15. c.do = "end_function" => Adds(s, RunEndFunction(s, c))
  BY <1>1, EndFunctionAdds
<1>16. c.do = "statement" => Adds(s, RunStatement(s, c))
  BY <1>1, StatementAdds
<1>17. c.do = "expression_statement" => Adds(s, RunExpressionStatement(s, c))
  BY <1>1, PlainCallsAdd
<1>18. c.do = "block" => Adds(s, RunBlock(s, c))
  BY <1>1, PlainCallsAdd
<1>19. c.do = "if_then" => Adds(s, RunIfThen(s, c))
  BY <1>1, ConditionsAdd
<1>20. c.do = "if_else" => Adds(s, RunIfElse(s, c))
  BY <1>1, IfElseAdds
<1>21. c.do = "while_body" => Adds(s, RunWhileBody(s, c))
  BY <1>1, ConditionsAdd
<1>22. c.do = "end_loop" => Adds(s, RunEndLoop(s, c))
  BY <1>1, EndLoopAdds
<1>23. c.do = "for_statement" => Adds(s, RunForStatement(s, c))
  BY <1>1, ForStatementAdds
<1>24. c.do = "for_condition" => Adds(s, RunForCondition(s, c))
  BY <1>1, PlainCallsAdd
<1>25. c.do = "for_exit" => Adds(s, RunForExit(s, c))
  BY <1>1, ConditionsAdd
<1>26. c.do = "for_increment" => Adds(s, RunForIncrement(s, c))
  BY <1>1, ForPartsAdd
<1>27. c.do = "for_resume" => Adds(s, RunForResume(s, c))
  BY <1>1, ForPartsAdd
<1>28. c.do = "for_body" => Adds(s, RunForBody(s, c))
  BY <1>1, ForPartsAdd
<1>29. c.do = "return_statement" => Adds(s, RunReturnStatement(s, c))
  BY <1>1, ReturnStatementAdds
<1>30. c.do = "parse_precedence" => Adds(s, RunParsePrecedence(s, c))
  BY <1>1, ParsePrecedenceAdds
<1>31. c.do = "infix" => Adds(s, RunInfix(s, c))
  BY <1>1, RunInfixAdds
<1>32. c.do = "argument" => Adds(s, RunArgument(s, c))
  BY <1>1, PlainCallsAdd
<1>33. c.do = "next_argument" => Adds(s, RunNextArgument(s, c))
  BY <1>1, PlainCallsAdd
<1>34. c.do = "end_call" => Adds(s, RunEndCall(s, c))
  BY <1>1, EndCallAdds
<1> QED
  BY <1>2, <1>3, <1>4, <1>5, <1>6, <1>7, <1>8, <1>9, <1>10, <1>11, <1>12, <1>13, <1>14, <1>15, <1>16, <1>17, <1>18, <1>19, <1>20, <1>21, <1>22, <1>23, <1>24, <1>25, <1>26, <1>27, <1>28, <1>29, <1>30, <1>31, <1>32, <1>33, <1>34, Zenon DEF Calls

(* Each call but the outermost ones does what the plan says. *)
LEMMA CallsGoal ==
  ASSUME TokensOk, NamesOk, NEW s, NEW c, NEW p, NEW q, Stands(s, c, p, q),
         c.do \notin CompileCalls, NEW t, Calls(s, c, t)
  PROVE  Goal(t)
<1>0. c.do # "compile" /\ c.do # "end_compiler"
  BY DEF CompileCalls
<1>1. c.do = "consume" => Goal(RunConsume(s, c))
  BY ConsumeGoal
<1>2. c.do = "emit" => Goal(RunEmit(s, c))
  BY EmitGoal
<1>3. c.do = "patch_jump" => Goal(RunPatchJump(s, c))
  BY PatchJumpGoal
<1>4. c.do = "end_scope" => Goal(RunEndScope(s, c))
  BY EndScopeGoal
<1>5. c.do = "define_variable" => Goal(RunDefineVariable(s, c))
  BY DefineVariableGoal
<1>6. c.do = "declaration" => Goal(RunDeclaration(s, c))
  BY DeclarationGoal
<1>7. c.do = "synchronize" => Goal(RunSynchronize(s, c))
  BY SynchronizeGoal
<1>8. c.do = "var_declaration" => Goal(RunVarDeclaration(s, c))
  BY VarDeclarationGoal
<1>9. c.do = "function_declaration" => Goal(RunFunctionDeclaration(s, c))
  BY FunctionDeclarationGoal
<1>10. c.do = "parameter" => Goal(RunParameter(s, c))
  BY ParameterGoal
<1>11. c.do = "function_body" => Goal(RunFunctionBody(s, c))
  BY FunctionBodyGoal
<1>12. c.do = "end_function" => Goal(RunEndFunction(s, c))
  BY EndFunctionGoal
<1>13. c.do = "statement" => Goal(RunStatement(s, c))
  BY StatementGoal
<1>14. c.do = "expression_statement" => Goal(RunExpressionStatement(s, c))
  BY ExpressionStatementGoal
<1>15. c.do = "block" => Goal(RunBlock(s, c))
  BY BlockGoal
<1>16. c.do = "if_then" => Goal(RunIfThen(s, c))
  BY IfThenGoal
<1>17. c.do = "if_else" => Goal(RunIfElse(s, c))
  BY IfElseGoal
<1>18. c.do = "while_body" => Goal(RunWhileBody(s, c))
  BY WhileBodyGoal
<1>19. c.do = "end_loop" => Goal(RunEndLoop(s, c))
  BY EndLoopGoal
<1>20. c.do = "for_statement" => Goal(RunForStatement(s, c))
  BY ForStatementGoal
<1>21. c.do = "for_condition" => Goal(RunForCondition(s, c))
  BY ForConditionGoal
<1>22. c.do = "for_exit" => Goal(RunForExit(s, c))
  BY ForExitGoal
<1>23. c.do = "for_increment" => Goal(RunForIncrement(s, c))
  BY ForIncrementGoal
<1>24. c.do = "for_resume" => Goal(RunForResume(s, c))
  BY ForResumeGoal
<1>25. c.do = "for_body" => Goal(RunForBody(s, c))
  BY ForBodyGoal
<1>26. c.do = "return_statement" => Goal(RunReturnStatement(s, c))
  BY ReturnStatementGoal
<1>27. c.do = "parse_precedence" => Goal(RunParsePrecedence(s, c))
  BY ParsePrecedenceGoal
<1>28. c.do = "infix" => Goal(RunInfix(s, c))
  BY InfixGoal
<1>29. c.do = "argument" => Goal(RunArgument(s, c))
  BY ArgumentGoal
<1>30. c.do = "next_argument" => Goal(RunNextArgument(s, c))
  BY NextArgumentGoal
<1>31. c.do = "end_call" => Goal(RunEndCall(s, c))
  BY EndCallGoal
<1> QED
  BY <1>0, <1>1, <1>2, <1>3, <1>4, <1>5, <1>6, <1>7, <1>8, <1>9, <1>10, <1>11, <1>12, <1>13, <1>14, <1>15, <1>16, <1>17, <1>18, <1>19, <1>20, <1>21, <1>22, <1>23, <1>24, <1>25, <1>26, <1>27, <1>28, <1>29, <1>30, <1>31, Zenon DEF Calls

(* The outermost ones end with every function complete. *)
LEMMA CallsLast ==
  ASSUME TokensOk, NEW s, NEW c, NEW p, StandsLast(s, c, p), NEW t, Calls(s, c, t)
  PROVE  Verifying(t)
<1>1. c.do = "compile" \/ c.do = "end_compiler"
  BY DEF StandsLast, CompileCalls
<1>2. CASE c.do = "compile"
  <2>1. t = RunCompile(s, c)
    BY <1>2, Zenon DEF Calls
  <2>2. Goal(t)
    BY <1>2, <2>1, CompileGoal
  <2> QED
    BY <2>2, GoalVerifies
<1>3. CASE c.do = "end_compiler"
  <2>1. t = EmitReturn(s)
    <3>1. t = RunEndCompiler(s, c)
      BY <1>3, Zenon DEF Calls
    <3> QED
      BY <3>1 DEF RunEndCompiler
  <2>2. t.work = <<>> /\ AllFinished(t.functions)
    BY <2>1, EndCompilerFinishes
  <2> QED
    BY <2>2 DEF Verifying
<1> QED
  BY <1>1, <1>2, <1>3

(* The inductive invariant of the code, beside that of the compiler. *)
VInv == NamesOk /\ Verifying(Now)

(* The next call is made of a state that a plan says it fits. *)
LEMMA CallsVerify ==
  ASSUME IInv, VInv, work # <<>>, NEW t, Calls(Popped, Head(work), t)
  PROVE  Verifying(t)
<1> DEFINE c == Head(work)
           s == Popped
           w == Tail(work)
<1>1. TokensOk /\ NamesOk /\ Ok(Now) /\ Verifying(Now) /\ Calls(s, c, t)
  BY DEF IInv, VInv
<1>2. Ready(s, c)
  BY <1>1, PoppedFacts
<1>3. s.functions = functions /\ s.compilers = compilers /\ s.errors = errors /\ s.work = w
  BY DEF Popped
<1>4. /\ Now.functions = functions /\ Now.compilers = compilers /\ Now.errors = errors /\ Now.work = work
      /\ work \in Seq(CallType)
  <2>1. Base(Now)
    BY <1>1 DEF Ok
  <2>2. Now.work \in Seq(CallType)
    BY <2>1, BaseFacts DEF IsState
  <2> QED
    BY <2>2, NowFacts
<1>5. c \in CallType /\ w \in Seq(CallType) /\ work = <<c>> \o w /\ c = work[1]
  BY <1>4
<1>6. Adds(s, t)
  BY <1>1, <1>2, CallsAdd
<1> HIDE DEF c, s, w
<1> SUFFICES ASSUME t.errors = {} PROVE Verifying(t)
  BY DEF Verifying
<1>7. s.errors = {} /\ Now.errors = {}
  BY <1>3, <1>4, <1>6 DEF Adds
<1>8. PICK p : Typed(Now, p) /\ Fits(functions, p, work)
  BY <1>1, <1>4, <1>7 DEF Verifying
<1>9. Typed(s, p)
  BY <1>3, <1>4, <1>8 DEF Typed
<1>10. CASE c.do \in CompileCalls
  <2>1. Final(p)
    BY <1>4, <1>5, <1>8, <1>10, FitsLast DEF CompileCalls
  <2>2. StandsLast(s, c, p)
    BY <1>2, <1>7, <1>9, <1>10, <2>1 DEF StandsLast
  <2> QED
    BY <1>1, <2>2, CallsLast
<1>11. CASE c.do \notin CompileCalls
  <2>1. PICK q : Goes(functions, p, c, q) /\ Fits(functions, q, w)
    <3>1. Fits(functions, p, <<c>> \o w) /\ c.do \notin {"compile", "end_compiler"}
      BY <1>5, <1>8, <1>11 DEF CompileCalls
    <3> QED
      BY <1>5, <3>1, FitsTail
  <2>2. Stands(s, c, p, q)
    BY <1>2, <1>3, <1>7, <1>9, <2>1 DEF Stands
  <2>3. Goal(t)
    BY <1>1, <1>11, <2>2, CallsGoal
  <2> QED
    BY <2>3, GoalVerifies
<1> QED
  BY <1>10, <1>11

(* What holds of a state holds of the variables that become it. *)
LEMMA BecomesVerifying ==
  ASSUME NamesOk, NEW t, Verifying(t), Becomes(t)
  PROVE  VInv'
<1>1. compilers' = t.compilers /\ functions' = t.functions /\ errors' = t.errors /\ work' = t.work /\ tokens' = tokens
  BY DEF Becomes
<1>2. NamesOk'
  BY <1>1 DEF NamesOk
<1>3. /\ Now'.functions = t.functions /\ Now'.compilers = t.compilers /\ Now'.errors = t.errors /\ Now'.work = t.work
  BY <1>1 DEF Now
<1> DEFINE u == Now'
<1> HIDE DEF u
<1>4. u.functions = t.functions /\ u.compilers = t.compilers /\ u.errors = t.errors /\ u.work = t.work
  BY <1>3 DEF u
<1>5. Verifying(u)
  BY <1>4 DEF Verifying, Typed
<1>6. Verifying(Now)'
  BY <1>1, <1>5 DEF u, Verifying, Typed, Typing, PlanOk, Row
<1> QED
  BY <1>2, <1>6 DEF VInv

-----------------------------------------------------------------------------
(* The theorem *)

(* The invariant holds of a Compiler that has just been made. *)
LEMMA InitCode == Init => VInv
<1>1. Init => NamesOk
  BY TokenizeNames DEF Init, InitFor
<1> QED
  BY <1>1, InitVerifies DEF VInv

(* Each call keeps it. *)
LEMMA NextCode == IInv /\ VInv /\ [Next]_vars => VInv'
<1> SUFFICES ASSUME IInv, VInv, [Next]_vars PROVE VInv'
  OBVIOUS
<1>1. CASE UNCHANGED vars
  <2>1. Becomes(Now)
    BY <1>1 DEF vars, Becomes, Now
  <2> QED
    BY <2>1, BecomesVerifying DEF VInv
<1>2. CASE Next
  <2>1. PICK t : Calls(Popped, Head(work), t) /\ Becomes(t)
    BY <1>2, NextMakes
  <2>2. Verifying(t)
    BY <1>2, <2>1, NextMakes, CallsVerify
  <2> QED
    BY <2>1, <2>2, BecomesVerifying DEF VInv
<1> QED
  BY <1>1, <1>2

(* Code that is complete is verified. *)
LEMMA CodeVerified == IInv /\ VInv => VerifiedCode
<1> SUFFICES ASSUME IInv, VInv, work = <<>>, errors = {}, NEW f \in DOMAIN functions
             PROVE  Verified(functions, f)
  BY DEF VerifiedCode, Done
<1>1. Now.functions = functions /\ Now.errors = errors /\ Now.work = work
  BY NowFacts
<1>2. Verifying(Now) /\ Base(Now)
  BY DEF IInv, VInv, Ok
<1>3. AllFinished(functions)
  BY <1>1, <1>2 DEF Verifying
<1>4. IsProgram(functions)
  BY <1>1, <1>2, BaseProgramOf
<1> QED
  BY <1>3, <1>4, FinishedIsVerified DEF AllFinished

(* The code that the compiler makes of a source without errors is one that the VM can run: on every
   path the stack has the same height where paths meet, no instruction takes more from it than is
   there or reaches above it, jumps lead to instructions, and constants have the type that is used. *)
THEOREM CompilerCode == Spec => []VerifiedCode
<1>1. Init => IInv /\ VInv
  BY InitOk, InitCode
<1>2. IInv /\ VInv /\ [Next]_vars => IInv' /\ VInv'
  BY NextOk, NextCode
<1>3. IInv /\ VInv => VerifiedCode
  BY CodeVerified
<1> QED
  BY <1>1, <1>2, <1>3, PTL DEF Spec

-----------------------------------------------------------------------------
(* The locals mirror the stack *)

(* The calls that patch jumps know their addresses. *)
LEMMA CallFields ==
  ASSUME NEW c \in CallType
  PROVE  /\ c.do \in {"patch_jump", "if_else", "for_resume"} => "jump" \in DOMAIN c
         /\ c.do \in {"end_loop", "for_increment", "for_body", "for_resume"} =>
              "exit" \in DOMAIN c /\ c.exit \in Exits
<1>1. CASE c \in ExpressionCall
  BY <1>1 DEF ExpressionCall
<1>2. CASE c \in StatementCall
  BY <1>2 DEF StatementCall
<1>3. CASE c \in ClosingCall
  BY <1>3 DEF ClosingCall
<1>4. CASE c \in BeginFunction \cup EndFunction \cup Define \cup Outermost
  BY <1>4 DEF BeginFunction, EndFunction, Define, Outermost
<1> QED
  BY <1>1, <1>2, <1>3, <1>4 DEF CallType

(* A call keeps a jump of the function waiting, unless it is the one to patch it. *)
LEMMA GoesWaiting ==
  ASSUME NEW fs, NEW p, NEW c \in CallType, NEW q, Goes(fs, p, c, q),
         p.levels \in Seq(LevelType), p.levels # <<>>, NEW e \in p.open, e.fun = Top(p).fun
  PROVE  /\ c.do # "end_function"
         /\ \/ AsUint16(e.at) \in Patches(c)
            \/ /\ q.levels \in Seq(LevelType) /\ q.levels # <<>>
               /\ e \in q.open /\ Top(q).fun = e.fun
<1> DEFINE n == Len(p.levels)
           kept == q.levels \in Seq(LevelType) /\ q.levels # <<>> /\ Top(q).fun = Top(p).fun
           patched == AsUint16(e.at) \in Patches(c)
<1>0. n \in Nat /\ n \in DOMAIN p.levels /\ Top(p) \in LevelType /\ Top(p) = p.levels[n]
  BY SeqFacts DEF Top
<1>1. c.do # "end_function"
  BY DEF Goes, GoesEndFunction, Empty
<1>2. q.levels = p.levels => kept
  BY DEF Top
<1>3. ASSUME NEW l \in LevelType, l.fun = Top(p).fun, q.levels = [p.levels EXCEPT ![n] = l] PROVE kept
  <2>1. q.levels \in Seq(LevelType) /\ Len(q.levels) = n /\ q.levels[n] = l
    BY <1>0, <1>3
  <2> QED
    BY <1>0, <1>3, <2>1 DEF Top
<1>4. ASSUME NEW open, NEW temps, NEW later, Leaves(p, open, temps, c.jump, later), e \in open, "jump" \in DOMAIN c
      PROVE  e \in later \/ patched
  <2>1. PICK d \in open : AsUint16(d.at) = c.jump /\ later = open \ {d}
    BY <1>4 DEF Leaves
  <2>2. c.jump \in Patches(c)
    BY <1>4 DEF Patches
  <2> QED
    BY <1>4, <2>1, <2>2
<1>5. ASSUME NEW open, NEW later, LeavesBy(p, open, c.exit, later), e \in open, "exit" \in DOMAIN c,
             c.exit # <<>> => 1 \in DOMAIN c.exit
      PROVE  e \in later \/ patched
  <2>1. CASE c.exit = <<>>
    BY <1>5, <2>1 DEF LeavesBy
  <2>2. CASE c.exit # <<>>
    <3>1. PICK d \in open : AsUint16(d.at) = c.exit[1] /\ later = open \ {d}
      BY <1>5, <2>2 DEF LeavesBy, Leaves
    <3>2. c.exit[1] \in Range(c.exit)
      BY <1>5, <2>2 DEF Range
    <3>3. c.exit[1] \in Patches(c)
      BY <1>5, <3>2 DEF Patches
    <3> QED
      BY <1>5, <3>1, <3>3
  <2> QED
    BY <2>1, <2>2
<1>6. /\ c.do \in {"patch_jump", "if_else", "for_resume"} => "jump" \in DOMAIN c
      /\ c.do \in {"end_loop", "for_increment", "for_body", "for_resume"} =>
           "exit" \in DOMAIN c /\ (c.exit # <<>> => 1 \in DOMAIN c.exit)
  BY CallFields DEF Exits
<1>7. Ends(p, q) => kept
  <2> DEFINE l == Level(Top(p).fun, Top(p).depth - 1, FALSE)
  <2>1. Ends(p, q) => l \in LevelType /\ l.fun = Top(p).fun /\ q.levels = [p.levels EXCEPT ![n] = l]
    BY <1>0 DEF Ends, Level, LevelType
  <2> HIDE DEF l, kept
  <2> QED
    BY <1>3, <2>1
<1>8. DefinesLast(p, q) => kept
  <2> DEFINE l == Level(Top(p).fun, Top(p).depth, FALSE)
  <2>1. l \in LevelType /\ l.fun = Top(p).fun /\ Defined(p) = [p.levels EXCEPT ![n] = l]
    BY <1>0 DEF Defined, Level, LevelType
  <2> HIDE DEF l, kept
  <2> QED
    BY <1>2, <1>3, <2>1 DEF DefinesLast
<1> DEFINE goal == patched \/ (kept /\ e \in q.open)
<1> SUFFICES goal
  BY <1>1
<1>9. CASE c.do \in ExpressionName \cup {"synchronize"}
  <2>1. GoesExpression(fs, p, c, q)
    BY <1>9 DEF Goes
  <2>2. CASE c.do = "patch_jump"
    <3>1. q.levels = p.levels /\ Leaves(p, p.open, p.temps, c.jump, q.open)
      BY <2>1, <2>2 DEF GoesExpression
    <3> HIDE DEF kept, patched
    <3> QED
      BY <1>2, <1>4, <1>6, <2>2, <3>1
  <2>3. CASE c.do # "patch_jump"
    <3>1. q.levels = p.levels /\ q.open = p.open
      BY <2>1, <2>3 DEF GoesExpression, Steady
    <3> HIDE DEF kept, patched
    <3> QED
      BY <1>2, <3>1
  <2> QED
    BY <2>2, <2>3
<1>10. CASE c.do \in (StatementName \ {"synchronize"}) \cup {"function_declaration", "define_variable"}
  <2>1. GoesStatement(fs, p, c, q)
    BY <1>10 DEF Goes
  <2>2. kept
    <3>1. (c.do # "define_variable" => q.levels = p.levels) /\ (c.do = "define_variable" => DefinesLast(p, q))
      BY <2>1 DEF GoesStatement
    <3> HIDE DEF kept
    <3> QED
      BY <1>2, <1>8, <3>1
  <2>3. \/ q.open = p.open
        \/ c.do = "if_else" /\ Leaves(p, p.open, 1, c.jump, q.open)
        \/ c.do = "end_loop" /\ LeavesBy(p, p.open, c.exit, q.open)
    BY <1>10, <2>1 DEF GoesStatement, SteadyStatement, Declaring, StatementName
  <2>4. e \in q.open \/ patched
    <3> HIDE DEF patched
    <3> QED
      BY <1>4, <1>5, <1>6, <2>3
  <2> HIDE DEF kept, patched
  <2> QED
    BY <2>2, <2>4
<1>11. CASE c.do \in ClosingName
  <2>1. GoesClosing(p, c, q)
    BY <1>11 DEF Goes
  <2>2. kept
    BY <1>7, <2>1 DEF GoesClosing
  <2>3. \/ q.open = p.open
        \/ c.do \in {"for_increment", "for_body"} /\ LeavesBy(p, p.open, c.exit, q.open)
        \/ /\ c.do = "for_resume"
           /\ \E open : Leaves(p, p.open, 0, c.jump, open) /\ LeavesBy(p, open, c.exit, q.open)
    BY <1>11, <2>1 DEF GoesClosing, ClosingName
  <2>4. e \in q.open \/ patched
    <3>1. CASE c.do = "for_resume" /\ \E open : Leaves(p, p.open, 0, c.jump, open) /\ LeavesBy(p, open, c.exit, q.open)
      <4>1. PICK open : Leaves(p, p.open, 0, c.jump, open) /\ LeavesBy(p, open, c.exit, q.open)
        BY <3>1
      <4> HIDE DEF patched
      <4>2. e \in open \/ patched
        BY <1>4, <1>6, <3>1, <4>1
      <4> QED
        BY <1>5, <1>6, <3>1, <4>1, <4>2
    <3> HIDE DEF patched
    <3> QED
      BY <1>5, <1>6, <2>3, <3>1
  <2> HIDE DEF kept, patched
  <2> QED
    BY <2>2, <2>4
<1>12. c.do \notin {"compile", "end_compiler"}
  BY DEF Goes
<1>13. \/ c.do \in ExpressionName \cup {"synchronize"}
       \/ c.do \in (StatementName \ {"synchronize"}) \cup {"function_declaration", "define_variable"}
       \/ c.do \in ClosingName
  BY <1>1, <1>12, NameFacts DEF CallType
<1> HIDE DEF goal
<1> QED
  BY <1>9, <1>10, <1>11, <1>13

(* A jump of the innermost function that waits is one that a call of that function will patch. *)
LEMMA FitsWaiting ==
  ASSUME NEW fs, NEW p, NEW w \in Seq(CallType), Fits(fs, p, w),
         p.levels \in Seq(LevelType), p.levels # <<>>, NEW e \in p.open, e.fun = Top(p).fun
  PROVE  \E i \in DOMAIN w : /\ AsUint16(e.at) \in Patches(w[i])
                             /\ \A j \in 1 .. i : w[j].do # "end_function"
<1>1. PICK plan : /\ w # <<>> /\ plan[1] = p
                  /\ \A i \in 1 .. Len(w) - 1 : Goes(fs, plan[i], w[i], plan[i + 1])
                  /\ Final(plan[Len(w)])
  BY DEF Fits
<1> DEFINE n == Len(w)
           Held(i) == /\ plan[i].levels \in Seq(LevelType) /\ plan[i].levels # <<>>
                      /\ e \in plan[i].open /\ Top(plan[i]).fun = e.fun
                      /\ \A j \in 1 .. i - 1 : w[j].do # "end_function"
           Awaited == \E i \in DOMAIN w : /\ AsUint16(e.at) \in Patches(w[i])
                                          /\ \A j \in 1 .. i : w[j].do # "end_function"
           S == {i \in Nat : i + 1 <= n => Awaited \/ Held(i + 1)}
<1>2. n \in Nat /\ n >= 1 /\ DOMAIN w = 1 .. n
  BY <1>1, SeqFacts
<1>3. 0 \in S
  BY <1>1
<1>4. ASSUME NEW i \in Nat, i \in S PROVE i + 1 \in S
  <2> SUFFICES ASSUME (i + 1) + 1 <= n, ~Awaited PROVE Held((i + 1) + 1)
    OBVIOUS
  <2> DEFINE k == i + 1
  <2>1. Held(k) /\ k \in 1 .. n - 1 /\ k \in DOMAIN w
    BY <1>2, <1>4
  <2>2. Goes(fs, plan[k], w[k], plan[k + 1]) /\ w[k] \in CallType
    BY <1>1, <2>1
  <2> HIDE DEF k, Awaited
  <2>3. /\ w[k].do # "end_function"
        /\ \/ AsUint16(e.at) \in Patches(w[k])
           \/ /\ plan[k + 1].levels \in Seq(LevelType) /\ plan[k + 1].levels # <<>>
              /\ e \in plan[k + 1].open /\ Top(plan[k + 1]).fun = e.fun
    <3> DEFINE r == plan[k]
               q == plan[k + 1]
               c == w[k]
    <3>1. /\ Goes(fs, r, c, q) /\ c \in CallType
          /\ r.levels \in Seq(LevelType) /\ r.levels # <<>> /\ e \in r.open /\ e.fun = Top(r).fun
      BY <2>1, <2>2
    <3> HIDE DEF r, q, c
    <3>2. /\ c.do # "end_function"
          /\ \/ AsUint16(e.at) \in Patches(c)
             \/ /\ q.levels \in Seq(LevelType) /\ q.levels # <<>>
                /\ e \in q.open /\ Top(q).fun = e.fun
      BY <3>1, GoesWaiting
    <3> QED
      BY <3>2 DEF r, q, c
  <2>4. \A j \in 1 .. k : w[j].do # "end_function"
    BY <2>1, <2>3
  <2>5. AsUint16(e.at) \notin Patches(w[k])
    BY <2>1, <2>4 DEF Awaited
  <2>6. (k + 1) - 1 = k
    BY <2>1
  <2> QED
    BY <2>3, <2>4, <2>5, <2>6 DEF k
<1>5. n - 1 \in S
  <2>1. Nat \subseteq S
    <3> HIDE DEF S
    <3> QED
      BY <1>3, <1>4, Induction
  <2> HIDE DEF S
  <2> QED
    BY <1>2, <2>1
<1>6. Awaited \/ Held(n)
  <2>1. (n - 1) + 1 = n /\ n <= n
    BY <1>2
  <2> HIDE DEF Held, Awaited, n
  <2> QED
    BY <1>5, <2>1
<1>7. plan[n].open = {}
  BY <1>1 DEF Final
<1> QED
  BY <1>6, <1>7

(* Where a declaration is next, only locals are on the stack. *)
LEMMA DeclarationStands ==
  ASSUME IInv, VInv, work # <<>>, errors = {}, Head(work).do = "declaration"
  PROVE  \E p : /\ Typed(Now, p) /\ Fits(functions, p, work) /\ p.temps = 0
                /\ Waits(This(Now)) = FALSE
<1> DEFINE c == Head(work)
           s == Popped
           w == Tail(work)
<1>1. Ok(Now) /\ Verifying(Now)
  BY DEF IInv, VInv
<1>2. Ready(s, c)
  BY <1>1, PoppedFacts
<1>3. s.functions = functions /\ s.compilers = compilers /\ s.errors = errors /\ s.work = w
  BY DEF Popped
<1>4. /\ Now.functions = functions /\ Now.compilers = compilers /\ Now.errors = errors /\ Now.work = work
      /\ work \in Seq(CallType)
  <2>1. Base(Now)
    BY <1>1 DEF Ok
  <2>2. Now.work \in Seq(CallType)
    BY <2>1, BaseFacts DEF IsState
  <2> QED
    BY <2>2, NowFacts
<1>5. c \in CallType /\ w \in Seq(CallType) /\ work = <<c>> \o w
  BY <1>4
<1>6. c.do = "declaration"
  OBVIOUS
<1>7. PICK p : Typed(Now, p) /\ Fits(functions, p, work)
  BY <1>1, <1>4 DEF Verifying
<1> HIDE DEF c, s, w
<1>8. PICK q : Goes(functions, p, c, q) /\ Fits(functions, q, w)
  <2>1. Fits(functions, p, <<c>> \o w)
    BY <1>5, <1>7
  <2> QED
    BY <1>5, <1>6, <2>1, FitsTail
<1>9. Typed(s, p)
  BY <1>3, <1>4, <1>7 DEF Typed
<1>10. Stands(s, c, p, q)
  BY <1>2, <1>3, <1>8, <1>9 DEF Stands
<1>11. Top(p).waits = FALSE
  BY <1>6, <1>10, StandsSettled DEF StatementName
<1>12. p.temps = 0
  BY <1>6, <1>8, GoesDeclaring DEF Declaring
<1>13. Top(p) = LevelOf(This(Now))
  BY <1>1, <1>7, TopRow DEF Ok
<1>14. LevelOf(This(Now)).waits = Waits(This(Now))
  BY DEF LevelOf, Level
<1> QED
  BY <1>7, <1>11, <1>12, <1>13, <1>14

(* The jumps that the plan of the state has in the innermost function are those that wait. *)
LEMMA PendingWaits ==
  ASSUME Base(Now), NEW p, Typed(Now, p), Fits(functions, p, work), NEW y, NEW on, NEW temps,
         FrameOk(functions, This(Now).function, This(Now).locals, y, on, temps, p.open, p.marks)
  PROVE  Pending(p.open, This(Now).function) \subseteq Unpatched(functions[This(Now).function])
<1> DEFINE f == This(Now).function
           n == Len(functions[f].code)
<1> SUFFICES ASSUME NEW a \in Pending(p.open, f) PROVE a \in Unpatched(functions[f])
  OBVIOUS
<1>1. PICK e \in p.open : e.fun = f /\ e.at = a
  BY DEF Pending
<1>2. f = Top(p).fun /\ p.levels = Levels(compilers) /\ Len(p.levels) = Len(compilers)
  BY TopRow, NowFacts DEF PlanOk
<1>3. p.levels \in Seq(LevelType) /\ p.levels # <<>> /\ work \in Seq(CallType)
  <2>1. Levels(compilers) \in Seq(LevelType) /\ Len(Levels(compilers)) = Len(compilers)
    BY LevelsType, NowFacts
  <2>2. Len(compilers) # 0
    BY BaseChain, NowFacts
  <2>3. work \in Seq(CallType)
    BY BaseFacts, NowFacts DEF IsState
  <2> QED
    BY <1>2, <2>1, <2>2, <2>3
<1>4. a \in 0 .. n /\ a # n /\ n \in Nat
  <2>1. IsProgram(functions) /\ f \in DOMAIN functions
    BY BaseProgramOf, BaseChain, NowFacts
  <2>2. n \in Nat
    BY <2>1, ProgramFacts
  <2> QED
    BY <1>1, <2>2 DEF FrameOk, Marked, IsSheet
<1> HIDE DEF f
<1>5. PICK i \in DOMAIN work : /\ AsUint16(e.at) \in Patches(work[i])
                               /\ \A j \in 1 .. i : work[j].do # "end_function"
  BY <1>1, <1>2, <1>3, FitsWaiting
<1>6. a \in 0 .. n - 1
  BY <1>4
<1> QED
  BY <1>1, <1>5, <1>6 DEF Unpatched

(* The invariant says that only the locals are on the stack. *)
LEMMA MirrorsNow == IInv /\ VInv => LocalsMirrorStack
<1> DEFINE me == compilers[Len(compilers)]
           f  == functions[me.function]
<1> SUFFICES ASSUME IInv, VInv, work # <<>>, errors = {}, Head(work).do = "declaration",
                    NEW r \in FlowSoFar(functions, f, Unpatched(f)), r[1] = Len(f.code)
             PROVE  /\ r[2] = Len(me.locals)
                    /\ r[3] \subseteq {i \in 1 .. r[2] - 1 : me.locals[i + 1].is_captured}
  BY DEF LocalsMirrorStack, Done
<1>1. PICK p : Typed(Now, p) /\ Fits(functions, p, work) /\ p.temps = 0 /\ Waits(This(Now)) = FALSE
  BY DeclarationStands
<1>2. Base(Now)
  BY DEF IInv, Ok
<1>3. This(Now) = me /\ Now.functions = functions /\ Now.compilers = compilers
  BY NowFacts
<1> HIDE DEF me, f
<1>4. /\ IsProgram(functions) /\ me.function \in DOMAIN functions /\ f = functions[me.function]
      /\ Len(me.locals) \in Nat
  BY <1>2, <1>3, BaseProgramOf, BaseChain, OwnFacts DEF f
<1>5. PICK y : FrameOk(functions, me.function, me.locals, y, OnStack(me, TRUE), 0, p.open, p.marks)
  BY <1>1, <1>2, <1>3, TopRow DEF Row
<1>6. OnStack(me, TRUE) = Len(me.locals)
  BY <1>1, <1>3 DEF OnStack, Waits
<1>7. Pending(p.open, me.function) \subseteq Unpatched(f)
  BY <1>1, <1>2, <1>3, <1>4, <1>5, PendingWaits
<1>8. r[2] = Len(me.locals) + 0 /\ r[3] \subseteq Caught(me.locals, Len(me.locals)) \ {0}
  <2> DEFINE i      == me.function
             locals == me.locals
             on     == Len(locals)
             waits  == Unpatched(f)
  <2>1. FrameOk(functions, i, locals, y, on, 0, p.open, p.marks)
    BY <1>5, <1>6
  <2>2. r \in FlowSoFar(functions, functions[i], waits) /\ r[1] = Len(functions[i].code)
    BY <1>4
  <2>3. IsProgram(functions) /\ i \in DOMAIN functions /\ on \in Nat /\ Len(locals) \in Nat
        /\ Pending(p.open, i) \subseteq waits
    BY <1>4, <1>7
  <2> HIDE DEF i, locals, on, waits
  <2>4. r[2] = on + 0 /\ r[3] \subseteq Caught(locals, on) \ {0}
    BY <2>1, <2>2, <2>3, FrameWalk DEF locals
  <2> QED
    BY <2>4 DEF i, locals, on, waits
<1> QED
  BY <1>4, <1>8 DEF Caught

(* At the beginning of every statement the code leaves the locals on the stack, each at its index. *)
THEOREM LocalsOnStack == Spec => []LocalsMirrorStack
<1>1. Init => IInv /\ VInv
  BY InitOk, InitCode
<1>2. IInv /\ VInv /\ [Next]_vars => IInv' /\ VInv'
  BY NextOk, NextCode
<1>3. IInv /\ VInv => LocalsMirrorStack
  BY MirrorsNow
<1> QED
  BY <1>1, <1>2, <1>3, PTL DEF Spec
=============================================================================
