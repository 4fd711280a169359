----------------------------- MODULE CodeTyping -----------------------------
(***************************************************************************)
(* What the procedures of Compiler do to the code they write.  A plan says *)
(* what a call finds: for each compiler its function, its scope and        *)
(* whether a variable waits for its value; the jumps that wait to be       *)
(* patched; the addresses to jump back to; how many values are on the      *)
(* stack.  A state is Typed by a plan if the functions have frames to      *)
(* match it, and each kind of call takes one plan to another: the calls    *)
(* that wait in `work' fit if they lead from the plan of the state to the  *)
(* end of the text.                                                        *)
(*                                                                         *)
(* Here are the plans, the writing of code, jumps, constants and upvalues, *)
(* and the calls of expressions, of statements and of scopes.              *)
(***************************************************************************)
EXTENDS CompilerProofs, CodeFrames

-----------------------------------------------------------------------------
(* What the calls that wait expect of the stack, of jumps and of scopes. *)

(* The constant at index i of function f is a string. *)
IsString(fs, f, i) ==
  f \in DOMAIN fs /\ i + 1 \in DOMAIN fs[f].constants /\ IsStr(fs[f].constants[i + 1])

(* Functions may have been added, and gained constants and upvalues. *)
More(fs, gs) == DOMAIN fs \subseteq DOMAIN gs /\ \A f \in DOMAIN fs : Extends(fs[f], gs[f])

(***************************************************************************)
(* What a call finds: for each compiler its function, the depth of its     *)
(* scope and whether a variable is declared and not yet defined; the jumps *)
(* that wait to be patched; the addresses to jump back to; and how many    *)
(* values are on the stack above the locals.  While a function is fresh it *)
(* has no code.                                                            *)
(***************************************************************************)
Plan(levels, open, marks, temps, fresh) ==
  [levels |-> levels, open |-> open, marks |-> marks, temps |-> temps, fresh |-> fresh]

With(p, open, marks, temps) == Plan(p.levels, open, marks, temps, FALSE)

Level(fun, depth, waits) == [fun |-> fun, depth |-> depth, waits |-> waits]

Top(p) == p.levels[Len(p.levels)]

(* The innermost variable is defined. *)
Defined(p) == [p.levels EXCEPT ![Len(p.levels)] = Level(Top(p).fun, Top(p).depth, FALSE)]

(* The entry is of the innermost scope. *)
Here(p, e) == e.fun = Top(p).fun /\ e.depth = Top(p).depth

(* None of the entries is. *)
Clear(p, entries) == \A e \in entries : ~Here(p, e)

(* None is even of the innermost function. *)
Empty(p, entries) == \A e \in entries : e.fun # Top(p).fun

Steady(p, q) == q.levels = p.levels /\ q.open = p.open

(* Of the jumps that wait, one is patched and others stay. *)
Leaves(p, open, temps, jump, later) ==
  \E e \in open : Here(p, e) /\ e.temps = temps /\ AsUint16(e.at) = jump /\ later = open \ {e}

(* The jump out of a loop, if there is one. *)
LeavesBy(p, open, exit, later) == IF exit = <<>> THEN later = open ELSE Leaves(p, open, 1, exit[1], later)

(* There is an address to jump back to. *)
LoopsTo(p, start) ==
  \E e \in p.marks : Here(p, e) /\ e.at # -1 /\ e.temps = 0 /\ start \in {e.at, AsUint16(e.at)}

(* The innermost scope is left. *)
Ends(p, q) ==
  /\ Top(p).depth >= 1
  /\ q.levels = [p.levels EXCEPT ![Len(p.levels)] = Level(Top(p).fun, Top(p).depth - 1, FALSE)]
  /\ q.temps = 0
  /\ Clear(p, q.open) /\ Clear(p, q.marks)

-----------------------------------------------------------------------------
(* What each call does. *)

UnaryOps  == {"OP_NOT", "OP_NEGATE"}
BinaryOps == {"OP_EQUAL", "OP_GREATER", "OP_LESS", "OP_ADD", "OP_SUBTRACT", "OP_MULTIPLY", "OP_DIVIDE"}

Emits(fs, p, bytes, q) ==
  \/ /\ \E op \in UnaryOps : bytes = <<Code[op]>>
     /\ p.temps >= 1 /\ q.temps = p.temps
  \/ /\ \E op \in BinaryOps : bytes \in {<<Code[op]>>, <<Code[op], Code["OP_NOT"]>>}
     /\ p.temps >= 2 /\ q.temps = p.temps - 1
  \/ /\ \E op \in {"OP_POP", "OP_PRINT"} : bytes = <<Code[op]>>
     /\ p.temps >= 1 /\ q.temps = p.temps - 1
  \/ /\ bytes = <<Code["OP_RETURN"]>>
     /\ p.temps = 1 /\ q.temps = 0 /\ Top(p).fun # 1
  \/ /\ \E e \in p.marks : Here(p, e) /\ \E i \in 1 .. e.locals - 1 : bytes = <<Code["OP_SET_LOCAL"], i>>
     /\ p.temps >= 1 /\ q.temps = p.temps
  \/ /\ \E i \in Nat : IsString(fs, Top(p).fun, i) /\ bytes = <<Code["OP_SET_GLOBAL"], i>>
     /\ p.temps >= 1 /\ q.temps = p.temps
  \/ /\ Top(p).fun \in DOMAIN fs
     /\ \E i \in Nat : i < fs[Top(p).fun].upvalue_count /\ bytes = <<Code["OP_SET_UPVALUE"], i>>
     /\ p.temps >= 1 /\ q.temps = p.temps

GoesExpression(fs, p, c, q) ==
  /\ c.do \in {"consume", "synchronize"} => q.temps = p.temps
  /\ c.do = "parse_precedence" => q.temps = p.temps + 1
  /\ c.do = "infix" => p.temps >= 1 /\ q.temps = p.temps
  /\ c.do \in {"argument", "next_argument", "end_call"} =>
       p.temps >= c.count + 1 /\ q.temps = p.temps - c.count
  /\ c.do = "emit" => Emits(fs, p, c.bytes, q)
  /\ IF c.do = "patch_jump"
     THEN q.levels = p.levels /\ q.temps = p.temps /\ Leaves(p, p.open, p.temps, c.jump, q.open)
     ELSE Steady(p, q)

(* A variable of a scope is defined; a global is none of the locals. *)
DefinesLast(p, q) ==
  IF Top(p).depth > 0 THEN Top(p).waits /\ q.levels = Defined(p) ELSE q.levels = p.levels

SteadyStatement == {"statement", "expression_statement", "return_statement", "for_statement"}
Declaring == {"declaration", "var_declaration", "function_declaration", "block", "function_body", "parameter"}

GoesStatement(fs, p, c, q) ==
  /\ c.do # "define_variable" => q.levels = p.levels
  /\ c.do = "define_variable" => DefinesLast(p, q)
  /\ q.temps = 0
  /\ p.temps = IF c.do \in {"if_then", "while_body", "define_variable"} THEN 1 ELSE 0
  /\ c.do \in SteadyStatement \cup {"if_then"} => q.open = p.open
  /\ c.do \in Declaring \cup {"define_variable"} => q.open = p.open /\ Clear(p, p.open) /\ Clear(p, q.marks)
  /\ c.do = "define_variable" /\ Top(p).depth = 0 => IsString(fs, Top(p).fun, c.index)
  /\ c.do = "parameter" => /\ p.fresh /\ Len(p.levels) >= 2 /\ Top(p).depth >= 1
                            /\ Empty(p, p.open) /\ Empty(p, q.marks)
  /\ c.do = "if_else" => Leaves(p, p.open, 1, c.jump, q.open)
  /\ c.do = "while_body" => q.open = p.open /\ LoopsTo(p, c.start)
  /\ c.do = "end_loop" => LoopsTo(p, c.start) /\ LeavesBy(p, p.open, c.exit, q.open)

GoesClosing(p, c, q) ==
  /\ Ends(p, q)
  /\ p.temps = IF c.do = "for_exit" THEN 1 ELSE 0
  /\ c.do \in {"end_scope", "for_condition", "for_exit"} => q.open = p.open
  /\ c.do = "for_exit" => LoopsTo(p, c.start)
  /\ c.do \in {"for_increment", "for_body"} => LoopsTo(p, c.start) /\ LeavesBy(p, p.open, c.exit, q.open)
  /\ c.do = "for_resume" =>
       /\ LoopsTo(p, c.start) /\ LoopsTo(p, c.increment)
       /\ \E open : Leaves(p, p.open, 0, c.jump, open) /\ LeavesBy(p, open, c.exit, q.open)

GoesEndFunction(fs, p, c, q) ==
  /\ Len(p.levels) >= 2 /\ q.levels = Front(p.levels)
  /\ p.temps = 0 /\ q.temps = 0
  /\ q.open = p.open /\ Empty(p, q.open) /\ Empty(p, q.marks)
  /\ Top(q).depth = 0 => IsString(fs, Top(q).fun, c.index)

(* The call c takes p to q. *)
Goes(fs, p, c, q) ==
  /\ q.marks \subseteq p.marks /\ q.fresh = FALSE
  /\ c.do \notin {"compile", "end_compiler"}
  /\ c.do \in ExpressionName \cup {"synchronize"} => GoesExpression(fs, p, c, q)
  /\ c.do \in (StatementName \ {"synchronize"}) \cup {"function_declaration", "define_variable"} =>
       GoesStatement(fs, p, c, q)
  /\ c.do \in ClosingName => GoesClosing(p, c, q)
  /\ c.do = "end_function" => GoesEndFunction(fs, p, c, q)

(* What compile and end_compiler find. *)
Final(p) == Len(p.levels) = 1 /\ Top(p).depth = 0 /\ p.open = {} /\ p.temps = 0

(* The calls that wait are right for p. *)
Fits(fs, p, w) ==
  \E plan : /\ w # <<>> /\ plan[1] = p
            /\ \A i \in 1 .. Len(w) - 1 : Goes(fs, plan[i], w[i], plan[i + 1])
            /\ w[Len(w)].do \in {"compile", "end_compiler"} /\ Final(plan[Len(w)])

(* The outermost calls are made last. *)
LEMMA FitsLast ==
  ASSUME NEW fs, NEW p, NEW T, NEW w \in Seq(T), Fits(fs, p, w), w[1].do \in {"compile", "end_compiler"}
  PROVE  Len(w) = 1 /\ Final(p)
<1>1. PICK plan : /\ w # <<>> /\ plan[1] = p
                  /\ \A i \in 1 .. Len(w) - 1 : Goes(fs, plan[i], w[i], plan[i + 1])
                  /\ w[Len(w)].do \in {"compile", "end_compiler"} /\ Final(plan[Len(w)])
  BY DEF Fits
<1>2. Len(w) \in Nat /\ Len(w) >= 1
  BY <1>1, SeqFacts
<1>3. CASE Len(w) = 1
  BY <1>1, <1>3
<1>4. CASE Len(w) # 1
  <2> DEFINE n == Len(w)
  <2>0. n \in Nat /\ n >= 1 /\ n # 1
    BY <1>2, <1>4
  <2> HIDE DEF n
  <2>a. 1 \in 1 .. n - 1
    BY ONLY <2>0
  <2>1. 1 \in 1 .. Len(w) - 1
    BY <2>a DEF n
  <2>2. Goes(fs, plan[1], w[1], plan[1 + 1])
    BY <1>1, <2>1
  <2> QED
    BY <2>2 DEF Goes
<1> QED
  BY <1>3, <1>4

(* The next call is made, and the others still fit. *)
LEMMA FitsTail ==
  ASSUME NEW fs, NEW p, NEW T, NEW c, NEW w \in Seq(T), Fits(fs, p, <<c>> \o w), c \in T,
         c.do \notin {"compile", "end_compiler"}
  PROVE  w # <<>> /\ \E q : Goes(fs, p, c, q) /\ Fits(fs, q, w)
<1> DEFINE v == <<c>> \o w
<1>1. PICK plan : /\ v # <<>> /\ plan[1] = p
                  /\ \A i \in 1 .. Len(v) - 1 : Goes(fs, plan[i], v[i], plan[i + 1])
                  /\ v[Len(v)].do \in {"compile", "end_compiler"} /\ Final(plan[Len(v)])
  BY DEF Fits
<1>2. /\ Len(v) = 1 + Len(w) /\ v[1] = c /\ \A i \in 1 .. Len(w) : v[i + 1] = w[i]
      /\ Len(w) \in Nat
  OBVIOUS
<1> HIDE DEF v
<1>3. Len(w) >= 1 /\ w # <<>>
  <2>1. CASE Len(w) = 0
    BY <1>1, <1>2, <2>1
  <2> QED
    BY <2>1, <1>2
<1> DEFINE later == [i \in 1 .. Len(w) |-> plan[i + 1]]
<1>4. Goes(fs, plan[1], v[1], plan[1 + 1])
  <2>1. 1 \in 1 .. Len(v) - 1
    BY <1>2, <1>3
  <2> QED
    BY <1>1, <2>1
<1>5. Goes(fs, p, c, later[1])
  BY <1>1, <1>2, <1>3, <1>4
<1>6. \A i \in 1 .. Len(w) - 1 : Goes(fs, later[i], w[i], later[i + 1])
  <2> SUFFICES ASSUME NEW i \in 1 .. Len(w) - 1 PROVE Goes(fs, later[i], w[i], later[i + 1])
    OBVIOUS
  <2>1. i + 1 \in 1 .. Len(v) - 1 /\ i \in 1 .. Len(w) /\ i + 1 \in 1 .. Len(w)
    BY <1>2
  <2>2. Goes(fs, plan[i + 1], v[i + 1], plan[(i + 1) + 1])
    BY <1>1, <2>1
  <2> QED
    BY <2>1, <2>2, <1>2
<1>7. w[Len(w)].do \in {"compile", "end_compiler"} /\ Final(later[Len(w)])
  <2>1. Len(w) \in 1 .. Len(w) /\ Len(v) = Len(w) + 1
    BY <1>2, <1>3
  <2> QED
    BY <1>1, <1>2, <2>1
<1>8. Fits(fs, later[1], w)
  <2> HIDE DEF later
  <2> QED
    BY <1>3, <1>6, <1>7 DEF Fits
<1> QED
  BY <1>3, <1>5, <1>8

(* Another call is put in front of those that fit. *)
LEMMA FitsCons ==
  ASSUME NEW fs, NEW p, NEW T, NEW c, NEW q, NEW w \in Seq(T), Goes(fs, p, c, q), Fits(fs, q, w), c \in T
  PROVE  Fits(fs, p, <<c>> \o w)
<1> DEFINE v == <<c>> \o w
<1>1. PICK plan : /\ w # <<>> /\ plan[1] = q
                  /\ \A i \in 1 .. Len(w) - 1 : Goes(fs, plan[i], w[i], plan[i + 1])
                  /\ w[Len(w)].do \in {"compile", "end_compiler"} /\ Final(plan[Len(w)])
  BY DEF Fits
<1>2. /\ Len(v) = 1 + Len(w) /\ v[1] = c /\ \A i \in 1 .. Len(w) : v[i + 1] = w[i]
      /\ Len(w) \in Nat /\ Len(w) >= 1
  BY <1>1
<1> HIDE DEF v
<1> DEFINE all == [i \in 1 .. Len(v) |-> IF i = 1 THEN p ELSE plan[i - 1]]
<1>3. all[1] = p /\ \A i \in 1 .. Len(w) : all[i + 1] = plan[i]
  BY <1>2
<1> HIDE DEF all
<1>4. \A i \in 1 .. Len(v) - 1 : Goes(fs, all[i], v[i], all[i + 1])
  <2> SUFFICES ASSUME NEW i \in 1 .. Len(v) - 1 PROVE Goes(fs, all[i], v[i], all[i + 1])
    OBVIOUS
  <2>1. CASE i = 1
    <3>1. all[1 + 1] = q
      BY <1>1, <1>2, <1>3
    <3> QED
      BY <1>2, <1>3, <2>1, <3>1
  <2>2. CASE i # 1
    <3>1. i - 1 \in 1 .. Len(w) - 1 /\ i - 1 \in 1 .. Len(w) /\ i \in 1 .. Len(w) /\ (i - 1) + 1 = i
      BY <1>2, <2>2
    <3>2. Goes(fs, plan[i - 1], w[i - 1], plan[(i - 1) + 1])
      BY <1>1, <3>1
    <3>3. all[i] = plan[i - 1] /\ all[i + 1] = plan[i] /\ v[i] = w[i - 1]
      BY <1>2, <1>3, <3>1
    <3> QED
      BY <3>1, <3>2, <3>3
  <2> QED
    BY <2>1, <2>2
<1>5. v[Len(v)].do \in {"compile", "end_compiler"} /\ Final(all[Len(v)])
  <2>1. Len(w) \in 1 .. Len(w) /\ Len(v) = Len(w) + 1
    BY <1>2
  <2> QED
    BY <1>1, <1>2, <1>3, <2>1
<1>6. v # <<>>
  BY <1>2, EmptyFacts
<1>7. Fits(fs, p, v)
  BY <1>3, <1>4, <1>5, <1>6 DEF Fits
<1> QED
  BY <1>7 DEF v

(* Strings among the constants stay where they are, *)
LEMMA IsStringGrows ==
  ASSUME NEW fs, NEW gs, IsProgram(fs), IsProgram(gs), More(fs, gs)
  PROVE  \A f, i : IsString(fs, f, i) => IsString(gs, f, i)
<1> SUFFICES ASSUME NEW f, NEW i, IsString(fs, f, i) PROVE IsString(gs, f, i)
  OBVIOUS
<1>1. f \in DOMAIN fs /\ i + 1 \in DOMAIN fs[f].constants /\ IsStr(fs[f].constants[i + 1])
  BY DEF IsString
<1>2. f \in DOMAIN gs /\ Extends(fs[f], gs[f])
  BY <1>1 DEF More
<1>3. /\ DOMAIN fs[f].constants = 1 .. Len(fs[f].constants) /\ Len(fs[f].constants) \in Nat
      /\ DOMAIN gs[f].constants = 1 .. Len(gs[f].constants) /\ Len(gs[f].constants) \in Nat
  BY <1>1, <1>2, ProgramFacts
<1>4. i + 1 \in DOMAIN gs[f].constants /\ gs[f].constants[i + 1] = fs[f].constants[i + 1]
  BY <1>1, <1>2, <1>3 DEF Extends
<1> QED
  BY <1>1, <1>2, <1>4 DEF IsString

(* instructions stay possible, *)
LEMMA EmitsGrows ==
  ASSUME NEW fs, NEW gs, IsProgram(fs), IsProgram(gs), More(fs, gs), NEW p, NEW bytes, NEW q,
         Emits(fs, p, bytes, q)
  PROVE  Emits(gs, p, bytes, q)
<1>1. CASE \/ /\ \E op \in UnaryOps : bytes = <<Code[op]>>
              /\ p.temps >= 1 /\ q.temps = p.temps
           \/ /\ \E op \in BinaryOps : bytes \in {<<Code[op]>>, <<Code[op], Code["OP_NOT"]>>}
              /\ p.temps >= 2 /\ q.temps = p.temps - 1
           \/ /\ \E op \in {"OP_POP", "OP_PRINT"} : bytes = <<Code[op]>>
              /\ p.temps >= 1 /\ q.temps = p.temps - 1
           \/ /\ bytes = <<Code["OP_RETURN"]>>
              /\ p.temps = 1 /\ q.temps = 0 /\ Top(p).fun # 1
           \/ /\ \E e \in p.marks : Here(p, e) /\ \E i \in 1 .. e.locals - 1 : bytes = <<Code["OP_SET_LOCAL"], i>>
              /\ p.temps >= 1 /\ q.temps = p.temps
  BY ONLY <1>1 DEF Emits
<1>2. CASE /\ \E i \in Nat : IsString(fs, Top(p).fun, i) /\ bytes = <<Code["OP_SET_GLOBAL"], i>>
           /\ p.temps >= 1 /\ q.temps = p.temps
  <2>1. \E i \in Nat : IsString(gs, Top(p).fun, i) /\ bytes = <<Code["OP_SET_GLOBAL"], i>>
    BY <1>2, IsStringGrows
  <2> QED
    BY ONLY <1>2, <2>1 DEF Emits
<1>3. CASE /\ Top(p).fun \in DOMAIN fs
           /\ \E i \in Nat : i < fs[Top(p).fun].upvalue_count /\ bytes = <<Code["OP_SET_UPVALUE"], i>>
           /\ p.temps >= 1 /\ q.temps = p.temps
  <2> DEFINE f == Top(p).fun
  <2> HIDE DEF f
  <2>0. f \in DOMAIN fs
    BY <1>3 DEF f
  <2>1. f \in DOMAIN gs /\ fs[f].upvalue_count <= gs[f].upvalue_count
    BY <2>0 DEF More, Extends
  <2>2. fs[f].upvalue_count \in Nat /\ gs[f].upvalue_count \in Nat
    BY <2>0, <2>1, ProgramFacts
  <2>3. PICK i \in Nat : i < fs[f].upvalue_count /\ bytes = <<Code["OP_SET_UPVALUE"], i>>
    BY <1>3 DEF f
  <2>4. i < gs[f].upvalue_count
    BY <2>1, <2>2, <2>3
  <2>5. \E j \in Nat : j < gs[f].upvalue_count /\ bytes = <<Code["OP_SET_UPVALUE"], j>>
    BY ONLY <2>3, <2>4
  <2> QED
    BY ONLY <1>3, <2>1, <2>5 DEF Emits, f
<1> QED
  BY <1>1, <1>2, <1>3 DEF Emits

(* What a call does stays possible when functions are added, or gain constants and upvalues. *)
LEMMA GoesGrows ==
  ASSUME NEW fs, NEW gs, IsProgram(fs), IsProgram(gs), More(fs, gs), NEW p, NEW c, NEW q,
         Goes(fs, p, c, q)
  PROVE  Goes(gs, p, c, q)
<1>1. \A f, i : IsString(fs, f, i) => IsString(gs, f, i)
  BY IsStringGrows
<1>2. ASSUME GoesExpression(fs, p, c, q) PROVE GoesExpression(gs, p, c, q)
  <2>1. c.do = "emit" => Emits(gs, p, c.bytes, q)
    BY <1>2, EmitsGrows DEF GoesExpression
  <2> QED
    BY ONLY <1>2, <2>1 DEF GoesExpression
<1>3. ASSUME GoesStatement(fs, p, c, q) PROVE GoesStatement(gs, p, c, q)
  BY ONLY <1>1, <1>3 DEF GoesStatement
<1>4. ASSUME GoesEndFunction(fs, p, c, q) PROVE GoesEndFunction(gs, p, c, q)
  BY ONLY <1>1, <1>4 DEF GoesEndFunction
<1>5. Goes(fs, p, c, q)
  OBVIOUS
<1> QED
  BY ONLY <1>5, <1>2, <1>3, <1>4 DEF Goes

(* Calls that wait still fit then. *)
LEMMA FitsGrows ==
  ASSUME NEW fs, NEW gs, IsProgram(fs), IsProgram(gs), More(fs, gs), NEW p, NEW w, Fits(fs, p, w)
  PROVE  Fits(gs, p, w)
<1>1. PICK plan : /\ w # <<>> /\ plan[1] = p
                  /\ \A i \in 1 .. Len(w) - 1 : Goes(fs, plan[i], w[i], plan[i + 1])
                  /\ w[Len(w)].do \in {"compile", "end_compiler"} /\ Final(plan[Len(w)])
  BY DEF Fits
<1>2. \A i \in 1 .. Len(w) - 1 : Goes(gs, plan[i], w[i], plan[i + 1])
  BY <1>1, GoesGrows
<1> QED
  BY <1>1, <1>2 DEF Fits

(* Functions that are added to, twice. *)
LEMMA MoreTransitive ==
  ASSUME NEW fs, NEW gs, NEW hs, IsProgram(fs), IsProgram(gs), IsProgram(hs), More(fs, gs), More(gs, hs)
  PROVE  More(fs, hs)
<1> SUFFICES ASSUME NEW f \in DOMAIN fs PROVE Extends(fs[f], hs[f])
  BY DEF More
<1>1. f \in DOMAIN gs /\ f \in DOMAIN hs /\ Extends(fs[f], gs[f]) /\ Extends(gs[f], hs[f])
  BY DEF More
<1>2. /\ DOMAIN fs[f].constants = 1 .. Len(fs[f].constants) /\ Len(fs[f].constants) \in Nat
      /\ fs[f].upvalue_count \in Nat
  BY <1>1, ProgramFacts
<1>3. /\ DOMAIN gs[f].constants = 1 .. Len(gs[f].constants) /\ Len(gs[f].constants) \in Nat
      /\ gs[f].upvalue_count \in Nat
  BY <1>1, ProgramFacts
<1>4. Len(hs[f].constants) \in Nat /\ hs[f].upvalue_count \in Nat
  BY <1>1, ProgramFacts
<1> QED
  BY <1>1, <1>2, <1>3, <1>4 DEF Extends

(* A function that gains nothing. *)
LEMMA ExtendsReflexive ==
  ASSUME NEW fs, IsProgram(fs), NEW f \in DOMAIN fs
  PROVE  Extends(fs[f], fs[f])
<1>1. Len(fs[f].constants) \in Nat /\ fs[f].upvalue_count \in Nat
  BY ProgramFacts
<1> QED
  BY <1>1 DEF Extends

(* Functions that gain nothing. *)
LEMMA MoreReflexive ==
  ASSUME NEW fs, IsProgram(fs)
  PROVE  More(fs, fs)
BY ExtendsReflexive DEF More

-----------------------------------------------------------------------------
(* What the code of all functions under compilation does to the stack. *)

(* How many of a compiler's locals are on the stack: neither the one that is declared and not
   ready, nor the one that the function under compilation in the next compiler will be. *)
OnStack(c, top) ==
  IF \/ top /\ c.locals[Len(c.locals)].depth = -1
     \/ ~top /\ c.scope_depth > 0
  THEN Len(c.locals) - 1 ELSE Len(c.locals)

(* The locals that the entry knows of are those of its scope and of those around. *)
CountedBy(c, e) ==
  /\ e.depth <= c.scope_depth /\ e.locals \in 1 .. Len(c.locals)
  /\ \A i \in 1 .. Len(c.locals) : i <= e.locals <=> c.locals[i].depth \in 0 .. e.depth

(* The locals are in the order of their scopes. *)
LocalsOk(c, top) ==
  /\ c.locals[1].name = ""
  /\ ~top /\ c.scope_depth > 0 => c.locals[Len(c.locals)].depth = c.scope_depth
  /\ \A i \in 1 .. Len(c.locals) :
       /\ c.locals[i].ready => c.locals[i].depth # -1
       /\ c.locals[i].depth <= c.scope_depth
       /\ c.locals[i].depth = -1 => top /\ i = Len(c.locals) /\ ~c.locals[i].is_captured
       /\ \A j \in i .. Len(c.locals) :
            c.locals[j].depth # -1 => c.locals[i].depth <= c.locals[j].depth

(* A compiler, with the code of its function. *)
Row(fs, c, top, temps, open, marks) ==
  /\ \E y : FrameOk(fs, c.function, c.locals, y, OnStack(c, top), temps, open, marks)
  /\ LocalsOk(c, top)
  /\ \A e \in open \cup marks : e.fun = c.function => CountedBy(c, e)
  /\ \A i \in DOMAIN c.upvalues : c.upvalues[i].is_local => c.upvalues[i].index >= 1

(* The last of the locals is declared and not yet defined. *)
Waits(c) == c.locals[Len(c.locals)].depth = -1

LevelOf(c) == Level(c.function, c.scope_depth, Waits(c))

Levels(cs) == [k \in DOMAIN cs |-> LevelOf(cs[k])]

(* The functions under compilation. *)
Chain(cs) == {cs[k].function : k \in DOMAIN cs}

(* No constant refers to one of them. *)
Outside(f, chain) == \A j \in DOMAIN f.constants : IsFun(f.constants[j]) => f.constants[j].fun \notin chain

PlanOk(fs, cs, p) ==
  /\ p.levels = Levels(cs)
  /\ p.temps \in Nat /\ p.open \subseteq EntryType /\ p.marks \subseteq EntryType
  /\ \A e \in p.open \cup p.marks : e.fun \in DOMAIN fs
  /\ \A e \in p.marks : e.temps = 0
  /\ p.fresh => fs[cs[Len(cs)].function].code = <<>>

(* The first is the script's. *)
ScriptOk(fs, cs) ==
  cs[1].function = 1 /\ cs[1].upvalues = <<>> /\ fs[1].arity = 0 /\ fs[1].name = "script"

Typing(fs, cs, p) ==
  /\ PlanOk(fs, cs, p)
  /\ \A k \in DOMAIN cs :
       Row(fs, cs[k], k = Len(cs), IF k = Len(cs) THEN p.temps ELSE 0, p.open, p.marks)
  /\ \A f \in DOMAIN fs \ Chain(cs) : Finished(fs, f)
  /\ \A f \in DOMAIN fs : Outside(fs[f], Chain(cs))
  /\ ScriptOk(fs, cs)

(* Compilers that differ in their place in the text, and in what they know of errors. *)
Same(c, d) ==
  /\ d.function = c.function /\ d.scope_depth = c.scope_depth
  /\ d.locals = c.locals /\ d.upvalues = c.upvalues

(* The jumps that wait in a function are the same, and of the addresses none is new. *)
Agree(f, p, q) ==
  /\ \A e \in p.open \cup q.open : e.fun = f => e \in p.open /\ e \in q.open
  /\ \A e \in q.marks : e.fun = f => e \in p.marks

(* A compiler's row stays as it is while the code of its function does. *)
LEMMA RowStays ==
  ASSUME NEW fs, IsProgram(fs), NEW gs, IsProgram(gs), NEW c, NEW d, Same(c, d),
         c.function \in DOMAIN fs, c.function \in DOMAIN gs,
         Extends(fs[c.function], gs[c.function]), SameClosures(fs, gs, c.function),
         gs[c.function].code = fs[c.function].code, gs[c.function].arity = fs[c.function].arity,
         NEW p, NEW q, Agree(c.function, p, q),
         NEW top, NEW temps, Row(fs, c, top, temps, p.open, p.marks)
  PROVE  Row(gs, d, top, temps, q.open, q.marks)
<1>1. d.function = c.function /\ d.scope_depth = c.scope_depth /\ d.locals = c.locals /\ d.upvalues = c.upvalues
  BY DEF Same
<1>2. OnStack(d, top) = OnStack(c, top)
  BY <1>1 DEF OnStack
<1>3. PICK y : FrameOk(fs, c.function, c.locals, y, OnStack(c, top), temps, p.open, p.marks)
  BY DEF Row
<1>4. FrameOk(gs, c.function, c.locals, y, OnStack(c, top), temps, q.open, q.marks)
  <2>1. /\ \A e \in p.open \cup q.open : e.fun = c.function => e \in p.open /\ e \in q.open
        /\ \A e \in q.marks : e.fun = c.function => e \in p.marks
    BY DEF Agree
  <2> QED
    BY <1>3, <2>1, FrameStays
<1>5. \E z : FrameOk(gs, d.function, d.locals, z, OnStack(d, top), temps, q.open, q.marks)
  BY <1>1, <1>2, <1>4
<1>6. LocalsOk(d, top)
  BY <1>1 DEF Row, LocalsOk
<1>7. \A e \in q.open \cup q.marks : e.fun = d.function => CountedBy(d, e)
  <2> SUFFICES ASSUME NEW e \in q.open \cup q.marks, e.fun = d.function PROVE CountedBy(d, e)
    OBVIOUS
  <2>1. e \in p.open \cup p.marks
    BY <1>1 DEF Agree
  <2>2. CountedBy(c, e)
    BY <1>1, <2>1 DEF Row
  <2> QED
    BY <1>1, <2>2 DEF CountedBy
<1>8. \A i \in DOMAIN d.upvalues : d.upvalues[i].is_local => d.upvalues[i].index >= 1
  BY <1>1 DEF Row
<1> QED
  BY <1>5, <1>6, <1>7, <1>8 DEF Row

(* Only the k-th compiler and its function change. *)
Changes(fs, cs, gs, ds, k) ==
  /\ IsProgram(fs) /\ IsProgram(gs) /\ DOMAIN gs = DOMAIN fs
  /\ DOMAIN cs = 1 .. Len(cs) /\ DOMAIN ds = 1 .. Len(cs) /\ Len(ds) = Len(cs) /\ Len(cs) \in Nat \ {0}
  /\ k \in DOMAIN cs
  /\ \A j \in DOMAIN cs : cs[j].function \in DOMAIN fs /\ ds[j].function = cs[j].function
  /\ \A j \in DOMAIN cs \ {k} : cs[j].function # cs[k].function /\ Same(cs[j], ds[j])
  /\ \A g \in DOMAIN fs \ {cs[k].function} : gs[g] = fs[g]
  /\ Extends(fs[cs[k].function], gs[cs[k].function])
  /\ gs[cs[k].function].name = fs[cs[k].function].name

(* When one compiler and its function change, the other rows stay. *)
LEMMA ChangeTyping ==
  ASSUME NEW fs, NEW cs, NEW gs, NEW ds, NEW k, Changes(fs, cs, gs, ds, k),
         NEW p, Typing(fs, cs, p), NEW q, PlanOk(gs, ds, q),
         \A f : f # cs[k].function => Agree(f, p, q),
         k # Len(cs) => q.temps = p.temps,
         Row(gs, ds[k], k = Len(cs), IF k = Len(cs) THEN q.temps ELSE 0, q.open, q.marks),
         Outside(gs[cs[k].function], Chain(cs)),
         k = 1 => ScriptOk(gs, ds)
  PROVE  Typing(gs, ds, q)
<1> DEFINE f == cs[k].function
<1>1. /\ IsProgram(fs) /\ IsProgram(gs) /\ DOMAIN gs = DOMAIN fs
      /\ DOMAIN cs = 1 .. Len(cs) /\ DOMAIN ds = 1 .. Len(cs) /\ Len(ds) = Len(cs) /\ Len(cs) \in Nat \ {0}
      /\ k \in DOMAIN cs
      /\ \A j \in DOMAIN cs : cs[j].function \in DOMAIN fs /\ ds[j].function = cs[j].function
      /\ \A j \in DOMAIN cs \ {k} : cs[j].function # f /\ Same(cs[j], ds[j])
      /\ \A g \in DOMAIN fs \ {f} : gs[g] = fs[g]
      /\ Extends(fs[f], gs[f]) /\ f \in DOMAIN fs
  BY DEF Changes
<1>2. Chain(ds) = Chain(cs) /\ f \in Chain(cs)
  BY <1>1 DEF Chain
<1>3. \A g \in DOMAIN fs : Outside(fs[g], Chain(cs))
  BY DEF Typing
<1>4. \A g \in DOMAIN fs : SameClosures(fs, gs, g)
  <2> SUFFICES ASSUME NEW g \in DOMAIN fs, NEW j \in DOMAIN fs[g].constants, IsFun(fs[g].constants[j])
               PROVE  gs[fs[g].constants[j].fun].upvalue_count = fs[fs[g].constants[j].fun].upvalue_count
    BY DEF SameClosures
  <2>1. fs[g].constants[j].fun \in DOMAIN fs
    BY <1>1, ProgramFacts
  <2>2. fs[g].constants[j].fun # f
    BY <1>2, <1>3 DEF Outside
  <2> QED
    BY <1>1, <2>1, <2>2
<1>5. \A j \in DOMAIN ds :
        Row(gs, ds[j], j = Len(ds), IF j = Len(ds) THEN q.temps ELSE 0, q.open, q.marks)
  <2> SUFFICES ASSUME NEW j \in DOMAIN ds
               PROVE  Row(gs, ds[j], j = Len(ds), IF j = Len(ds) THEN q.temps ELSE 0, q.open, q.marks)
    OBVIOUS
  <2>1. CASE j = k
    BY <1>1, <2>1
  <2>2. CASE j # k
    <3> DEFINE c == cs[j]
               d == ds[j]
               temps == IF j = Len(cs) THEN p.temps ELSE 0
    <3>1. j \in DOMAIN cs
      BY <1>1
    <3>2. Row(fs, c, j = Len(cs), temps, p.open, p.marks)
      BY <3>1 DEF Typing
    <3>3. Same(c, d) /\ c.function # f /\ c.function \in DOMAIN fs
      BY <1>1, <2>2, <3>1
    <3>4. Agree(c.function, p, q)
      BY <3>3
    <3>5. gs[c.function] = fs[c.function] /\ c.function \in DOMAIN gs
      BY <1>1, <3>3
    <3>6. SameClosures(fs, gs, c.function) /\ Extends(fs[c.function], fs[c.function])
      BY <1>1, <1>4, <3>3, ExtendsReflexive
    <3> HIDE DEF c, d, temps
    <3>7. Row(gs, d, j = Len(cs), temps, q.open, q.marks)
      BY <1>1, <3>2, <3>3, <3>4, <3>5, <3>6, RowStays
    <3>8. temps = IF j = Len(ds) THEN q.temps ELSE 0
      BY <1>1, <2>2 DEF temps
    <3> QED
      BY <1>1, <3>7, <3>8 DEF d
  <2> QED
    BY <2>1, <2>2
<1>6. \A g \in DOMAIN gs \ Chain(ds) : Finished(gs, g)
  <2> SUFFICES ASSUME NEW g \in DOMAIN gs \ Chain(ds) PROVE Finished(gs, g)
    OBVIOUS
  <2>1. g \in DOMAIN fs /\ g # f /\ gs[g] = fs[g]
    BY <1>1, <1>2
  <2>2. Finished(fs, g)
    BY <1>1, <1>2 DEF Typing
  <2>3. SameClosures(fs, gs, g)
    BY <1>4, <2>1
  <2> QED
    BY <1>1, <2>1, <2>2, <2>3, FinishedStays
<1>7. \A g \in DOMAIN gs : Outside(gs[g], Chain(ds))
  BY <1>1, <1>2, <1>3
<1>8. ScriptOk(gs, ds)
  <2>1. CASE k = 1
    BY <2>1
  <2>2. CASE k # 1
    <3>1. 1 \in DOMAIN cs \ {k}
      BY <1>1, <2>2
    <3>2. ScriptOk(fs, cs)
      BY DEF Typing
    <3> QED
      BY <1>1, <3>1, <3>2 DEF ScriptOk, Same
  <2> QED
    BY <2>1, <2>2
<1> QED
  BY <1>5, <1>6, <1>7, <1>8 DEF Typing

(* The plan forgets addresses. *)
Loose(p, q) ==
  /\ q.levels = p.levels /\ q.open = p.open /\ q.temps = p.temps
  /\ q.marks \subseteq p.marks /\ (q.fresh => p.fresh)

(* Places in the text and error flags do not matter. *)
LEMMA SameTyping ==
  ASSUME NEW fs, IsProgram(fs), NEW cs, DOMAIN cs = 1 .. Len(cs), Len(cs) \in Nat \ {0},
         \A j \in DOMAIN cs : cs[j].function \in DOMAIN fs,
         NEW ds, DOMAIN ds = DOMAIN cs, Len(ds) = Len(cs), \A j \in DOMAIN cs : Same(cs[j], ds[j]),
         NEW p, Typing(fs, cs, p), NEW q, Loose(p, q)
  PROVE  Typing(fs, ds, q)
<1>1. \A f : Agree(f, p, q)
  BY DEF Agree, Loose
<1>2. \A j \in DOMAIN cs : SameClosures(fs, fs, cs[j].function) /\ Extends(fs[cs[j].function], fs[cs[j].function])
  BY ExtendsReflexive DEF SameClosures
<1>3. \A j \in DOMAIN ds : Row(fs, ds[j], j = Len(ds), IF j = Len(ds) THEN q.temps ELSE 0, q.open, q.marks)
  <2> SUFFICES ASSUME NEW j \in DOMAIN ds
               PROVE  Row(fs, ds[j], j = Len(ds), IF j = Len(ds) THEN q.temps ELSE 0, q.open, q.marks)
    OBVIOUS
  <2> DEFINE c == cs[j]
             d == ds[j]
             temps == IF j = Len(cs) THEN p.temps ELSE 0
  <2>1. Row(fs, c, j = Len(cs), temps, p.open, p.marks)
    BY DEF Typing
  <2>2. Same(c, d) /\ c.function \in DOMAIN fs /\ Agree(c.function, p, q)
    BY <1>1
  <2>3. SameClosures(fs, fs, c.function) /\ Extends(fs[c.function], fs[c.function])
    BY <1>2
  <2> HIDE DEF c, d, temps
  <2>4. Row(fs, d, j = Len(cs), temps, q.open, q.marks)
    BY <2>1, <2>2, <2>3, RowStays
  <2>5. temps = IF j = Len(ds) THEN q.temps ELSE 0
    BY DEF temps, Loose
  <2> QED
    BY <2>4, <2>5 DEF d
<1>4. Chain(ds) = Chain(cs)
  BY DEF Chain, Same
<1>5. PlanOk(fs, ds, q)
  <2>1. Levels(ds) = Levels(cs)
    BY DEF Levels, LevelOf, Waits, Same
  <2>2. ds[Len(ds)].function = cs[Len(cs)].function
    BY DEF Same
  <2>3. PlanOk(fs, cs, p)
    BY DEF Typing
  <2> QED
    BY <2>1, <2>2, <2>3 DEF PlanOk, Loose
<1>6. ScriptOk(fs, ds)
  <2>1. 1 \in DOMAIN cs
    OBVIOUS
  <2> QED
    BY <2>1 DEF Typing, ScriptOk, Same
<1> QED
  BY <1>3, <1>4, <1>5, <1>6 DEF Typing

(* What a compilation has made so far is a program, well formed or not. *)
LEMMA BaseProgramOf ==
  ASSUME NEW s, Base(s), NEW fs, fs = s.functions
  PROVE  IsProgram(fs)
<1>1. Base(s) /\ s.functions = fs
  OBVIOUS
<1>2. fs \in Seq(FunctionType) /\ DOMAIN fs = 1 .. Len(fs) /\ Len(fs) \in Nat
  BY <1>1, BaseFacts
<1>3. fs \in Seq(Range(fs)) /\ 1 \in DOMAIN fs
  <2>1. fs \in Seq(Range(fs))
    <3>1. IsSeq(fs)
      BY <1>2, SeqIsSeq
    <3> QED
      BY <3>1 DEF IsSeq
  <2>2. \E f : f \in DOMAIN fs
    BY <1>1, BaseFacts
  <2> QED
    BY <1>2, <2>1, <2>2
<1>4. ASSUME NEW f \in DOMAIN fs
      PROVE  /\ fs[f].code \in Seq(Nat)
             /\ {fs[f].arity, fs[f].upvalue_count, fs[f].lines} \subseteq Nat
             /\ fs[f].constants \in Seq(Range(fs[f].constants))
             /\ \A v \in Range(fs[f].constants) : IsConstant(fs, v)
  <2> DEFINE fun == fs[f]
             cs == fun.constants
             code == fun.code
  <2>1. fun \in FunctionType
    BY <1>2
  <2>2. FunctionOk(s, f)
    BY <1>1 DEF Base
  <2>3. /\ code \in Seq(Byte) /\ fun.arity \in 0 .. UINT8_MAX /\ fun.upvalue_count \in Nat /\ fun.lines \in Nat
        /\ cs \in Seq(ConstantType)
    BY <2>1 DEF FunctionType
  <2>4. \A i \in DOMAIN cs : IsConstant(fs, cs[i])
    BY <1>1, <2>2 DEF FunctionOk
  <2> HIDE DEF cs, code
  <2>5. code \in Seq(Nat)
    <3>1. code \in Seq(Byte) => IsSeq(code)
      BY SeqIsSeq
    <3>2. code \in Seq(Byte) => \A i \in 1 .. Len(code) : code[i] \in Byte
      OBVIOUS
    <3> QED
      BY <2>3, <3>1, <3>2, BytesAreNats, SeqOfType
  <2>6. cs \in Seq(Range(cs))
    BY <2>3, SeqIsSeq DEF IsSeq
  <2>7. \A v \in Range(cs) : IsConstant(fs, v)
    BY <2>4 DEF Range
  <2>8. fun.arity \in Nat
    BY <2>3, ByteAssumption
  <2> QED
    BY <2>3, <2>5, <2>6, <2>7, <2>8 DEF cs, code
<1> QED
  BY <1>3, <1>4 DEF IsProgram

(* The same, of the functions of a state. *)
LEMMA BaseProgram ==
  ASSUME NEW s, Base(s)
  PROVE  IsProgram(s.functions)
BY BaseProgramOf

(* The compilers of a state. *)
LEMMA BaseChain ==
  ASSUME NEW s, Base(s)
  PROVE  /\ DOMAIN s.compilers = 1 .. Me(s) /\ Me(s) = Len(s.compilers) /\ Me(s) \in Nat \ {0}
         /\ Me(s) \in DOMAIN s.compilers /\ This(s) = s.compilers[Me(s)]
         /\ This(s).function \in DOMAIN s.functions /\ Function(s) = s.functions[This(s).function]
         /\ \A k \in DOMAIN s.compilers : s.compilers[k].function \in DOMAIN s.functions
         /\ \A k \in DOMAIN s.compilers \ {Me(s)} : s.compilers[k].function # This(s).function
         /\ \A k, j \in DOMAIN s.compilers : k # j => s.compilers[k].function # s.compilers[j].function
         /\ 1 \in DOMAIN s.compilers
<1>1. /\ DOMAIN s.compilers = 1 .. Me(s) /\ Me(s) = Len(s.compilers) /\ Me(s) \in Nat \ {0}
      /\ Me(s) \in DOMAIN s.compilers /\ This(s) = s.compilers[Me(s)]
      /\ This(s).function \in DOMAIN s.functions /\ Function(s) = s.functions[This(s).function]
      /\ \A k \in DOMAIN s.compilers : s.compilers[k].function \in DOMAIN s.functions
      /\ DOMAIN s.functions = 1 .. Len(s.functions)
  BY BaseFacts
<1>2. \A k \in DOMAIN s.compilers : CompilerOk(s, k)
  BY DEF Base
<1>3. \A k \in DOMAIN s.compilers : \A j \in 1 .. k - 1 : s.compilers[j].function < s.compilers[k].function
  BY <1>2 DEF CompilerOk
<1>4. ASSUME NEW k \in DOMAIN s.compilers, NEW j \in DOMAIN s.compilers, k # j
      PROVE  s.compilers[k].function # s.compilers[j].function
  <2>0. s.compilers[k].function \in Int /\ s.compilers[j].function \in Int
    BY <1>1
  <2>1. CASE j < k
    BY <1>1, <1>3, <2>0, <2>1
  <2>2. CASE k < j
    BY <1>1, <1>3, <2>0, <2>2
  <2> QED
    BY <1>1, <1>4, <2>1, <2>2
<1> QED
  BY <1>1, <1>4

-----------------------------------------------------------------------------
(* What a procedure does to the plan, unless an error is reported. *)

Typed(s, p) == Typing(s.functions, s.compilers, p)

Turns(s, p, t, q) ==
  /\ Base(t) /\ t.work = s.work /\ (InText(s) => InText(t))
  /\ t.errors = {} => s.errors = {}
  /\ t.errors = {} /\ Typed(s, p) => Typed(t, q) /\ More(s.functions, t.functions)

(* One procedure after another. *)
LEMMA TurnsTransitive ==
  ASSUME NEW s, Base(s), NEW p, NEW t, NEW q, Turns(s, p, t, q), NEW u, NEW r, Turns(t, q, u, r)
  PROVE  Turns(s, p, u, r)
<1>1. Base(t) /\ Base(u)
  BY DEF Turns
<1>2. IsProgram(s.functions) /\ IsProgram(t.functions) /\ IsProgram(u.functions)
  BY <1>1, BaseProgram
<1>3. More(s.functions, t.functions) /\ More(t.functions, u.functions) => More(s.functions, u.functions)
  BY <1>2, MoreTransitive
<1> QED
  BY <1>3 DEF Turns

(* The state u is s with other places in the text, and other flags. *)
Reads(s, t) ==
  /\ t.functions = s.functions /\ Len(t.compilers) = Len(s.compilers)
  /\ \A k \in DOMAIN s.compilers : Same(s.compilers[k], t.compilers[k])

(* A procedure that only reads changes nothing in the plan. *)
LEMMA ReadsTurns ==
  ASSUME NEW s, Base(s), NEW t, Base(t), t.work = s.work, InText(s) => InText(t),
         t.errors = {} => s.errors = {} /\ Reads(s, t), NEW p, NEW q, Loose(p, q)
  PROVE  Turns(s, p, t, q)
<1> SUFFICES ASSUME t.errors = {}, Typed(s, p) PROVE Typed(t, q) /\ More(s.functions, t.functions)
  BY DEF Turns
<1>1. t.functions = s.functions /\ Len(t.compilers) = Len(s.compilers)
      /\ \A k \in DOMAIN s.compilers : Same(s.compilers[k], t.compilers[k])
  BY DEF Reads
<1>2. IsProgram(s.functions)
  BY BaseProgram
<1>3. /\ DOMAIN s.compilers = 1 .. Len(s.compilers) /\ Len(s.compilers) \in Nat \ {0}
      /\ \A j \in DOMAIN s.compilers : s.compilers[j].function \in DOMAIN s.functions
  BY BaseChain
<1>4. DOMAIN t.compilers = DOMAIN s.compilers
  BY <1>1, <1>3, BaseChain
<1>5. Typing(s.functions, t.compilers, q)
  BY <1>1, <1>2, <1>3, <1>4, SameTyping DEF Typed
<1> QED
  BY <1>1, <1>2, <1>5, MoreReflexive DEF Typed

(* What is known of the innermost compiler and of its function. *)
LEMMA TopRow ==
  ASSUME NEW s, Base(s), NEW p, Typed(s, p)
  PROVE  /\ Row(s.functions, This(s), TRUE, p.temps, p.open, p.marks)
         /\ PlanOk(s.functions, s.compilers, p)
         /\ p.temps \in Nat /\ p.open \subseteq EntryType /\ p.marks \subseteq EntryType
         /\ Top(p).fun = This(s).function /\ Top(p).depth = This(s).scope_depth
         /\ Top(p) = LevelOf(This(s))
         /\ Len(p.levels) = Me(s)
         /\ \A f \in DOMAIN s.functions : Outside(s.functions[f], Chain(s.compilers))
<1>1. /\ DOMAIN s.compilers = 1 .. Me(s) /\ Me(s) = Len(s.compilers) /\ Me(s) \in Nat \ {0}
      /\ Me(s) \in DOMAIN s.compilers /\ This(s) = s.compilers[Me(s)]
  BY BaseChain
<1>2. PlanOk(s.functions, s.compilers, p)
  BY DEF Typed, Typing
<1>3. p.levels = Levels(s.compilers)
  BY <1>2 DEF PlanOk
<1>4. Len(p.levels) = Me(s)
  <2> DEFINE l == Levels(s.compilers)
  <2>1. DOMAIN l = 1 .. Me(s)
    BY <1>1 DEF Levels
  <2>2. IsSeq(l)
    BY <1>1, FunctionIsSeq DEF Levels
  <2> HIDE DEF l
  <2>3. Len(l) \in Nat /\ DOMAIN l = 1 .. Len(l)
    BY <2>2, SeqFacts
  <2> QED
    BY <1>1, <1>3, <2>1, <2>3 DEF l
<1>5. Top(p) = LevelOf(This(s))
  BY <1>1, <1>3, <1>4 DEF Top, Levels
<1>7. Top(p).fun = This(s).function /\ Top(p).depth = This(s).scope_depth
  BY <1>5 DEF LevelOf, Level
<1>6. Row(s.functions, s.compilers[Me(s)], Me(s) = Len(s.compilers),
          IF Me(s) = Len(s.compilers) THEN p.temps ELSE 0, p.open, p.marks)
  BY <1>1 DEF Typed, Typing
<1> QED
  BY <1>1, <1>2, <1>4, <1>5, <1>6, <1>7 DEF PlanOk, Typed, Typing

(* Only the innermost compiler and its function change. *)
AtTop(s, t) ==
  /\ Base(s) /\ Base(t) /\ Me(t) = Me(s)
  /\ \A j \in DOMAIN s.compilers : t.compilers[j].function = s.compilers[j].function
  /\ \A j \in DOMAIN s.compilers \ {Me(s)} : Same(s.compilers[j], t.compilers[j])
  /\ DOMAIN t.functions = DOMAIN s.functions
  /\ \A g \in DOMAIN s.functions \ {This(s).function} : t.functions[g] = s.functions[g]
  /\ Extends(Function(s), Function(t)) /\ Function(t).name = Function(s).name

(* When only the innermost compiler and its function change, the other rows stay. *)
LEMMA TopTyping ==
  ASSUME NEW s, NEW t, AtTop(s, t), NEW p, Typed(s, p), NEW q, PlanOk(t.functions, t.compilers, q),
         \A f : f # This(s).function => Agree(f, p, q),
         Row(t.functions, This(t), TRUE, q.temps, q.open, q.marks),
         Outside(Function(t), Chain(s.compilers)),
         Me(s) = 1 => This(t).upvalues = This(s).upvalues /\ Function(t).arity = Function(s).arity
  PROVE  Typed(t, q) /\ More(s.functions, t.functions)
<1> DEFINE k == Me(s)
           fs == s.functions
           gs == t.functions
           cs == s.compilers
           ds == t.compilers
<1>0. Base(s) /\ Base(t) /\ Me(t) = k
  BY DEF AtTop
<1>1. IsProgram(fs) /\ IsProgram(gs)
  BY <1>0, BaseProgram
<1>2. /\ DOMAIN cs = 1 .. k /\ k = Len(cs) /\ k \in Nat \ {0}
      /\ k \in DOMAIN cs /\ This(s) = cs[k]
      /\ This(s).function \in DOMAIN fs /\ Function(s) = fs[This(s).function]
      /\ \A j \in DOMAIN cs : cs[j].function \in DOMAIN fs
      /\ \A j \in DOMAIN cs \ {k} : cs[j].function # This(s).function
  BY <1>0, BaseChain
<1>3. DOMAIN ds = 1 .. k /\ k = Len(ds) /\ This(t) = ds[k] /\ Function(t) = gs[This(t).function]
  BY <1>0, BaseChain
<1>4. /\ \A j \in DOMAIN cs : ds[j].function = cs[j].function
      /\ \A j \in DOMAIN cs \ {k} : Same(cs[j], ds[j])
      /\ DOMAIN gs = DOMAIN fs
      /\ \A g \in DOMAIN fs \ {This(s).function} : gs[g] = fs[g]
      /\ Extends(Function(s), Function(t)) /\ Function(t).name = Function(s).name
  BY DEF AtTop
<1>5. This(t).function = This(s).function
  BY <1>2, <1>3, <1>4
<1>6. Typing(fs, cs, p)
  BY DEF Typed
<1> HIDE DEF k, fs, gs, cs, ds
<1>7. Changes(fs, cs, gs, ds, k)
  BY <1>1, <1>2, <1>3, <1>4, <1>5 DEF Changes
<1>8. k = 1 => ScriptOk(gs, ds)
  <2> SUFFICES ASSUME k = 1 PROVE ScriptOk(gs, ds)
    OBVIOUS
  <2>1. ScriptOk(fs, cs)
    BY <1>6 DEF Typing
  <2>2. Me(s) = 1
    BY DEF k
  <2>3. This(t).upvalues = This(s).upvalues /\ Function(t).arity = Function(s).arity
    BY <2>2
  <2> QED
    BY <1>2, <1>3, <1>4, <1>5, <2>1, <2>3 DEF ScriptOk
<1>9. Typing(gs, ds, q)
  <2>1. PlanOk(gs, ds, q)
    BY DEF gs, ds
  <2>2. Row(gs, ds[k], k = Len(cs), IF k = Len(cs) THEN q.temps ELSE 0, q.open, q.marks)
    BY <1>2, <1>3 DEF gs
  <2>3. Outside(gs[cs[k].function], Chain(cs))
    BY <1>2, <1>3, <1>5 DEF cs
  <2>4. \A f : f # cs[k].function => Agree(f, p, q)
    BY <1>2
  <2> QED
    BY <1>2, <1>6, <1>7, <1>8, <2>1, <2>2, <2>3, <2>4, ChangeTyping
<1>10. More(fs, gs)
  BY <1>1, <1>2, <1>3, <1>4, <1>5, ExtendsReflexive DEF More
<1> QED
  BY <1>9, <1>10 DEF Typed, fs, gs, cs, ds

-----------------------------------------------------------------------------
(* Code is written. *)

(* The entry is of the scope that is open, with the locals that are on the stack. *)
HereEntry(s, e) ==
  /\ e \in EntryType
  /\ e.fun = This(s).function /\ e.depth = This(s).scope_depth
  /\ e.locals = OnStack(This(s), TRUE)

Entry(s, at, temps) ==
  [fun |-> This(s).function, at |-> at, depth |-> This(s).scope_depth,
   locals |-> OnStack(This(s), TRUE), temps |-> temps]

(* The locals of the innermost compiler that are on the stack: all but one that waits to be defined. *)
LEMMA OnStackFacts ==
  ASSUME NEW s, Base(s)
  PROVE  /\ OnStack(This(s), TRUE) \in Nat \ {0} /\ OnStack(This(s), TRUE) <= Len(This(s).locals)
         /\ Len(This(s).locals) \in Nat \ {0}
         /\ OnStack(This(s), TRUE) = IF This(s).locals[Len(This(s).locals)].depth = -1
                                     THEN Len(This(s).locals) - 1 ELSE Len(This(s).locals)
<1> DEFINE n == Len(This(s).locals)
<1>1. n \in Nat /\ n >= 1 /\ DOMAIN This(s).locals = 1 .. n
      /\ \A i \in DOMAIN This(s).locals : DepthOk(i, This(s).locals[i].depth)
  BY OwnFacts, ByteAssumption
<1>2. n = 1 => This(s).locals[n].depth = 0
  BY <1>1 DEF DepthOk
<1>3. OnStack(This(s), TRUE) = IF This(s).locals[n].depth = -1 THEN n - 1 ELSE n
  BY DEF OnStack
<1>4. OnStack(This(s), TRUE) \in Nat \ {0} /\ OnStack(This(s), TRUE) <= n /\ n \in Nat \ {0}
  <2> DEFINE on == OnStack(This(s), TRUE)
             last == This(s).locals[n].depth
  <2>1. on = IF last = -1 THEN n - 1 ELSE n
    BY <1>3
  <2>2. n = 1 => last = 0
    BY <1>2
  <2> HIDE DEF on, last, n
  <2>3. on \in Nat \ {0} /\ on <= n /\ n \in Nat \ {0}
    BY ONLY <1>1, <2>1, <2>2
  <2> QED
    BY ONLY <2>3 DEF on
<1>5. OnStack(This(s), TRUE) = IF This(s).locals[Len(This(s).locals)].depth = -1
                                     THEN Len(This(s).locals) - 1 ELSE Len(This(s).locals)
  BY ONLY <1>3 DEF n
<1>6. /\ OnStack(This(s), TRUE) \in Nat \ {0} /\ OnStack(This(s), TRUE) <= Len(This(s).locals)
      /\ Len(This(s).locals) \in Nat \ {0}
  BY ONLY <1>4 DEF n
<1> QED
  BY ONLY <1>5, <1>6

(* A jump or an address that is noted now is of the scope that is open. *)
LEMMA EntryFacts ==
  ASSUME NEW s, Base(s), NEW at, at \in Nat \cup {-1}, NEW temps, temps \in Nat
  PROVE  HereEntry(s, Entry(s, at, temps))
<1>1. OnStack(This(s), TRUE) \in Nat \ {0}
  BY OnStackFacts
<1>2. This(s).function \in Nat /\ This(s).scope_depth \in Nat
  <2>1. This(s) \in CompilerType
    BY BaseFacts
  <2> QED
    BY <2>1 DEF CompilerType
<1> QED
  BY <1>1, <1>2 DEF HereEntry, Entry, EntryType

(* Such an entry knows the locals that are in scope. *)
LEMMA HereCounted ==
  ASSUME NEW s, Base(s), LocalsOk(This(s), TRUE), NEW e, HereEntry(s, e)
  PROVE  CountedBy(This(s), e)
<1> DEFINE c == This(s)
           n == Len(c.locals)
           on == OnStack(c, TRUE)
           d == c.scope_depth
<1>1. /\ on \in Nat \ {0} /\ on <= n /\ n \in Nat \ {0}
      /\ on = IF c.locals[n].depth = -1 THEN n - 1 ELSE n
  BY OnStackFacts
<1>2. \A i \in 1 .. n : /\ c.locals[i].depth <= d
                        /\ c.locals[i].depth = -1 => i = n
  BY DEF LocalsOk
<1>3. d \in Nat /\ \A i \in 1 .. n : DepthOk(i, c.locals[i].depth)
  BY OwnFacts
<1>4. \A i \in 1 .. n : c.locals[i].depth \in Int
  <2> DEFINE locals == c.locals
  <2>1. locals \in Seq(LocalType) /\ n = Len(locals)
    BY OwnFacts
  <2> HIDE DEF locals, n
  <2>2. \A i \in 1 .. n : locals[i] \in LocalType
    BY <2>1
  <2>3. \A i \in 1 .. n : locals[i].depth \in Int
    BY <2>2 DEF LocalType
  <2> QED
    BY <2>3 DEF locals
<1>5. e.depth = d /\ e.locals = on
  BY DEF HereEntry
<1>6. ASSUME NEW i \in 1 .. n PROVE i <= on <=> c.locals[i].depth \in 0 .. d
  <2> DEFINE depth == c.locals[i].depth
  <2>1. depth \in Int /\ depth <= d /\ (depth = -1 => i = n) /\ (depth = -1 \/ depth >= 0)
    BY <1>2, <1>3, <1>4 DEF DepthOk
  <2>2. i = n /\ depth = -1 => on = n - 1
    BY <1>1
  <2>3. i = n /\ depth # -1 => on = n
    BY <1>1
  <2>0. on = n \/ on = n - 1
    BY <1>1
  <2> HIDE DEF depth, c, n, on, d
  <2>4. i # n => on >= i /\ depth # -1
    BY ONLY <1>1, <2>0, <2>1, i \in 1 .. n
  <2>5. i <= on <=> depth \in 0 .. d
    BY <1>1, <1>3, <2>1, <2>2, <2>3, <2>4
  <2> QED
    BY <2>5 DEF depth
<1> HIDE DEF c, n, on, d
<1>7. e.depth <= d /\ e.locals \in 1 .. n
  BY <1>1, <1>3, <1>5
<1>8. \A i \in 1 .. n : i <= e.locals <=> c.locals[i].depth \in 0 .. e.depth
  BY <1>5, <1>6
<1> QED
  BY <1>7, <1>8 DEF CountedBy, c, n, on, d

-----------------------------------------------------------------------------
(* Code is written *)

(* Only the code of the innermost function changes, and it may gain constants. *)
Writes(s, t, code) ==
  /\ Base(s) /\ Base(t) /\ Me(t) = Me(s)
  /\ \A j \in DOMAIN s.compilers : Same(s.compilers[j], t.compilers[j])
  /\ DOMAIN t.functions = DOMAIN s.functions
  /\ \A g \in DOMAIN s.functions \ {This(s).function} : t.functions[g] = s.functions[g]
  /\ Extends(Function(s), Function(t)) /\ Function(t).upvalue_count = Function(s).upvalue_count
  /\ Function(t).name = Function(s).name /\ Function(t).arity = Function(s).arity
  /\ Function(t).code = code

(* Where only the innermost function's code changes, the compilers stay the same. *)
LEMMA WritesFacts ==
  ASSUME NEW s, NEW t, NEW code, Writes(s, t, code)
  PROVE  /\ AtTop(s, t)
         /\ Same(This(s), This(t)) /\ This(t).function = This(s).function
         /\ Function(t) = t.functions[This(s).function] /\ Function(s) = s.functions[This(s).function]
         /\ This(s).function \in DOMAIN s.functions /\ This(s).function \in DOMAIN t.functions
         /\ Levels(t.compilers) = Levels(s.compilers)
         /\ \A f \in DOMAIN s.functions : SameClosures(s.functions, t.functions, f)
         /\ IsProgram(s.functions) /\ IsProgram(t.functions)
<1>1. /\ Base(s) /\ Base(t) /\ Me(t) = Me(s)
      /\ \A j \in DOMAIN s.compilers : Same(s.compilers[j], t.compilers[j])
      /\ DOMAIN t.functions = DOMAIN s.functions
      /\ \A g \in DOMAIN s.functions \ {This(s).function} : t.functions[g] = s.functions[g]
      /\ Extends(Function(s), Function(t)) /\ Function(t).upvalue_count = Function(s).upvalue_count
      /\ Function(t).name = Function(s).name
  BY DEF Writes
<1>2. /\ DOMAIN s.compilers = 1 .. Me(s) /\ This(s) = s.compilers[Me(s)] /\ Me(s) \in DOMAIN s.compilers
      /\ This(s).function \in DOMAIN s.functions /\ Function(s) = s.functions[This(s).function]
      /\ DOMAIN t.compilers = 1 .. Me(t) /\ This(t) = t.compilers[Me(t)]
      /\ Function(t) = t.functions[This(t).function]
  BY <1>1, BaseChain
<1>3. Same(This(s), This(t)) /\ This(t).function = This(s).function
  BY <1>1, <1>2 DEF Same
<1>4. AtTop(s, t)
  <2>1. \A j \in DOMAIN s.compilers : t.compilers[j].function = s.compilers[j].function
    BY <1>1 DEF Same
  <2> QED
    BY <1>1, <2>1 DEF AtTop
<1>5. Levels(t.compilers) = Levels(s.compilers)
  BY <1>1, <1>2 DEF Levels, LevelOf, Waits, Same
<1>6. IsProgram(s.functions) /\ IsProgram(t.functions)
  BY <1>1, BaseProgram
<1>7. \A g \in DOMAIN s.functions : t.functions[g].upvalue_count = s.functions[g].upvalue_count
  BY <1>1, <1>2, <1>3
<1>8. \A f \in DOMAIN s.functions : SameClosures(s.functions, t.functions, f)
  BY <1>6, <1>7, ProgramFacts DEF SameClosures
<1> QED
  BY <1>1, <1>2, <1>3, <1>4, <1>5, <1>6, <1>8

(* The innermost function's code, as far as it is known. *)
LEMMA FrameOf ==
  ASSUME NEW s, Base(s), NEW p, Typed(s, p)
  PROVE  \E y : FrameOk(s.functions, This(s).function, This(s).locals, y, OnStack(This(s), TRUE),
                        p.temps, p.open, p.marks)
BY TopRow DEF Row

(* The jumps that wait in other functions are the same. *)
Noted(s, p, open, marks) ==
  /\ \A e \in p.open : e.fun # This(s).function => e \in open
  /\ \A e \in open : e \in p.open \/ HereEntry(s, e)
  /\ \A e \in marks : e \in p.marks \/ (HereEntry(s, e) /\ e.temps = 0)

(* What the new code does to the stack is all that has to be shown. *)
LEMMA WriteTyping ==
  ASSUME NEW s, NEW t, NEW code, Writes(s, t, code), NEW p, Typed(s, p),
         Outside(Function(t), Chain(s.compilers)),
         NEW open, NEW marks, Noted(s, p, open, marks), NEW temps, temps \in Nat,
         \E z : FrameOk(t.functions, This(s).function, This(s).locals, z, OnStack(This(s), TRUE),
                        temps, open, marks)
  PROVE  Typed(t, With(p, open, marks, temps)) /\ More(s.functions, t.functions)
<1> DEFINE q == With(p, open, marks, temps)
<1>1. q.levels = p.levels /\ q.open = open /\ q.marks = marks /\ q.temps = temps /\ q.fresh = FALSE
  BY DEF With, Plan
<1> HIDE DEF q
<1>2. Base(s) /\ Function(t).arity = Function(s).arity
  BY DEF Writes
<1>3. /\ AtTop(s, t) /\ Same(This(s), This(t)) /\ Levels(t.compilers) = Levels(s.compilers)
      /\ DOMAIN s.functions = DOMAIN t.functions /\ This(s).function \in DOMAIN s.functions
  BY WritesFacts DEF Writes
<1>4. /\ Row(s.functions, This(s), TRUE, p.temps, p.open, p.marks)
      /\ PlanOk(s.functions, s.compilers, p)
      /\ p.open \subseteq EntryType /\ p.marks \subseteq EntryType
  BY <1>2, TopRow
<1>5. /\ \A e \in p.open : e.fun # This(s).function => e \in open
      /\ \A e \in open : e \in p.open \/ HereEntry(s, e)
      /\ \A e \in marks : e \in p.marks \/ (HereEntry(s, e) /\ e.temps = 0)
  BY DEF Noted
<1>6. PlanOk(t.functions, t.compilers, q)
  <2>1. open \subseteq EntryType /\ marks \subseteq EntryType
    BY <1>4, <1>5 DEF HereEntry
  <2>2. \A e \in open \cup marks : e.fun \in DOMAIN t.functions
    BY <1>3, <1>4, <1>5 DEF HereEntry, PlanOk
  <2>3. \A e \in marks : e.temps = 0
    BY <1>4, <1>5 DEF PlanOk
  <2> QED
    BY <1>1, <1>3, <1>4, <2>1, <2>2, <2>3 DEF PlanOk
<1>7. \A f : f # This(s).function => Agree(f, p, q)
  BY <1>1, <1>5 DEF Agree, HereEntry
<1>8. Row(t.functions, This(t), TRUE, q.temps, q.open, q.marks)
  <2>1. /\ This(t).function = This(s).function /\ This(t).locals = This(s).locals
        /\ This(t).upvalues = This(s).upvalues /\ This(t).scope_depth = This(s).scope_depth
    BY <1>3 DEF Same
  <2>2. OnStack(This(t), TRUE) = OnStack(This(s), TRUE)
    BY <2>1 DEF OnStack
  <2>3. \E z : FrameOk(t.functions, This(t).function, This(t).locals, z, OnStack(This(t), TRUE),
                        q.temps, q.open, q.marks)
    BY <1>1, <2>1, <2>2
  <2>4. LocalsOk(This(s), TRUE)
    BY <1>4 DEF Row
  <2>5. LocalsOk(This(t), TRUE)
    BY <2>1, <2>4 DEF LocalsOk
  <2>6. \A e \in q.open \cup q.marks : e.fun = This(t).function => CountedBy(This(t), e)
    <3> SUFFICES ASSUME NEW e \in q.open \cup q.marks, e.fun = This(s).function PROVE CountedBy(This(t), e)
      BY <2>1
    <3>1. CountedBy(This(s), e)
      <4>1. CASE e \in p.open \cup p.marks
        BY <1>4, <4>1 DEF Row
      <4>2. CASE HereEntry(s, e)
        BY <1>2, <2>4, <4>2, HereCounted
      <4> QED
        BY <1>1, <1>5, <4>1, <4>2
    <3> QED
      BY <2>1, <3>1 DEF CountedBy
  <2>7. \A i \in DOMAIN This(t).upvalues : This(t).upvalues[i].is_local => This(t).upvalues[i].index >= 1
    BY <1>4, <2>1 DEF Row
  <2> QED
    BY <2>3, <2>5, <2>6, <2>7 DEF Row
<1>9. This(t).upvalues = This(s).upvalues
  BY <1>3 DEF Same
<1> QED
  BY <1>2, <1>3, <1>6, <1>7, <1>8, <1>9, TopTyping DEF q

(* Bytes are emitted. *)
LEMMA WritesGrows ==
  ASSUME NEW s, NEW t, NEW bytes, bytes \in Seq(Nat), bytes # <<>>,
         Writes(s, t, Function(s).code \o bytes)
  PROVE  Grows(s.functions, t.functions, This(s).function, bytes)
<1> DEFINE f == This(s).function
<1>1. /\ Function(t) = t.functions[f] /\ Function(s) = s.functions[f]
      /\ f \in DOMAIN s.functions /\ f \in DOMAIN t.functions
      /\ \A g \in DOMAIN s.functions : SameClosures(s.functions, t.functions, g)
      /\ IsProgram(s.functions) /\ IsProgram(t.functions)
  BY WritesFacts
<1>2. /\ Extends(Function(s), Function(t)) /\ Function(t).arity = Function(s).arity
      /\ Function(t).code = Function(s).code \o bytes
  BY DEF Writes
<1> HIDE DEF f
<1>3. Grows(s.functions, t.functions, f, bytes)
  BY <1>1, <1>2 DEF Grows
<1> QED
  BY <1>3 DEF f

(* A compiler is the same as itself. *)
LEMMA SameReflexive == \A c : Same(c, c)
BY DEF Same

(* emit_bytes appends to the code, and changes nothing else. *)
LEMMA EmitBytesWrites ==
  ASSUME NEW s, Base(s), NEW bytes, bytes \in Seq(Byte)
  PROVE  /\ Writes(s, EmitBytes(s, bytes), Function(s).code \o bytes)
         /\ EmitBytes(s, bytes).errors = s.errors
         /\ Function(EmitBytes(s, bytes)).constants = Function(s).constants
         /\ bytes \in Seq(Nat)
<1> DEFINE t == EmitBytes(s, bytes)
           f == This(s).function
           g == [s.functions[f] EXCEPT !.code = @ \o bytes, !.lines = @ + Len(bytes)]
<1>1. /\ Base(t) /\ t.compilers = s.compilers /\ t.work = s.work /\ This(t) = This(s)
      /\ Function(t).constants = Function(s).constants
  BY EmitBytesFacts DEF Keeps
<1>2. t.errors = s.errors
  BY EmitBytesStays
<1>3. /\ s.functions \in Seq(FunctionType) /\ f \in DOMAIN s.functions /\ Function(s) = s.functions[f]
      /\ Function(s) \in FunctionType
      /\ s \in [compilers : Seq(CompilerType), functions : Seq(FunctionType),
                errors : {s.errors}, work : Seq(CallType)]
  BY BaseFacts DEF IsState
<1>4. t.functions = [s.functions EXCEPT ![f] = g]
  BY <1>3 DEF EmitBytes
<1>5. /\ g.code = Function(s).code \o bytes /\ g.constants = Function(s).constants
      /\ g.upvalue_count = Function(s).upvalue_count
      /\ g.name = Function(s).name /\ g.arity = Function(s).arity
  BY <1>3 DEF FunctionType
<1> HIDE DEF g
<1>6. /\ DOMAIN t.functions = DOMAIN s.functions
      /\ \A h \in DOMAIN s.functions \ {f} : t.functions[h] = s.functions[h]
      /\ t.functions[f] = g
  BY <1>3, <1>4
<1>7. Me(t) = Me(s)
  BY <1>1 DEF Me
<1>8. Function(t) = g
  BY <1>1, <1>6 DEF Function
<1>9. Extends(Function(s), Function(t))
  <2>1. IsProgram(s.functions)
    BY BaseProgram
  <2>2. Extends(Function(s), Function(s))
    BY <1>3, <2>1, ExtendsReflexive
  <2> QED
    BY <1>5, <1>8, <2>2 DEF Extends
<1>10. Writes(s, t, Function(s).code \o bytes)
  BY <1>1, <1>5, <1>6, <1>7, <1>8, <1>9, SameReflexive DEF Writes
<1>11. bytes \in Seq(Nat)
  <2>1. IsSeq(bytes)
    BY SeqIsSeq
  <2>2. \A i \in 1 .. Len(bytes) : bytes[i] \in Byte
    OBVIOUS
  <2> QED
    BY <2>1, <2>2, BytesAreNats, SeqOfType
<1> QED
  BY <1>1, <1>2, <1>10, <1>11

(* The operand is of something that exists. *)
ArgOk(s, op, arg) ==
  /\ op = "OP_CONSTANT" => arg < Len(Function(s).constants)
  /\ op \in {"OP_GET_GLOBAL", "OP_SET_GLOBAL", "OP_DEFINE_GLOBAL"} =>
       IsString(s.functions, This(s).function, arg)
  /\ op \in {"OP_GET_LOCAL", "OP_SET_LOCAL"} => arg \in 1 .. OnStack(This(s), TRUE) - 1
  /\ op \in {"OP_GET_UPVALUE", "OP_SET_UPVALUE"} => arg < Function(s).upvalue_count

(* An instruction that does not jump is emitted. *)
LEMMA PlainTurns ==
  ASSUME NEW s, Base(s), NEW p, NEW op \in PlainCode,
         NEW bytes, bytes \in Seq(Byte), bytes[1] = Code[op], Len(bytes) = 1 + Operands[op],
         NEW arg, arg = IF Operands[op] > 0 THEN bytes[2] ELSE 0,
         Typed(s, p) => ArgOk(s, op, arg) /\ Pops(op, arg) <= p.temps,
         NEW temps, Typed(s, p) => temps = p.temps - Pops(op, arg) + Pushes(op)
  PROVE  Turns(s, p, EmitBytes(s, bytes), With(p, p.open, p.marks, temps))
<1> DEFINE t == EmitBytes(s, bytes)
           f == This(s).function
           fs == s.functions
           gs == t.functions
           n == Len(fs[f].code)
           locals == This(s).locals
           on == OnStack(This(s), TRUE)
           open == p.open
           marks == p.marks
<1>1. /\ Writes(s, t, Function(s).code \o bytes) /\ t.errors = s.errors
      /\ Function(t).constants = Function(s).constants
      /\ bytes \in Seq(Nat)
  BY EmitBytesWrites
<1>2. Base(t) /\ t.work = s.work /\ (InText(s) => InText(t))
  BY EmitBytesFacts DEF Keeps
<1> SUFFICES ASSUME Typed(s, p)
             PROVE  Typed(t, With(p, p.open, p.marks, temps)) /\ More(s.functions, t.functions)
  BY <1>1, <1>2 DEF Turns
<1>3. op \in OpCode /\ Operands[op] \in 0 .. 2 /\ op # "OP_CLOSURE"
  BY CodesFacts DEF PlainCode
<1>4. bytes # <<>>
  <2>1. Len(bytes) # 0
    BY <1>3
  <2> QED
    BY <2>1, EmptyFacts
<1>5. Grows(fs, gs, f, bytes)
  BY <1>1, <1>4, WritesGrows
<1>6. \E y : FrameOk(fs, f, locals, y, on, p.temps, open, marks)
  BY FrameOf
<1>7. /\ f \in DOMAIN fs /\ f \in DOMAIN gs /\ fs[f] = Function(s) /\ gs[f] = Function(t)
      /\ gs[f].upvalue_count = fs[f].upvalue_count /\ gs[f].constants = fs[f].constants
  BY <1>1, WritesFacts DEF Writes
<1>8. Len(locals) \in Nat /\ on \in Nat
  BY OnStackFacts
<1>9. OperandsValid(gs, gs[f], n, on + p.temps)
  <2>1. OpAt(gs[f], n) = op /\ ArgAt(gs[f], n) = arg
    BY <1>3, <1>5, EmittedFacts
  <2>2. ArgOk(s, op, arg) /\ p.temps \in Nat
    BY TopRow
  <2>3. op \in {"OP_GET_LOCAL", "OP_SET_LOCAL"} => arg \in 1 .. (on + p.temps) - 1
    <3>1. op \in {"OP_GET_LOCAL", "OP_SET_LOCAL"} => arg \in 1 .. on - 1
      BY <2>2 DEF ArgOk
    <3>2. on \in Nat /\ p.temps \in Nat
      BY <1>8, <2>2
    <3> HIDE DEF on
    <3>3. \A a \in 1 .. on - 1 : a \in 1 .. (on + p.temps) - 1
      BY ONLY <3>2
    <3> QED
      BY ONLY <3>1, <3>3
  <2>4. op = "OP_CONSTANT" => arg < Len(gs[f].constants)
    BY <1>7, <2>2 DEF ArgOk
  <2>5. op \in {"OP_GET_UPVALUE", "OP_SET_UPVALUE"} => arg < gs[f].upvalue_count
    BY <1>7, <2>2 DEF ArgOk
  <2>6. op \in {"OP_GET_GLOBAL", "OP_SET_GLOBAL", "OP_DEFINE_GLOBAL"} =>
          arg < Len(gs[f].constants) /\ IsStr(gs[f].constants[arg + 1])
    <3> SUFFICES ASSUME op \in {"OP_GET_GLOBAL", "OP_SET_GLOBAL", "OP_DEFINE_GLOBAL"}
                 PROVE  arg < Len(gs[f].constants) /\ IsStr(gs[f].constants[arg + 1])
      OBVIOUS
    <3>1. arg + 1 \in DOMAIN gs[f].constants /\ IsStr(gs[f].constants[arg + 1])
      BY <1>7, <2>2 DEF ArgOk, IsString
    <3>2. Len(gs[f].constants) \in Nat /\ DOMAIN gs[f].constants = 1 .. Len(gs[f].constants)
      <4>1. IsProgram(gs)
        BY <1>5 DEF Grows
      <4> QED
        BY <1>7, <4>1, ProgramFacts
    <3>3. arg \in Nat
      <4>1. bytes[2] \in Nat
        <5>1. Operands[op] = 1
          BY OperandsFacts, <1>3 DEF OneOperand
        <5>2. 2 \in 1 .. Len(bytes)
          BY <5>1
        <5> QED
          BY <1>1, <5>2
      <4> QED
        BY <4>1
    <3> QED
      BY <3>1, <3>2, <3>3
  <2> HIDE DEF n, f, gs, fs, on
  <2> QED
    BY ONLY <1>3, <2>1, <2>3, <2>4, <2>5, <2>6 DEF OperandsValid
<1>10. Pops(op, arg) <= p.temps /\ temps = p.temps - Pops(op, arg) + Pushes(op)
  OBVIOUS
<1>11. \E z : FrameOk(gs, f, locals, z, on, temps, open, marks)
  <2>1. PICK y : FrameOk(fs, f, locals, y, on, p.temps, open, marks)
    BY <1>6
  <2> HIDE DEF f, fs, gs, n, locals, on, open, marks, t
  <2>2. OperandsValid(gs, gs[f], Len(fs[f].code), on + p.temps)
    BY ONLY <1>9 DEF n
  <2>3. \E z : FrameOk(gs, f, locals, z, on, p.temps - Pops(op, arg) + Pushes(op), open, marks)
    BY <1>5, <1>8, <1>10, <2>1, <2>2, FrameEmits
  <2> QED
    BY <1>10, <2>3
<1>12. Outside(Function(t), Chain(s.compilers))
  <2>1. Outside(fs[f], Chain(s.compilers))
    BY <1>7, TopRow
  <2> QED
    BY <1>7, <2>1 DEF Outside
<1>13. Noted(s, p, open, marks)
  BY DEF Noted
<1>14. temps \in Nat
  <2>1. PICK z : FrameOk(gs, f, locals, z, on, temps, open, marks)
    BY <1>11
  <2> QED
    BY <2>1 DEF FrameOk
<1> QED
  BY <1>1, <1>11, <1>12, <1>13, <1>14, WriteTyping

(* The parts of a plan that has others in some places. *)
LEMMA WithFacts ==
  ASSUME NEW p, NEW open, NEW marks, NEW temps
  PROVE  /\ With(p, open, marks, temps).levels = p.levels
         /\ With(p, open, marks, temps).open = open
         /\ With(p, open, marks, temps).marks = marks
         /\ With(p, open, marks, temps).temps = temps
         /\ With(p, open, marks, temps).fresh = FALSE
         /\ Top(With(p, open, marks, temps)) = Top(p)
         /\ \A o, m, n : With(With(p, open, marks, temps), o, m, n) = With(p, o, m, n)
BY DEF With, Plan, Top

(* The instructions that only push, only pop, or replace. *)
PushOps == {"OP_NIL", "OP_TRUE", "OP_FALSE"}
PopOps  == {"OP_POP", "OP_PRINT"}
GetOps  == {"OP_CONSTANT", "OP_GET_LOCAL", "OP_GET_GLOBAL", "OP_GET_UPVALUE"}
SetOps  == {"OP_SET_LOCAL", "OP_SET_GLOBAL", "OP_SET_UPVALUE"}

(* What the instructions without operands take from the stack and leave on it. *)
LEMMA StackFacts ==
  /\ \A op \in PushOps : op \in PlainCode /\ Operands[op] = 0 /\ (\A n : Pops(op, n) = 0) /\ Pushes(op) = 1
  /\ \A op \in PopOps : op \in PlainCode /\ Operands[op] = 0 /\ (\A n : Pops(op, n) = 1) /\ Pushes(op) = 0
  /\ \A op \in UnaryOps : op \in PlainCode /\ Operands[op] = 0 /\ (\A n : Pops(op, n) = 1) /\ Pushes(op) = 1
  /\ \A op \in BinaryOps : op \in PlainCode /\ Operands[op] = 0 /\ (\A n : Pops(op, n) = 2) /\ Pushes(op) = 1
  /\ \A op \in GetOps : op \in PlainCode /\ Operands[op] = 1 /\ (\A n : Pops(op, n) = 0) /\ Pushes(op) = 1
  /\ \A op \in SetOps : op \in PlainCode /\ Operands[op] = 1 /\ (\A n : Pops(op, n) = 1) /\ Pushes(op) = 1
  /\ "OP_CALL" \in PlainCode /\ Operands["OP_CALL"] = 1 /\ (\A n : Pops("OP_CALL", n) = n + 1)
  /\ Pushes("OP_CALL") = 1
  /\ "OP_DEFINE_GLOBAL" \in PlainCode /\ Operands["OP_DEFINE_GLOBAL"] = 1
  /\ (\A n : Pops("OP_DEFINE_GLOBAL", n) = 1) /\ Pushes("OP_DEFINE_GLOBAL") = 0
<1>1. PushOps \cup PopOps \cup UnaryOps \cup BinaryOps \cup GetOps \cup SetOps
        \cup {"OP_CALL", "OP_DEFINE_GLOBAL"} \subseteq PlainCode
  <2>1. PushOps \cup PopOps \cup UnaryOps \cup BinaryOps \cup GetOps \cup SetOps
        \cup {"OP_CALL", "OP_DEFINE_GLOBAL"} \subseteq OpCode
    BY OpcodeNames DEF PushOps, PopOps, UnaryOps, BinaryOps, GetOps, SetOps, VariableCode, OpCode, OpCodes
  <2> QED
    BY <2>1 DEF PlainCode, PushOps, PopOps, UnaryOps, BinaryOps, GetOps, SetOps
<1>2. PlainCode \subseteq OpCode
  BY DEF PlainCode
<1>3. \A op \in PushOps \cup PopOps \cup UnaryOps \cup BinaryOps : Operands[op] = 0
  BY <1>1, <1>2, OperandsFacts DEF PushOps, PopOps, UnaryOps, BinaryOps, OneOperand, Jumps
<1>4. \A op \in GetOps \cup SetOps \cup {"OP_CALL", "OP_DEFINE_GLOBAL"} : Operands[op] = 1
  BY <1>1, <1>2, OperandsFacts DEF GetOps, SetOps, OneOperand, Jumps
<1>5. /\ \A op \in PushOps \cup GetOps : \A n : Pops(op, n) = 0
      /\ \A op \in PopOps \cup UnaryOps \cup SetOps \cup {"OP_DEFINE_GLOBAL"} : \A n : Pops(op, n) = 1
      /\ \A op \in BinaryOps : \A n : Pops(op, n) = 2
      /\ \A n : Pops("OP_CALL", n) = n + 1
  BY DEF PushOps, PopOps, UnaryOps, BinaryOps, GetOps, SetOps, Pops
<1>6. /\ \A op \in PopOps \cup {"OP_DEFINE_GLOBAL"} : Pushes(op) = 0
      /\ \A op \in PushOps \cup UnaryOps \cup BinaryOps \cup GetOps \cup SetOps \cup {"OP_CALL"} : Pushes(op) = 1
  BY DEF PushOps, PopOps, UnaryOps, BinaryOps, GetOps, SetOps, Pushes
<1> QED
  BY ONLY <1>1, <1>3, <1>4, <1>5, <1>6

(* An instruction without operands is emitted, *)
LEMMA EmitTurns ==
  ASSUME NEW s, Base(s), NEW p, NEW op, op \in PlainCode, Operands[op] = 0,
         Typed(s, p) => Pops(op, 0) <= p.temps,
         NEW temps, Typed(s, p) => temps = p.temps - Pops(op, 0) + Pushes(op)
  PROVE  Turns(s, p, Emit(s, op), With(p, p.open, p.marks, temps))
<1> DEFINE bytes == <<Code[op]>>
<1>1. op \in OpCode
  BY DEF PlainCode
<1>2. bytes \in Seq(Byte) /\ bytes[1] = Code[op] /\ Len(bytes) = 1 + Operands[op]
  BY <1>1, ByteFacts
<1>3. ArgOk(s, op, 0)
  <2>1. op \notin OneOperand
    BY <1>1, OperandsFacts
  <2> QED
    BY <2>1 DEF ArgOk, OneOperand
<1> DEFINE arg == IF Operands[op] > 0 THEN bytes[2] ELSE 0
<1>4. arg = 0
  OBVIOUS
<1> HIDE DEF bytes, arg
<1>5. Turns(s, p, EmitBytes(s, bytes), With(p, p.open, p.marks, temps))
  <2>1. Typed(s, p) => ArgOk(s, op, arg) /\ Pops(op, arg) <= p.temps
    BY <1>3, <1>4
  <2>2. Typed(s, p) => temps = p.temps - Pops(op, arg) + Pushes(op)
    BY <1>4
  <2>3. arg = IF Operands[op] > 0 THEN bytes[2] ELSE 0
    BY DEF arg
  <2> QED
    BY <1>2, <2>1, <2>2, <2>3, PlainTurns
<1> QED
  BY <1>5 DEF Emit, bytes

(* one with an operand, *)
LEMMA EmitWithTurns ==
  ASSUME NEW s, Base(s), NEW p, NEW op, op \in PlainCode, Operands[op] = 1, NEW b, b \in 0 .. UINT8_MAX,
         Typed(s, p) => ArgOk(s, op, b) /\ Pops(op, b) <= p.temps,
         NEW temps, Typed(s, p) => temps = p.temps - Pops(op, b) + Pushes(op)
  PROVE  Turns(s, p, EmitWith(s, op, b), With(p, p.open, p.marks, temps))
<1> DEFINE bytes == <<Code[op], b>>
<1>1. op \in OpCode
  BY DEF PlainCode
<1>2. bytes \in Seq(Byte) /\ bytes[1] = Code[op] /\ Len(bytes) = 1 + Operands[op]
  BY <1>1, ByteFacts
<1> DEFINE arg == IF Operands[op] > 0 THEN bytes[2] ELSE 0
<1>4. arg = b
  OBVIOUS
<1> HIDE DEF bytes, arg
<1>5. Turns(s, p, EmitBytes(s, bytes), With(p, p.open, p.marks, temps))
  <2>1. Typed(s, p) => ArgOk(s, op, arg) /\ Pops(op, arg) <= p.temps
    BY <1>4
  <2>2. Typed(s, p) => temps = p.temps - Pops(op, arg) + Pushes(op)
    BY <1>4
  <2>3. arg = IF Operands[op] > 0 THEN bytes[2] ELSE 0
    BY DEF arg
  <2> QED
    BY <1>2, <2>1, <2>2, <2>3, PlainTurns
<1> QED
  BY <1>5 DEF EmitWith, bytes

(* The plan is followed where there are enough values. *)
LEMMA PushTurns ==
  ASSUME NEW s, Base(s), NEW p, NEW op, op \in PushOps
  PROVE  Turns(s, p, Emit(s, op), With(p, p.open, p.marks, p.temps + 1))
<1>1. op \in PlainCode /\ Operands[op] = 0 /\ Pops(op, 0) = 0 /\ Pushes(op) = 1
  BY StackFacts
<1>2. Typed(s, p) => p.temps \in Nat
  BY TopRow
<1> DEFINE n == p.temps
<1>3. Typed(s, p) => Pops(op, 0) <= n /\ n + 1 = n - Pops(op, 0) + Pushes(op)
  <2> HIDE DEF n
  <2>1. Typed(s, p) => n \in Nat
    BY <1>2 DEF n
  <2> QED
    BY <1>1, <2>1
<1> QED
  BY <1>1, <1>3, EmitTurns

(* and one that takes a value from the stack. *)
LEMMA PopTurns ==
  ASSUME NEW s, Base(s), NEW p, NEW op, op \in PopOps, Typed(s, p) => p.temps >= 1
  PROVE  Turns(s, p, Emit(s, op), With(p, p.open, p.marks, p.temps - 1))
<1>1. op \in PlainCode /\ Operands[op] = 0 /\ Pops(op, 0) = 1 /\ Pushes(op) = 0
  BY StackFacts
<1>2. Typed(s, p) => p.temps \in Nat
  BY TopRow
<1> DEFINE n == p.temps
<1>3. Typed(s, p) => Pops(op, 0) <= n /\ n - 1 = n - Pops(op, 0) + Pushes(op)
  <2> HIDE DEF n
  <2>1. Typed(s, p) => n \in Nat /\ n >= 1
    BY <1>2 DEF n
  <2> QED
    BY <1>1, <2>1
<1> QED
  BY <1>1, <1>3, EmitTurns

(* A condition is popped from a stack that holds nothing else. *)
LEMMA PopOneTurns ==
  ASSUME NEW s, Base(s), NEW p, p.temps = 1
  PROVE  Turns(s, p, Emit(s, "OP_POP"), With(p, p.open, p.marks, 0))
<1>1. Turns(s, p, Emit(s, "OP_POP"), With(p, p.open, p.marks, p.temps - 1))
  BY PopTurns DEF PopOps
<1>2. p.temps - 1 = 0
  OBVIOUS
<1> QED
  BY <1>1, <1>2

-----------------------------------------------------------------------------
(* Jumps *)

(* Two bytes hold a distance that is not too large. *)
LEMMA DivisionFacts ==
  ASSUME NEW b, b \in Nat \ {0}, NEW d, d \in Nat
  PROVE  /\ d = (d \div b) * b + (d % b)
         /\ d \div b \in Nat /\ d % b \in 0 .. b - 1
         /\ d <= b * b - 1 => d \div b <= b - 1
         /\ d <= b - 1 => d % b = d
         /\ d >= b => d % b <= d - b
<1>1. d = (d \div b) * b + (d % b) /\ d % b \in 0 .. b - 1 /\ d \div b \in Int
  <2>1. b \in Int /\ b > 0 /\ d \in Int
    OBVIOUS
  <2> QED
    BY ONLY <2>1, SMT
<1> DEFINE k == d \div b
           r == d % b
<1>2. k \in Int /\ r \in 0 .. b - 1 /\ d = k * b + r
  BY <1>1
<1> HIDE DEF k, r
<1>3. k >= 0
  <2>1. CASE k <= -1
    <3>1. k * b <= -b
      BY <1>2, <2>1
    <3> QED
      BY <1>2, <3>1
  <2> QED
    BY <1>2, <2>1
<1>4. d <= b * b - 1 => k <= b - 1
  <2>1. CASE k >= b
    <3>1. k * b >= b * b
      BY <1>2, <2>1
    <3> QED
      BY <1>2, <3>1
  <2> QED
    BY <1>2, <2>1
<1>5. d <= b - 1 => r = d
  <2>1. CASE k >= 1
    <3>1. k * b >= b
      BY <1>2, <2>1
    <3> QED
      BY <1>2, <3>1
  <2>2. CASE k = 0
    BY <1>2, <2>2
  <2> QED
    BY <1>2, <1>3, <2>1, <2>2
<1>6. d >= b => r <= d - b
  <2>1. CASE k >= 1
    <3>1. k * b >= b
      BY <1>2, <2>1
    <3> QED
      BY <1>2, <3>1
  <2>2. CASE k = 0
    BY <1>2, <2>2
  <2> QED
    BY <1>2, <1>3, <2>1, <2>2
<1> QED
  BY <1>2, <1>3, <1>4, <1>5, <1>6 DEF k, r

(* A distance is what its two bytes say, and an address wraps around when it is cut to two bytes. *)
LEMMA DistanceFacts ==
  /\ UINT16_MAX \in Nat
  /\ \A d \in 0 .. UINT16_MAX : UpperByte(d) * (UINT8_MAX + 1) + AsByte(d) = d
  /\ \A n \in Nat : AsUint16(n) \in Nat /\ (AsUint16(n) = n \/ AsUint16(n) <= n - UINT16_MAX - 1)
<1> DEFINE b == UINT8_MAX + 1
           m == UINT16_MAX + 1
<1>1. b \in Nat \ {0} /\ m = b * b /\ m \in Nat \ {0} /\ UINT16_MAX = m - 1
  <2>1. UINT8_MAX \in Nat \ {0}
    BY ByteAssumption
  <2>2. b \in Nat \ {0} /\ UINT16_MAX = b * b - 1
    BY <2>1 DEF UINT16_MAX
  <2> HIDE DEF b
  <2>3. b * b \in Nat \ {0}
    BY <2>2
  <2> QED
    BY <2>2, <2>3
<1> HIDE DEF b, m
<1>2. ASSUME NEW d \in 0 .. UINT16_MAX PROVE UpperByte(d) * b + AsByte(d) = d
  <2>1. d \in Nat /\ d <= b * b - 1
    BY <1>1
  <2>2. /\ d = (d \div b) * b + (d % b)
        /\ d \div b \in Nat /\ d \div b <= b - 1
    BY <1>1, <2>1, DivisionFacts
  <2>3. (d \div b) % b = d \div b
    BY <1>1, <2>2, DivisionFacts
  <2>4. UpperByte(d) = (d \div b) % b /\ AsByte(d) = d % b
    BY DEF UpperByte, AsByte, b
  <2> QED
    BY <2>2, <2>3, <2>4
<1>3. ASSUME NEW n \in Nat PROVE AsUint16(n) \in Nat /\ (AsUint16(n) = n \/ AsUint16(n) <= n - UINT16_MAX - 1)
  <2>1. AsUint16(n) = n % m
    BY DEF AsUint16, m
  <2>2. n % m \in 0 .. m - 1 /\ (n <= m - 1 => n % m = n) /\ (n >= m => n % m <= n - m)
    BY <1>1, DivisionFacts
  <2> QED
    BY <1>1, <2>1, <2>2
<1> QED
  BY <1>1, <1>2, <1>3 DEF b

-----------------------------------------------------------------------------
(* Entries of the scope that is open. *)

(* The entries of the innermost scope know as many locals as are on the stack. *)
LEMMA HereLocals ==
  ASSUME NEW s, Base(s), NEW p, Typed(s, p), NEW e, e \in p.open \cup p.marks, Here(p, e)
  PROVE  HereEntry(s, e)
<1> DEFINE c == This(s)
           n == Len(c.locals)
           on == OnStack(c, TRUE)
           d == c.scope_depth
           k == e.locals
<1>1. /\ on \in Nat \ {0} /\ on <= n /\ n \in Nat \ {0}
      /\ on = IF c.locals[n].depth = -1 THEN n - 1 ELSE n
  BY OnStackFacts
<1>2. /\ Row(s.functions, This(s), TRUE, p.temps, p.open, p.marks)
      /\ p.open \subseteq EntryType /\ p.marks \subseteq EntryType
      /\ Top(p).fun = This(s).function /\ Top(p).depth = This(s).scope_depth
  BY TopRow
<1>3. e \in EntryType /\ e.fun = c.function /\ e.depth = d
  BY <1>2 DEF Here
<1>4. LocalsOk(c, TRUE) /\ CountedBy(c, e)
  BY <1>2, <1>3 DEF Row
<1>5. k \in 1 .. n /\ \A i \in 1 .. n : i <= k <=> c.locals[i].depth \in 0 .. d
  BY <1>3, <1>4 DEF CountedBy
<1>6. \A i \in 1 .. n : c.locals[i].depth <= d /\ (c.locals[i].depth = -1 => i = n)
  BY <1>4 DEF LocalsOk
<1>7. d \in Nat /\ \A i \in 1 .. n : DepthOk(i, c.locals[i].depth)
  BY OwnFacts
<1>8. \A i \in 1 .. n : c.locals[i].depth \in Int
  <2> DEFINE locals == c.locals
  <2>1. locals \in Seq(LocalType) /\ n = Len(locals)
    BY OwnFacts
  <2> HIDE DEF locals, n
  <2>2. \A i \in 1 .. n : locals[i] \in LocalType
    BY <2>1
  <2>3. \A i \in 1 .. n : locals[i].depth \in Int
    BY <2>2 DEF LocalType
  <2> QED
    BY <2>3 DEF locals
<1> DEFINE depth(i) == c.locals[i].depth
<1>9. \A i \in 1 .. n : depth(i) \in Int /\ depth(i) <= d /\ (depth(i) = -1 => i = n) /\ (depth(i) = -1 \/ depth(i) >= 0)
  BY <1>6, <1>7, <1>8 DEF DepthOk
<1>10. \A i \in 1 .. n : i <= k <=> depth(i) \in 0 .. d
  BY <1>5
<1>11. on = IF depth(n) = -1 THEN n - 1 ELSE n
  BY <1>1
<1>12. n \in Nat /\ n >= 1 /\ on \in Nat /\ k \in 1 .. n /\ d \in Nat
  <2> HIDE DEF c, n, on, d, k, depth
  <2> QED
    BY <1>1, <1>5, <1>7
<1> HIDE DEF c, n, on, d, k, depth
<1>13. k = on
  <2>1. CASE depth(n) = -1
    <3>1. ~(n <= k)
      BY <1>10, <1>12, <2>1
    <3>2. n - 1 \in 1 .. n
      BY <1>12, <3>1
    <3>3. depth(n - 1) \in 0 .. d
      <4>1. depth(n - 1) \in Int /\ depth(n - 1) <= d /\ depth(n - 1) # -1 /\ depth(n - 1) >= 0
        BY <1>9, <1>12, <3>2
      <4> QED
        BY <1>12, <4>1
    <3>4. n - 1 <= k
      BY <1>10, <3>2, <3>3
    <3> QED
      BY <1>11, <1>12, <2>1, <3>1, <3>4
  <2>2. CASE depth(n) # -1
    <3>1. n \in 1 .. n
      BY <1>12
    <3>2. depth(n) \in 0 .. d
      BY <1>9, <1>12, <2>2, <3>1
    <3>3. n <= k
      BY <1>10, <3>1, <3>2
    <3> QED
      BY <1>11, <1>12, <2>2, <3>3
  <2> QED
    BY <2>1, <2>2
<1> QED
  BY <1>3, <1>13 DEF HereEntry, c, d, on, k

(* Nothing is written. *)
LEMMA WritesReflexive ==
  ASSUME NEW s, Base(s)
  PROVE  Writes(s, s, Function(s).code)
<1>1. IsProgram(s.functions) /\ Function(s) = s.functions[This(s).function] /\ This(s).function \in DOMAIN s.functions
  BY BaseProgram, BaseChain
<1>2. Extends(Function(s), Function(s))
  BY <1>1, ExtendsReflexive
<1> QED
  BY <1>2, SameReflexive DEF Writes

(* The place that the code has got to, or only its locals, may be noted. *)
LEMMA MarkTurns ==
  ASSUME NEW s, Base(s), NEW p, NEW e,
         Typed(s, p) => e \in {Entry(s, CodeSize(s), p.temps), Entry(s, -1, 0)} /\ e.temps = 0
  PROVE  Turns(s, p, s, With(p, p.open, p.marks \cup {e}, p.temps))
<1> SUFFICES ASSUME Typed(s, p)
             PROVE  /\ Typed(s, With(p, p.open, p.marks \cup {e}, p.temps))
                    /\ More(s.functions, s.functions)
  BY DEF Turns
<1> DEFINE f == This(s).function
           fs == s.functions
           locals == This(s).locals
           on == OnStack(This(s), TRUE)
           marks == p.marks \cup {e}
<1>1. Writes(s, s, Function(s).code)
  BY WritesReflexive
<1>2. PICK y : FrameOk(fs, f, locals, y, on, p.temps, p.open, p.marks)
  BY FrameOf
<1>3. Function(s) = fs[f] /\ p.temps \in Nat
  BY BaseChain, TopRow
<1>4. CodeSize(s) = Len(fs[f].code) /\ CodeSize(s) \in Nat
  BY <1>3, CodeSizeFacts DEF CodeSize
<1>5. HereEntry(s, e)
  BY <1>3, <1>4, EntryFacts
<1>6. \/ e.at = -1
      \/ e.at = Len(fs[f].code) /\ e.locals = on /\ e.temps = p.temps
  <2>1. CASE e = Entry(s, CodeSize(s), p.temps)
    <3>1. e.at = CodeSize(s) /\ e.locals = on /\ e.temps = p.temps
      BY <2>1 DEF Entry
    <3> QED
      BY <1>4, <3>1
  <2>2. CASE e = Entry(s, -1, 0)
    BY <2>2 DEF Entry
  <2> QED
    BY <2>1, <2>2
<1> HIDE DEF f, fs, locals, on
<1>7. FrameOk(fs, f, locals, y, on, p.temps, p.open, marks)
  <2>1. e.at = Len(fs[f].code) /\ e.locals = on /\ e.temps = p.temps => Marked(y, e)
    BY <1>2 DEF FrameOk, Marked
  <2>2. \A d \in p.marks : d.fun = f /\ d.at # -1 => Marked(y, d)
    BY <1>2 DEF FrameOk
  <2>3. \A d \in marks : d.fun = f /\ d.at # -1 => Marked(y, d)
    BY <1>6, <2>1, <2>2
  <2> HIDE DEF marks
  <2> QED
    BY ONLY <1>2, <2>3 DEF FrameOk
<1>8. Noted(s, p, p.open, marks)
  <2>1. e.temps = 0
    OBVIOUS
  <2> QED
    BY <1>5, <2>1 DEF Noted
<1>9. Outside(Function(s), Chain(s.compilers))
  <2>1. f \in DOMAIN fs
    BY BaseChain DEF f, fs
  <2> QED
    BY <1>3, <2>1, TopRow DEF fs
<1> HIDE DEF marks
<1>10. Typed(s, With(p, p.open, marks, p.temps)) /\ More(s.functions, s.functions)
  <2>1. \E z : FrameOk(s.functions, This(s).function, This(s).locals, z, OnStack(This(s), TRUE),
                        p.temps, p.open, marks)
    BY <1>7 DEF f, fs, locals, on
  <2> QED
    BY <1>1, <1>3, <1>8, <1>9, <2>1, WriteTyping
<1> QED
  BY <1>10 DEF marks

(* The parts of an entry: its address, *)
LEMMA EntryAt == ASSUME NEW s, NEW a, NEW n PROVE Entry(s, a, n).at = a
BY DEF Entry

(* its function, *)
LEMMA EntryFun == ASSUME NEW s, NEW a, NEW n PROVE Entry(s, a, n).fun = This(s).function
BY DEF Entry

(* the depth of its scope, *)
LEMMA EntryDepth == ASSUME NEW s, NEW a, NEW n PROVE Entry(s, a, n).depth = This(s).scope_depth
BY DEF Entry

(* the locals in it, *)
LEMMA EntryLocals == ASSUME NEW s, NEW a, NEW n PROVE Entry(s, a, n).locals = OnStack(This(s), TRUE)
BY DEF Entry

(* and the values above them. *)
LEMMA EntryTemps == ASSUME NEW s, NEW a, NEW n PROVE Entry(s, a, n).temps = n
BY DEF Entry

(* emit_jump *)
LEMMA JumpTurns ==
  ASSUME NEW s, Base(s), NEW p, NEW op, op \in {"OP_JUMP", "OP_JUMP_IF_FALSE"},
         Typed(s, p) /\ op = "OP_JUMP_IF_FALSE" => p.temps >= 1,
         NEW later, later \in Nat, op = "OP_JUMP_IF_FALSE" => later = p.temps,
         NEW e, Typed(s, p) => e = Entry(s, CodeSize(s), p.temps)
  PROVE  Turns(s, p, EmitJump(s, op), With(p, p.open \cup {e}, p.marks, later))
<1> DEFINE bytes == <<Code[op], 0, 0>>
           t == EmitBytes(s, bytes)
           f == This(s).function
           fs == s.functions
           gs == t.functions
           n == Len(fs[f].code)
           locals == This(s).locals
           on == OnStack(This(s), TRUE)
           open == p.open
           open2 == p.open \cup {e}
           marks == p.marks
<1>0. op \in OpCode /\ op \in LeapCode
  BY OpcodeNames DEF LeapCode
<1>a. bytes \in Seq(Byte) /\ bytes[1] = Code[op] /\ Len(bytes) = 3
  BY <1>0, ByteFacts, ByteAssumption
<1>b. EmitJump(s, op) = t
  BY DEF EmitJump
<1>c. Len(bytes) = 1 + Operands[op]
  BY <1>0, <1>a, LeapFacts
<1> HIDE DEF bytes
<1>1. /\ Writes(s, t, Function(s).code \o bytes) /\ t.errors = s.errors
      /\ Function(t).constants = Function(s).constants
      /\ bytes \in Seq(Nat)
  BY <1>a, EmitBytesWrites
<1>2. Base(t) /\ t.work = s.work /\ (InText(s) => InText(t))
  BY <1>a, EmitBytesFacts DEF Keeps
<1> SUFFICES ASSUME Typed(s, p)
             PROVE  Typed(t, With(p, open2, p.marks, later)) /\ More(s.functions, t.functions)
  BY <1>1, <1>2, <1>b DEF Turns
<1>3. bytes # <<>>
  BY <1>a
<1>4. Grows(fs, gs, f, bytes)
  BY <1>1, <1>3, WritesGrows
<1>5. PICK y : FrameOk(fs, f, locals, y, on, p.temps, open, marks)
  BY FrameOf
<1>6. /\ f \in DOMAIN fs /\ f \in DOMAIN gs /\ fs[f] = Function(s) /\ gs[f] = Function(t)
  BY <1>1, WritesFacts DEF Writes
<1>7. Len(locals) \in Nat /\ on \in Nat
  BY OnStackFacts
<1>8. p.temps \in Nat
  BY TopRow
<1>9. HereEntry(s, e) /\ e.at = n /\ e.locals = on /\ e.temps = p.temps /\ e.fun = f
  <2>1. CodeSize(s) \in Nat /\ CodeSize(s) = n
    BY <1>6, CodeSizeFacts DEF CodeSize
  <2>2. HereEntry(s, e)
    BY <1>8, <2>1, EntryFacts
  <2>3. e = Entry(s, CodeSize(s), p.temps)
    OBVIOUS
  <2>4. e.at = n
    BY <2>1, <2>3, EntryAt
  <2>5. e.locals = on
    BY <2>3, EntryLocals
  <2>6. e.temps = p.temps
    BY <2>3, EntryTemps
  <2>7. e.fun = f
    BY <2>3, EntryFun
  <2> QED
    BY <2>2, <2>4, <2>5, <2>6, <2>7
<1>10. op \in {"OP_RETURN", "OP_JUMP_IF_FALSE"} => p.temps > 0
  BY <1>8
<1> HIDE DEF t, f, fs, gs, n, locals, on, open, marks
<1>11. n \in Pending(open2, f)
  BY <1>9 DEF Pending
<1>12. \E z : FrameOk(gs, f, locals, z, on, later, open2, marks)
  <2>1. \A d \in open : d.fun = f => d \in open2
    BY DEF open
  <2>2. \A d \in open2 : d.fun = f => \/ d \in open
                                      \/ /\ d.at = Len(fs[f].code) /\ d.locals = on /\ d.temps = p.temps
                                         /\ op \in {"OP_JUMP", "OP_JUMP_IF_FALSE"}
    BY <1>9 DEF open, n
  <2>3. Len(fs[f].code) \in Pending(open2, f)
    BY <1>11 DEF n
  <2>4. op = "OP_LOOP" =>
           \E d \in marks : /\ d.fun = f /\ d.at # -1 /\ d.locals = on /\ d.temps = p.temps
                            /\ d.at = Len(gs[f].code) - (bytes[2] * (UINT8_MAX + 1) + bytes[3])
    OBVIOUS
  <2>5. op = "OP_RETURN" => f # 1
    OBVIOUS
  <2>6. op \in {"OP_JUMP", "OP_JUMP_IF_FALSE"} => Len(fs[f].code) \in Pending(open2, f)
    BY <2>3
  <2>7. op = "OP_JUMP_IF_FALSE" => later = p.temps
    OBVIOUS
  <2>8. later \in Nat
    OBVIOUS
  <2> HIDE DEF open2
  <2>9. Leaps(fs, gs, f, bytes, on, p.temps, open, marks, op, later, open2)
    BY <1>10, <2>1, <2>2, <2>4, <2>5, <2>6, <2>7, <2>8 DEF Leaps
  <2> QED
    BY ONLY <1>0, <1>a, <1>c, <1>4, <1>5, <1>7, <2>9, FrameLeaps
<1>13. Outside(Function(t), Chain(s.compilers))
  <2>1. Outside(fs[f], Chain(s.compilers))
    BY <1>6, TopRow DEF fs
  <2> QED
    BY <1>1, <1>6, <2>1 DEF Outside
<1>14. Noted(s, p, open2, marks)
  BY <1>9 DEF Noted, marks
<1> HIDE DEF open2
<1>15. \E z : FrameOk(t.functions, This(s).function, This(s).locals, z, OnStack(This(s), TRUE),
                        later, open2, marks)
  BY <1>12 DEF gs, f, locals, on
<1>16. Typed(t, With(p, open2, marks, later)) /\ More(s.functions, t.functions)
  BY <1>1, <1>13, <1>14, <1>15, WriteTyping
<1> QED
  BY <1>16 DEF marks

(* A jump that is emitted now is not one that waits already. *)
LEMMA JumpIsNew ==
  ASSUME NEW s, Base(s), NEW p, Typed(s, p), NEW e, e = Entry(s, CodeSize(s), p.temps)
  PROVE  /\ e \notin p.open /\ Here(p, e) /\ e.temps = p.temps /\ AsUint16(e.at) = JumpAddress(s)
         /\ e.at = CodeSize(s) /\ e.fun = This(s).function
<1>1. PICK y : FrameOk(s.functions, This(s).function, This(s).locals, y, OnStack(This(s), TRUE),
                        p.temps, p.open, p.marks)
  BY FrameOf
<1>2. e.at = CodeSize(s) /\ e.fun = This(s).function /\ e.temps = p.temps /\ e.depth = This(s).scope_depth
  <2>1. e.at = CodeSize(s)
    BY EntryAt
  <2>2. e.fun = This(s).function
    BY EntryFun
  <2>3. e.temps = p.temps
    BY EntryTemps
  <2>4. e.depth = This(s).scope_depth
    BY EntryDepth
  <2> QED
    BY <2>1, <2>2, <2>3, <2>4
<1>3. CodeSize(s) = Len(s.functions[This(s).function].code)
  BY BaseChain DEF CodeSize
<1>4. e \notin p.open
  BY <1>1, <1>2, <1>3 DEF FrameOk
<1>5. Here(p, e)
  <2>1. Top(p).fun = This(s).function /\ Top(p).depth = This(s).scope_depth
    BY TopRow
  <2>2. Top(p).fun = This(s).function /\ Top(p).depth = This(s).scope_depth
    BY <2>1
  <2> QED
    BY <1>2, <2>2 DEF Here
<1> QED
  BY <1>2, <1>4, <1>5 DEF JumpAddress

(* The innermost function gets other code. *)
LEMMA CodeWrites ==
  ASSUME NEW s, Base(s), NEW code, code \in Seq(Byte),
         NEW t, t = WithFunction(s, This(s).function, [Function(s) EXCEPT !.code = code])
  PROVE  /\ Writes(s, t, code) /\ t.errors = s.errors /\ t.work = s.work /\ (InText(s) => InText(t))
         /\ Function(t).constants = Function(s).constants
<1> DEFINE f == This(s).function
           g == [Function(s) EXCEPT !.code = code]
<1>1. /\ s.functions \in Seq(FunctionType) /\ f \in DOMAIN s.functions /\ Function(s) = s.functions[f]
      /\ Function(s) \in FunctionType /\ IsState(s)
  BY BaseFacts
<1>2. /\ g.code = code /\ g.constants = Function(s).constants
      /\ g.upvalue_count = Function(s).upvalue_count
      /\ g.name = Function(s).name /\ g.arity = Function(s).arity
      /\ g \in FunctionType
  BY <1>1 DEF FunctionType
<1>3. Keeps(s, t) /\ This(t) = This(s)
  BY CodeChange
<1>4. t = WithFunction(s, f, g)
  OBVIOUS
<1> HIDE DEF g, f
<1>5. /\ t.compilers = s.compilers /\ t.errors = s.errors /\ t.work = s.work
      /\ DOMAIN t.functions = DOMAIN s.functions
      /\ \A j \in DOMAIN s.functions : t.functions[j] = IF j = f THEN g ELSE s.functions[j]
  <2>1. IsState(s) /\ f \in DOMAIN s.functions /\ g \in FunctionType
    BY <1>1, <1>2
  <2>2. /\ WithFunction(s, f, g).compilers = s.compilers
        /\ WithFunction(s, f, g).errors = s.errors
        /\ WithFunction(s, f, g).work = s.work
        /\ DOMAIN WithFunction(s, f, g).functions = DOMAIN s.functions
        /\ \A j \in DOMAIN s.functions :
             WithFunction(s, f, g).functions[j] = IF j = f THEN g ELSE s.functions[j]
    BY ONLY <2>1, WithFunctionFacts
  <2> QED
    BY <1>4, <2>2
<1>6. Me(t) = Me(s)
  BY <1>5 DEF Me
<1>7. Function(t) = g
  BY <1>1, <1>3, <1>5 DEF Function, f
<1>8. Extends(Function(s), Function(t))
  <2>1. IsProgram(s.functions)
    BY BaseProgram
  <2>2. Extends(Function(s), Function(s))
    BY <1>1, <2>1, ExtendsReflexive
  <2> QED
    BY <1>2, <1>7, <2>2 DEF Extends
<1>9. \A j \in DOMAIN s.compilers : Same(s.compilers[j], t.compilers[j])
  BY <1>5, SameReflexive
<1>10. Base(t) /\ (InText(s) => InText(t))
  BY <1>3 DEF Keeps
<1>11. /\ Function(t).upvalue_count = Function(s).upvalue_count
       /\ Function(t).name = Function(s).name /\ Function(t).arity = Function(s).arity
       /\ Function(t).code = code /\ Function(t).constants = Function(s).constants
  BY <1>2, <1>7
<1>12. \A j \in DOMAIN s.functions \ {f} : t.functions[j] = s.functions[j]
  BY <1>5
<1>13. Writes(s, t, code)
  BY <1>5, <1>6, <1>8, <1>9, <1>10, <1>11, <1>12 DEF Writes, f
<1> QED
  BY <1>5, <1>10, <1>11, <1>13

(* patch_jump overwrites the operand, unless it reports an error. *)
LEMMA PatchForm ==
  ASSUME NEW s, Base(s), NEW jump, jump \in Nat, PatchJump(s, jump).errors = {},
         jump + 3 <= CodeSize(s)
  PROVE  /\ CodeSize(s) - 3 - jump <= UINT16_MAX
         /\ \E code : /\ code \in Seq(Byte) /\ Len(code) = CodeSize(s)
                      /\ \A i \in 1 .. CodeSize(s) :
                           code[i] = IF i = jump + 2 THEN UpperByte(CodeSize(s) - 3 - jump)
                                     ELSE IF i = jump + 3 THEN AsByte(CodeSize(s) - 3 - jump)
                                     ELSE Function(s).code[i]
                      /\ PatchJump(s, jump) = WithFunction(s, This(s).function, [Function(s) EXCEPT !.code = code])
<1> DEFINE f == This(s).function
           dist == CodeSize(s) - 3 - jump
           old == Function(s).code
           u == UpperByte(dist)
           l == AsByte(dist)
           half == [old EXCEPT ![jump + 2] = u]
           code == [half EXCEPT ![jump + 3] = l]
<1>1. /\ IsState(s) /\ s.functions \in Seq(FunctionType) /\ f \in DOMAIN s.functions
      /\ Function(s) = s.functions[f] /\ Function(s) \in FunctionType
  BY BaseFacts
<1>2. old \in Seq(Byte) /\ CodeSize(s) = Len(old) /\ Len(old) \in Nat /\ dist \in Nat
  <2>1. old \in Seq(Byte)
    BY <1>1 DEF FunctionType
  <2> QED
    BY <2>1 DEF CodeSize
<1>3. u \in Byte /\ l \in Byte
  <2> HIDE DEF dist
  <2>1. dist \in Int
    BY <1>2
  <2> QED
    BY <2>1, ByteFacts
<1>4. dist <= UINT16_MAX
  <2> DEFINE e == ErrorAtCurrent(s, "Too much code to jump over.")
  <2>1. e.errors # {}
    BY ErrorFacts
  <2> HIDE DEF e
  <2>2. UINT16_MAX \in Nat
    BY DistanceFacts
  <2>3. CASE dist > UINT16_MAX
    <3>1. PatchJump(s, jump) = [e EXCEPT !.functions[f].code[jump + 2] = u, !.functions[f].code[jump + 3] = l]
      BY <2>3 DEF PatchJump, e
    <3>2. PatchJump(s, jump).errors = e.errors
      <4>1. IsState(e)
        BY ErrorFacts DEF e, Keeps, Base
      <4> QED
        BY <3>1, <4>1 DEF IsState
    <3> QED
      BY <2>1, <3>2
  <2> QED
    BY <1>2, <2>2, <2>3
<1>5. PatchJump(s, jump) = [s EXCEPT !.functions[f].code[jump + 2] = u, !.functions[f].code[jump + 3] = l]
  <2> DEFINE e == IF dist > UINT16_MAX THEN ErrorAtCurrent(s, "Too much code to jump over.") ELSE s
  <2>1. e = s
    <3>1. UINT16_MAX \in Nat /\ dist \in Nat
      BY <1>2, DistanceFacts
    <3> HIDE DEF dist
    <3>2. ~(dist > UINT16_MAX)
      BY ONLY <1>4, <3>1
    <3> QED
      BY <3>2
  <2>2. PatchJump(s, jump) = [e EXCEPT !.functions[f].code[jump + 2] = u, !.functions[f].code[jump + 3] = l]
    BY DEF PatchJump
  <2> HIDE DEF e, u, l, f
  <2> QED
    BY <2>1, <2>2
<1>6. PatchJump(s, jump) = WithFunction(s, f, [Function(s) EXCEPT !.code = code])
  <2>1. [s EXCEPT !.functions[f].code[jump + 2] = u, !.functions[f].code[jump + 3] = l]
          = WithFunction(s, f, [Function(s) EXCEPT !.code = code])
    <3> HIDE DEF u, l, f
    <3> QED
      BY <1>1 DEF IsState, WithFunction, FunctionType, f
  <2> QED
    BY <1>5, <2>1
<1>7. half \in Seq(Byte) /\ Len(half) = Len(old) /\ \A i \in 1 .. Len(old) : half[i] = IF i = jump + 2 THEN u ELSE old[i]
  <2> HIDE DEF old, u, l, dist
  <2> QED
    BY <1>2, <1>3, ExceptSeq
<1>8. code \in Seq(Byte) /\ Len(code) = Len(half) /\ \A i \in 1 .. Len(half) : code[i] = IF i = jump + 3 THEN l ELSE half[i]
  <2>1. Len(half) \in Nat /\ jump + 3 \in 1 .. Len(half)
    BY <1>2, <1>7
  <2> HIDE DEF half, old, u, l, dist
  <2> QED
    BY <1>3, <1>7, <2>1, ExceptSeq
<1> HIDE DEF half, code, old
<1>9. \A i \in 1 .. CodeSize(s) :
        code[i] = IF i = jump + 2 THEN UpperByte(CodeSize(s) - 3 - jump)
                  ELSE IF i = jump + 3 THEN AsByte(CodeSize(s) - 3 - jump)
                  ELSE Function(s).code[i]
  <2> HIDE DEF u, l
  <2> SUFFICES ASSUME NEW i \in 1 .. CodeSize(s)
               PROVE  code[i] = IF i = jump + 2 THEN u ELSE IF i = jump + 3 THEN l ELSE old[i]
    BY DEF u, l, old
  <2> HIDE DEF dist
  <2> QED
    BY <1>2, <1>7, <1>8
<1> QED
  BY <1>2, <1>4, <1>6, <1>7, <1>8, <1>9

(* A jump that is too far is an error. *)
LEMMA PatchErrors ==
  ASSUME NEW s, Base(s), NEW jump, jump \in Nat, PatchJump(s, jump).errors = {}
  PROVE  s.errors = {} /\ CodeSize(s) - 3 - jump <= UINT16_MAX
<1> DEFINE f == This(s).function
           dist == CodeSize(s) - 3 - jump
           e == ErrorAtCurrent(s, "Too much code to jump over.")
           t == IF dist > UINT16_MAX THEN e ELSE s
<1>1. PatchJump(s, jump) = [t EXCEPT !.functions[f].code[jump + 2] = UpperByte(dist),
                                     !.functions[f].code[jump + 3] = AsByte(dist)]
  BY DEF PatchJump
<1>2. e.errors # {} /\ IsState(e)
  BY ErrorFacts DEF Keeps, Base
<1>3. IsState(s)
  BY DEF Base
<1>4. CodeSize(s) \in Nat /\ UINT16_MAX \in Nat
  BY CodeSizeFacts, DistanceFacts
<1>5. dist \in Int
  BY <1>4
<1> HIDE DEF e
<1>6. IsState(t)
  BY <1>2, <1>3
<1>7. t.errors = {} => s.errors = {} /\ ~(dist > UINT16_MAX)
  BY <1>2
<1> HIDE DEF t, dist
<1>8. PatchJump(s, jump).errors = t.errors
  <2> HIDE DEF f
  <2> QED
    BY <1>1, <1>6 DEF IsState
<1>9. s.errors = {} /\ dist <= UINT16_MAX
  BY <1>4, <1>5, <1>7, <1>8
<1> QED
  BY <1>9 DEF dist

(* patch_jump *)
LEMMA PatchTurns ==
  ASSUME NEW s, Base(s), NEW p, NEW jump, jump \in Nat,
         NEW open, Typed(s, p) => Leaves(p, p.open, p.temps, jump, open)
  PROVE  Turns(s, p, PatchJump(s, jump), With(p, open, p.marks, p.temps))
<1> DEFINE t == PatchJump(s, jump)
           f == This(s).function
           fs == s.functions
           gs == t.functions
           n == Len(fs[f].code)
           locals == This(s).locals
           on == OnStack(This(s), TRUE)
<1>1. Base(t) /\ t.work = s.work /\ (InText(s) => InText(t))
  BY PatchJumpFacts DEF Keeps
<1>2. t.errors = {} => s.errors = {}
  BY PatchErrors
<1> SUFFICES ASSUME Typed(s, p), t.errors = {}
             PROVE  Typed(t, With(p, open, p.marks, p.temps)) /\ More(s.functions, t.functions)
  BY <1>1, <1>2 DEF Turns
<1>3. PICK e \in p.open : Here(p, e) /\ e.temps = p.temps /\ AsUint16(e.at) = jump /\ open = p.open \ {e}
  BY DEF Leaves
<1>4. HereEntry(s, e)
  BY <1>3, HereLocals
<1>5. e.fun = f /\ e.locals = on
  BY <1>4 DEF HereEntry
<1>6. PICK y : FrameOk(fs, f, locals, y, on, p.temps, p.open, p.marks)
  BY FrameOf
<1>7. IsProgram(fs) /\ f \in DOMAIN fs /\ fs[f] = Function(s) /\ CodeSize(s) = n
  BY BaseProgram, BaseChain DEF CodeSize
<1>8. Len(locals) \in Nat
  BY OnStackFacts
<1> HIDE DEF f, fs, gs, locals, on
<1>9. e.at \in Nat /\ e.at + 3 <= n /\ n \in Nat
  <2>1. /\ e.at # n /\ Marked(y, e) /\ OpAt(fs[f], e.at) \in {"OP_JUMP", "OP_JUMP_IF_FALSE"}
        /\ \A a \in DOMAIN y \ {n} : Good(fs, f, y, Pending(p.open, f), a)
    BY <1>5, <1>6 DEF FrameOk
  <2>2. e.at \in DOMAIN y
    BY <2>1 DEF Marked
  <2>3. Sound(fs, f, y, e.at)
    BY <2>1, <2>2 DEF Good
  <2>4. Whole(fs[f], e.at) /\ e.at + Size(fs, fs[f], e.at) <= n
    BY <2>3 DEF Sound
  <2>5. /\ e.at \in Nat /\ n \in Nat
        /\ OpAt(fs[f], e.at) # "OP_CLOSURE" => Size(fs, fs[f], e.at) = 1 + Operands[OpAt(fs[f], e.at)]
    BY <1>7, <2>4, InstructionType
  <2>6. Operands[OpAt(fs[f], e.at)] = 2
    BY <2>1, CodesFacts, OperandsFacts, LeapFacts DEF LeapCode
  <2> QED
    BY <2>1, <2>4, <2>5, <2>6
<1> HIDE DEF n
<1>10. jump = e.at
  <2>1. AsUint16(e.at) \in Nat /\ (AsUint16(e.at) = e.at \/ AsUint16(e.at) <= e.at - UINT16_MAX - 1)
    BY <1>9, DistanceFacts
  <2>2. n - 3 - jump <= UINT16_MAX /\ UINT16_MAX \in Nat
    BY <1>7, PatchErrors, DistanceFacts
  <2> DEFINE a == e.at
  <2>3. a \in Nat /\ a + 3 <= n /\ n \in Nat /\ jump \in Nat /\ (jump = a \/ jump <= a - UINT16_MAX - 1)
    BY <1>3, <1>9, <2>1
  <2> HIDE DEF a
  <2>4. jump = a
    BY ONLY <2>2, <2>3
  <2> QED
    BY <2>4 DEF a
<1>11. jump + 3 <= CodeSize(s)
  BY <1>7, <1>9, <1>10
<1>12. PICK code : /\ code \in Seq(Byte) /\ Len(code) = CodeSize(s)
                   /\ \A i \in 1 .. CodeSize(s) :
                        code[i] = IF i = jump + 2 THEN UpperByte(CodeSize(s) - 3 - jump)
                                  ELSE IF i = jump + 3 THEN AsByte(CodeSize(s) - 3 - jump)
                                  ELSE Function(s).code[i]
                   /\ PatchJump(s, jump) = WithFunction(s, This(s).function, [Function(s) EXCEPT !.code = code])
  BY <1>11, PatchForm
<1>13. /\ Writes(s, t, code) /\ Function(t).constants = Function(s).constants
  BY <1>12, CodeWrites
<1>14. /\ IsProgram(gs) /\ f \in DOMAIN gs /\ gs[f] = Function(t)
       /\ SameClosures(fs, gs, f)
       /\ Extends(fs[f], gs[f]) /\ gs[f].arity = fs[f].arity /\ gs[f].code = code
  <2>1. /\ Function(t) = t.functions[This(s).function]
        /\ This(s).function \in DOMAIN s.functions /\ This(s).function \in DOMAIN t.functions
        /\ \A i \in DOMAIN s.functions : SameClosures(s.functions, t.functions, i)
        /\ IsProgram(t.functions)
    BY <1>13, WritesFacts
  <2> QED
    BY <1>7, <1>13, <2>1 DEF Writes, f, fs, gs
<1> DEFINE dist == n - 3 - jump
<1>15. dist \in 0 .. UINT16_MAX
  BY <1>7, <1>9, <1>10, <1>11, PatchErrors, DistanceFacts
<1>16. Patched(fs[f], gs[f], e.at)
  <2>1. Len(gs[f].code) = Len(fs[f].code)
    BY <1>7, <1>12, <1>14 DEF n
  <2>2. ASSUME NEW b \in 0 .. n - 1, b \notin {e.at + 1, e.at + 2}
        PROVE  code[b + 1] = Function(s).code[b + 1]
    <3>1. b + 1 \in 1 .. CodeSize(s) /\ b + 1 # jump + 2 /\ b + 1 # jump + 3
      BY <1>7, <1>9, <1>10, <2>2
    <3> QED
      BY <1>12, <3>1
  <2> QED
    BY <1>7, <1>14, <2>1, <2>2 DEF Patched, At, n
<1>17. Uint16(gs[f].code, e.at + 1) = Len(fs[f].code) - 3 - e.at
  <2>1. code[jump + 2] = UpperByte(dist)
    BY <1>7, <1>9, <1>11, <1>12
  <2>2. code[jump + 3] = AsByte(dist)
    <3>1. jump + 3 \in 1 .. CodeSize(s) /\ jump + 3 # jump + 2
      BY <1>11, <1>7, <1>9
    <3> QED
      BY <1>7, <1>12, <3>1
  <2>3. UpperByte(dist) * (UINT8_MAX + 1) + AsByte(dist) = dist
    BY <1>15, DistanceFacts
  <2> HIDE DEF dist
  <2>4. Uint16(code, jump + 1) = dist
    <3>1. Uint16(code, jump + 1) = code[jump + 1 + 1] * (UINT8_MAX + 1) + code[jump + 1 + 1 + 1]
      BY DEF Uint16, At
    <3>2. jump + 1 + 1 = jump + 2 /\ jump + 1 + 1 + 1 = jump + 3
      OBVIOUS
    <3> QED
      BY <2>1, <2>2, <2>3, <3>1, <3>2
  <2> QED
    BY <1>10, <1>14, <2>4 DEF dist, n
<1> HIDE DEF dist
<1>18. open \subseteq p.open /\ \A d \in p.open : d # e => d \in open
  BY <1>3
<1>19. FrameOk(gs, f, locals, y, on, p.temps, open, p.marks)
  <2> DEFINE before == p.open
             marks == p.marks
             temps == p.temps
  <2>1. e \in before /\ e.temps = temps
    BY <1>3
  <2>2. open \subseteq before /\ \A d \in before : d # e => d \in open
    BY <1>18
  <2>3. FrameOk(fs, f, locals, y, on, temps, before, marks)
    BY <1>6
  <2> HIDE DEF before, marks, temps
  <2>4. FrameOk(gs, f, locals, y, on, temps, open, marks)
    BY ONLY <1>5, <1>7, <1>8, <1>14, <1>16, <1>17, <2>1, <2>2, <2>3, FramePatches
  <2> QED
    BY <2>4 DEF marks, temps
<1>20. Outside(Function(t), Chain(s.compilers))
  <2>1. Outside(fs[f], Chain(s.compilers))
    BY <1>7, TopRow DEF fs
  <2> QED
    BY <1>7, <1>13, <2>1 DEF Outside
<1>21. Noted(s, p, open, p.marks)
  BY <1>3, <1>5 DEF Noted, f
<1>22. p.temps \in Nat
  BY TopRow
<1>23. \E z : FrameOk(t.functions, This(s).function, This(s).locals, z, OnStack(This(s), TRUE),
                        p.temps, open, p.marks)
  BY <1>19 DEF gs, f, locals, on
<1> QED
  BY <1>13, <1>20, <1>21, <1>22, <1>23, WriteTyping

-----------------------------------------------------------------------------
(* Constants *)

(* A function that gains something, twice. *)
LEMMA ExtendsTransitive ==
  ASSUME NEW f, NEW g, NEW h, Extends(f, g), Extends(g, h),
         DOMAIN f.constants = 1 .. Len(f.constants), DOMAIN g.constants = 1 .. Len(g.constants),
         Len(f.constants) \in Nat, Len(g.constants) \in Nat, Len(h.constants) \in Nat,
         f.upvalue_count \in Nat, g.upvalue_count \in Nat, h.upvalue_count \in Nat
  PROVE  Extends(f, h)
BY DEF Extends

(* Code is written twice. *)
LEMMA WritesTransitive ==
  ASSUME NEW s, NEW t, NEW u, NEW code, NEW after, Writes(s, t, code), Writes(t, u, after)
  PROVE  Writes(s, u, after)
<1>1. /\ This(t).function = This(s).function
      /\ This(s).function \in DOMAIN s.functions /\ This(s).function \in DOMAIN t.functions
      /\ Function(t) = t.functions[This(s).function] /\ Function(s) = s.functions[This(s).function]
      /\ IsProgram(s.functions) /\ IsProgram(t.functions)
  BY WritesFacts
<1>2. Function(u) = u.functions[This(t).function] /\ IsProgram(u.functions) /\ This(t).function \in DOMAIN u.functions
  BY WritesFacts
<1>3. Extends(Function(s), Function(u))
  <2>1. Extends(Function(s), Function(t)) /\ Extends(Function(t), Function(u))
    BY DEF Writes
  <2> DEFINE f == Function(s)
             g == Function(t)
             h == Function(u)
  <2>2. /\ DOMAIN f.constants = 1 .. Len(f.constants) /\ Len(f.constants) \in Nat /\ f.upvalue_count \in Nat
    BY <1>1, ProgramFacts
  <2>3. /\ DOMAIN g.constants = 1 .. Len(g.constants) /\ Len(g.constants) \in Nat /\ g.upvalue_count \in Nat
    BY <1>1, ProgramFacts
  <2>4. Len(h.constants) \in Nat /\ h.upvalue_count \in Nat
    BY <1>1, <1>2, ProgramFacts
  <2>5. Extends(f, g) /\ Extends(g, h)
    BY <2>1
  <2> HIDE DEF f, g, h
  <2>6. Extends(f, h)
    BY <2>2, <2>3, <2>4, <2>5, ExtendsTransitive
  <2> QED
    BY <2>6 DEF f, h
<1>4. \A j \in DOMAIN s.compilers : Same(s.compilers[j], u.compilers[j])
  <2>1. DOMAIN s.compilers = 1 .. Me(s) /\ DOMAIN t.compilers = 1 .. Me(t) /\ Me(t) = Me(s)
    BY BaseChain DEF Writes
  <2> QED
    BY <2>1 DEF Writes, Same
<1>5. /\ Base(s) /\ Base(u) /\ Me(u) = Me(s) /\ DOMAIN u.functions = DOMAIN s.functions
      /\ Function(u).upvalue_count = Function(s).upvalue_count
      /\ Function(u).name = Function(s).name /\ Function(u).arity = Function(s).arity
      /\ Function(u).code = after
  BY DEF Writes
<1>6. \A g \in DOMAIN s.functions \ {This(s).function} : u.functions[g] = s.functions[g]
  BY <1>1 DEF Writes
<1> QED
  BY <1>3, <1>4, <1>5, <1>6 DEF Writes

(* A jump, a loop or a return is written. *)
LEMMA LeapTurns ==
  ASSUME NEW s, NEW t, NEW bytes, bytes \in Seq(Nat), bytes # <<>>,
         Writes(s, t, Function(s).code \o bytes), Function(t).constants = Function(s).constants,
         NEW p, Typed(s, p),
         NEW op, op \in LeapCode, bytes[1] = Code[op], Len(bytes) = 1 + Operands[op],
         NEW later, later \in Nat, NEW open2, Noted(s, p, open2, p.marks),
         Leaps(s.functions, t.functions, This(s).function, bytes, OnStack(This(s), TRUE), p.temps,
               p.open, p.marks, op, later, open2)
  PROVE  Typed(t, With(p, open2, p.marks, later)) /\ More(s.functions, t.functions)
<1> DEFINE f == This(s).function
           fs == s.functions
           gs == t.functions
           locals == This(s).locals
           on == OnStack(This(s), TRUE)
           open == p.open
           marks == p.marks
           temps == p.temps
<1>1. Base(s) /\ Grows(fs, gs, f, bytes)
  BY WritesGrows DEF Writes
<1>2. PICK y : FrameOk(fs, f, locals, y, on, temps, open, marks)
  BY <1>1, FrameOf
<1>3. Len(locals) \in Nat
  BY <1>1, OnStackFacts
<1>4. Leaps(fs, gs, f, bytes, on, temps, open, marks, op, later, open2)
  OBVIOUS
<1>5. Outside(Function(t), Chain(s.compilers))
  <2>1. Outside(Function(s), Chain(s.compilers))
    BY <1>1, TopRow, BaseChain
  <2> QED
    BY <2>1 DEF Outside
<1> HIDE DEF f, fs, gs, locals, on, open, marks, temps
<1>6. \E z : FrameOk(gs, f, locals, z, on, later, open2, marks)
  BY ONLY <1>1, <1>2, <1>3, <1>4, op \in LeapCode, bytes[1] = Code[op], Len(bytes) = 1 + Operands[op], FrameLeaps
<1>7. \E z : FrameOk(t.functions, This(s).function, This(s).locals, z, OnStack(This(s), TRUE),
                       later, open2, p.marks)
  BY <1>6 DEF f, gs, locals, on, marks
<1> QED
  BY <1>5, <1>7, WriteTyping

(* A return in a function. *)
LEMMA ReturnTurns ==
  ASSUME NEW s, Base(s), NEW p, Typed(s, p) => p.temps >= 1 /\ Top(p).fun # 1,
         NEW later, later \in Nat
  PROVE  Turns(s, p, Emit(s, "OP_RETURN"), With(p, p.open, p.marks, later))
<1> DEFINE bytes == <<Code["OP_RETURN"]>>
           t == EmitBytes(s, bytes)
<1>0. "OP_RETURN" \in OpCode /\ "OP_RETURN" \in LeapCode /\ Operands["OP_RETURN"] = 0
  BY LeapFacts DEF LeapCode
<1>1. bytes \in Seq(Byte) /\ bytes[1] = Code["OP_RETURN"] /\ Len(bytes) = 1 + Operands["OP_RETURN"] /\ bytes # <<>>
  <2>1. Code["OP_RETURN"] \in Byte
    BY <1>0, ByteFacts
  <2> QED
    BY <1>0, <2>1
<1>2. Emit(s, "OP_RETURN") = t
  BY DEF Emit
<1> HIDE DEF bytes
<1>3. /\ Writes(s, t, Function(s).code \o bytes) /\ t.errors = s.errors
      /\ Function(t).constants = Function(s).constants
      /\ bytes \in Seq(Nat)
  BY <1>1, EmitBytesWrites
<1>4. Base(t) /\ t.work = s.work /\ (InText(s) => InText(t))
  BY <1>1, EmitBytesFacts DEF Keeps
<1> SUFFICES ASSUME Typed(s, p)
             PROVE  Typed(t, With(p, p.open, p.marks, later)) /\ More(s.functions, t.functions)
  BY <1>2, <1>3, <1>4 DEF Turns
<1>5. p.temps >= 1 /\ This(s).function # 1 /\ p.temps \in Nat
  <2>1. Top(p).fun = This(s).function /\ Top(p).depth = This(s).scope_depth /\ p.temps \in Nat
    BY TopRow
  <2>2. Top(p).fun = This(s).function
    BY <2>1
  <2> QED
    BY <2>1, <2>2
<1>6. Leaps(s.functions, t.functions, This(s).function, bytes, OnStack(This(s), TRUE), p.temps,
            p.open, p.marks, "OP_RETURN", later, p.open)
  <2> DEFINE f == This(s).function
             fs == s.functions
             gs == t.functions
             on == OnStack(This(s), TRUE)
             open == p.open
             marks == p.marks
             temps == p.temps
  <2>1. temps > 0 /\ f # 1
    BY <1>5
  <2> HIDE DEF f, fs, gs, on, open, marks, temps, t
  <2>2. Leaps(fs, gs, f, bytes, on, temps, open, marks, "OP_RETURN", later, open)
    BY <2>1 DEF Leaps
  <2> QED
    BY <2>2 DEF f, fs, gs, on, open, marks, temps
<1>7. Noted(s, p, p.open, p.marks)
  BY DEF Noted
<1> HIDE DEF t
<1> QED
  BY <1>0, <1>1, <1>3, <1>6, <1>7, LeapTurns

(* emit_loop appends an instruction, unless it reports an error. *)
LEMMA LoopForm ==
  ASSUME NEW s, Base(s), NEW start, start \in Nat, EmitLoop(s, start).errors = {}
  PROVE  /\ s.errors = {} /\ CodeSize(s) + 3 - start <= UINT16_MAX
         /\ Writes(s, EmitLoop(s, start),
                   Function(s).code \o <<Code["OP_LOOP"], UpperByte(CodeSize(s) + 3 - start),
                                         AsByte(CodeSize(s) + 3 - start)>>)
         /\ Function(EmitLoop(s, start)).constants = Function(s).constants
<1> DEFINE f == This(s).function
           o == Emit(s, "OP_LOOP")
           dist == CodeSize(o) + 2 - start
           e == ErrorAtPrevious(o, "Loop body too large, too much code to jump over.")
           t == IF dist > UINT16_MAX THEN e ELSE o
           tail == <<UpperByte(dist), AsByte(dist)>>
           old == Function(s).code
           code == old \o <<Code["OP_LOOP"]>>
<1>1. EmitLoop(s, start) = [t EXCEPT !.functions[f].code = @ \o tail]
  BY DEF EmitLoop
<1>2. "OP_LOOP" \in OpCode /\ Code["OP_LOOP"] \in Byte
  <2>1. "OP_LOOP" \in OpCode
    BY LeapFacts DEF LeapCode
  <2> QED
    BY ONLY <2>1, ByteFacts
<1>3. <<Code["OP_LOOP"]>> \in Seq(Byte) /\ o = EmitBytes(s, <<Code["OP_LOOP"]>>)
  BY <1>2 DEF Emit
<1>4. /\ Writes(s, o, code) /\ o.errors = s.errors /\ Function(o).constants = Function(s).constants
  BY <1>3, EmitBytesWrites
<1>5. Base(o) /\ This(o).function = f /\ Function(o).code = code
  <2>1. Same(This(s), This(o)) /\ This(o).function = This(s).function
    BY <1>4, WritesFacts
  <2> QED
    BY <1>4, <2>1 DEF Writes
<1>6. old \in Seq(Byte)
  BY BaseFacts DEF FunctionType
<1>7. CodeSize(o) = CodeSize(s) + 1 /\ CodeSize(s) \in Nat /\ code \in Seq(Byte)
  <2>1. CodeSize(o) = Len(code) /\ CodeSize(s) = Len(old)
    BY <1>5 DEF CodeSize
  <2> HIDE DEF old
  <2> QED
    BY <1>2, <1>6, <2>1
<1>8. dist = CodeSize(s) + 3 - start /\ dist \in Int
  BY <1>7
<1>9. e.errors # {} /\ IsState(e)
  BY <1>5, ErrorFacts DEF Keeps, Base
<1>10. IsState(o)
  BY <1>5 DEF Base
<1>11. tail \in Seq(Byte)
  <2> HIDE DEF dist
  <2>1. UpperByte(dist) \in Byte /\ AsByte(dist) \in Byte
    BY <1>8, ByteFacts
  <2> QED
    BY <2>1
<1> HIDE DEF dist, e, tail, o
<1>12. t.errors = {} => ~(dist > UINT16_MAX) /\ t = o
  BY <1>9
<1>13. IsState(t)
  BY <1>9, <1>10
<1> HIDE DEF t
<1>14. EmitLoop(s, start).errors = t.errors
  <2> HIDE DEF f
  <2> QED
    BY <1>1, <1>13 DEF IsState
<1>15. ~(dist > UINT16_MAX) /\ t = o
  BY <1>12, <1>14
<1>16. dist <= UINT16_MAX
  <2>1. UINT16_MAX \in Nat
    BY DistanceFacts
  <2> QED
    BY ONLY <1>8, <1>15, <2>1
<1>17. s.errors = {}
  BY <1>4, <1>14, <1>15
<1>18. EmitLoop(s, start) = WithFunction(o, This(o).function, [Function(o) EXCEPT !.code = code \o tail])
  <2>1. o.functions \in Seq(FunctionType) /\ f \in DOMAIN o.functions /\ Function(o) = o.functions[f] /\ IsState(o)
    BY <1>5, BaseFacts
  <2>2. EmitLoop(s, start) = [o EXCEPT !.functions[f].code = @ \o tail]
    BY <1>1, <1>15
  <2> HIDE DEF f, code
  <2>3. o.functions[f].code = code
    BY <1>5, <2>1
  <2>4. [o EXCEPT !.functions[f].code = @ \o tail] = WithFunction(o, f, [o.functions[f] EXCEPT !.code = code \o tail])
    BY ONLY <2>1, <2>3 DEF IsState, WithFunction, FunctionType
  <2> QED
    BY <1>5, <2>1, <2>2, <2>4
<1>19. code \o tail \in Seq(Byte)
  BY <1>7, <1>11
<1>20. /\ Writes(o, EmitLoop(s, start), code \o tail)
       /\ Function(EmitLoop(s, start)).constants = Function(o).constants
  BY <1>5, <1>18, <1>19, CodeWrites
<1>21. Writes(s, EmitLoop(s, start), code \o tail)
  BY <1>4, <1>20, WritesTransitive
<1>22. code \o tail = old \o <<Code["OP_LOOP"], UpperByte(dist), AsByte(dist)>>
  <2> DEFINE a == Code["OP_LOOP"]
             b == UpperByte(dist)
             c == AsByte(dist)
  <2>1. a \in Byte /\ b \in Byte /\ c \in Byte
    <3>1. UpperByte(dist) \in Byte /\ AsByte(dist) \in Byte
      BY <1>8, ByteFacts
    <3> QED
      BY <1>2, <3>1
  <2> HIDE DEF a, b, c, old
  <2>2. (old \o <<a>>) \o <<b, c>> = old \o <<a, b, c>>
    BY ONLY <1>6, <2>1
  <2> QED
    BY <2>2 DEF a, b, c, tail
<1> QED
  BY <1>4, <1>8, <1>16, <1>17, <1>20, <1>21, <1>22

(* emit_loop, whose target is a place that was noted. *)
LEMMA LoopTurns ==
  ASSUME NEW s, Base(s), NEW p, NEW start, start \in Nat,
         Typed(s, p) => LoopsTo(p, start) /\ p.temps = 0,
         NEW later, later \in Nat
  PROVE  Turns(s, p, EmitLoop(s, start), With(p, p.open, p.marks, later))
<1> DEFINE t == EmitLoop(s, start)
           n == CodeSize(s)
           dist == n + 3 - start
           bytes == <<Code["OP_LOOP"], UpperByte(dist), AsByte(dist)>>
<1>1. Base(t) /\ t.work = s.work /\ (InText(s) => InText(t))
  BY EmitLoopFacts DEF Keeps
<1>2. t.errors = {} => s.errors = {}
  BY LoopForm
<1> SUFFICES ASSUME Typed(s, p), t.errors = {}
             PROVE  Typed(t, With(p, p.open, p.marks, later)) /\ More(s.functions, t.functions)
  BY <1>1, <1>2 DEF Turns
<1>3. /\ dist <= UINT16_MAX /\ Writes(s, t, Function(s).code \o bytes)
      /\ Function(t).constants = Function(s).constants
  BY LoopForm
<1>4. PICK e \in p.marks : Here(p, e) /\ e.at # -1 /\ e.temps = 0 /\ start \in {e.at, AsUint16(e.at)}
  BY DEF LoopsTo
<1>5. HereEntry(s, e)
  BY <1>4, HereLocals
<1>6. e.fun = This(s).function /\ e.locals = OnStack(This(s), TRUE) /\ e.at \in Nat
  BY <1>4, <1>5 DEF HereEntry, EntryType
<1>7. PICK y : FrameOk(s.functions, This(s).function, This(s).locals, y, OnStack(This(s), TRUE),
                        p.temps, p.open, p.marks)
  BY FrameOf
<1>8. e.at <= n /\ n \in Nat
  <2>1. n = Len(s.functions[This(s).function].code) /\ n \in Nat
    BY BaseChain, CodeSizeFacts DEF CodeSize
  <2>2. Marked(y, e) /\ IsSheet(y, n)
    BY <1>4, <1>6, <1>7, <2>1 DEF FrameOk
  <2> QED
    BY <2>1, <2>2 DEF Marked, IsSheet
<1> HIDE DEF n
<1>9. start = e.at
  <2>1. AsUint16(e.at) \in Nat /\ (AsUint16(e.at) = e.at \/ AsUint16(e.at) <= e.at - UINT16_MAX - 1)
    BY <1>6, DistanceFacts
  <2>2. UINT16_MAX \in Nat
    BY DistanceFacts
  <2> DEFINE a == e.at
             b == AsUint16(e.at)
  <2>3. /\ a \in Nat /\ b \in Nat /\ start \in {a, b} /\ (b = a \/ b <= a - UINT16_MAX - 1)
        /\ n \in Nat /\ a <= n /\ n + 3 - start <= UINT16_MAX
    BY <1>3, <1>4, <1>6, <1>8, <2>1
  <2> HIDE DEF a, b
  <2>4. start = a
    BY ONLY <2>2, <2>3
  <2> QED
    BY <2>4 DEF a
<1>10. dist \in 0 .. UINT16_MAX
  BY <1>3, <1>8, <1>9, DistanceFacts
<1>11. "OP_LOOP" \in LeapCode /\ "OP_LOOP" \in OpCode /\ Operands["OP_LOOP"] = 2
  BY LeapFacts DEF LeapCode
<1> DEFINE u == UpperByte(dist)
           l == AsByte(dist)
<1>12. u * (UINT8_MAX + 1) + l = dist
  BY <1>10, DistanceFacts
<1>13. u \in Byte /\ l \in Byte /\ Code["OP_LOOP"] \in Byte
  <2> HIDE DEF dist
  <2> QED
    BY <1>10, <1>11, ByteFacts
<1>14. bytes = <<Code["OP_LOOP"], u, l>>
  OBVIOUS
<1> HIDE DEF u, l, dist
<1>15. /\ bytes \in Seq(Byte) /\ bytes[1] = Code["OP_LOOP"] /\ Len(bytes) = 1 + Operands["OP_LOOP"]
       /\ bytes # <<>> /\ bytes[2] = u /\ bytes[3] = l /\ Len(bytes) = 3
  BY <1>11, <1>13, <1>14
<1> HIDE DEF bytes
<1>16. bytes \in Seq(Nat)
  <2>0. bytes \in Seq(Byte)
    BY <1>15
  <2>1. IsSeq(bytes)
    BY <2>0, SeqIsSeq
  <2>2. \A i \in 1 .. Len(bytes) : bytes[i] \in Byte
    BY ONLY <2>0
  <2> QED
    BY <2>1, <2>2, BytesAreNats, SeqOfType
<1> HIDE DEF t
<1>17. Len(t.functions[This(s).function].code) = n + 3
  <2>1. Grows(s.functions, t.functions, This(s).function, bytes)
    BY <1>3, <1>15, <1>16, WritesGrows
  <2>2. Len(t.functions[This(s).function].code) = Len(s.functions[This(s).function].code) + Len(bytes)
    <3> DEFINE fs == s.functions
               gs == t.functions
               f == This(s).function
    <3>1. Grows(fs, gs, f, bytes)
      BY <2>1
    <3> HIDE DEF fs, gs, f
    <3>2. Len(gs[f].code) = Len(fs[f].code) + Len(bytes)
      BY ONLY <3>1, GrowsFacts
    <3> QED
      BY <3>2 DEF fs, gs, f
  <2> QED
    BY <1>15, <2>2, BaseChain DEF CodeSize, n
<1>18. e.at = (n + 3) - dist
  BY <1>8, <1>9 DEF dist
<1>19. Leaps(s.functions, t.functions, This(s).function, bytes, OnStack(This(s), TRUE), p.temps,
            p.open, p.marks, "OP_LOOP", later, p.open)
  <2> DEFINE f == This(s).function
             fs == s.functions
             gs == t.functions
             on == OnStack(This(s), TRUE)
             open == p.open
             marks == p.marks
             temps == p.temps
             k == Len(gs[f].code)
  <2>1. /\ e \in marks /\ e.fun = f /\ e.at # -1 /\ e.locals = on /\ e.temps = temps
        /\ e.at = k - (bytes[2] * (UINT8_MAX + 1) + bytes[3])
    <3>1. bytes[2] * (UINT8_MAX + 1) + bytes[3] = dist
      BY <1>12, <1>15
    <3> QED
      BY <1>4, <1>6, <1>17, <1>18, <3>1
  <2> HIDE DEF f, fs, gs, on, open, marks, temps, t
  <2>2. Leaps(fs, gs, f, bytes, on, temps, open, marks, "OP_LOOP", later, open)
    BY <2>1 DEF Leaps, k
  <2> QED
    BY <2>2 DEF f, fs, gs, on, open, marks, temps
<1>20. Noted(s, p, p.open, p.marks)
  BY DEF Noted
<1> HIDE DEF t
<1> QED
  BY <1>3, <1>11, <1>15, <1>16, <1>19, <1>20, LeapTurns

(* Once an error is reported, nothing is said of the code. *)
LEMMA FailedTurns ==
  ASSUME NEW s, NEW p, NEW t, NEW q, Base(t), t.work = s.work, InText(s) => InText(t), t.errors # {}
  PROVE  Turns(s, p, t, q)
BY DEF Turns

(* An instruction with an operand, if no error is known. *)
LEMMA OperandTurns ==
  ASSUME NEW s, Base(s), NEW p, NEW op, op \in PlainCode, Operands[op] = 1, NEW b, b \in 0 .. UINT8_MAX,
         s.errors = {} /\ Typed(s, p) => ArgOk(s, op, b) /\ Pops(op, b) <= p.temps,
         NEW temps, Typed(s, p) => temps = p.temps - Pops(op, b) + Pushes(op)
  PROVE  Turns(s, p, EmitWith(s, op, b), With(p, p.open, p.marks, temps))
<1>1. CASE s.errors = {}
  BY <1>1, EmitWithTurns
<1>2. CASE s.errors # {}
  <2> DEFINE t == EmitWith(s, op, b)
             bytes == <<Code[op], b>>
  <2>1. op \in OpCode /\ b \in Byte
    BY ByteFacts DEF PlainCode
  <2>2. Keeps(s, t)
    BY <2>1, EmitFacts
  <2>3. t.errors = s.errors
    BY EmitBytesStays DEF EmitWith
  <2>4. Base(t) /\ t.work = s.work /\ (InText(s) => InText(t)) /\ t.errors # {}
    BY <1>2, <2>2, <2>3 DEF Keeps
  <2> HIDE DEF t
  <2>5. Turns(s, p, t, With(p, p.open, p.marks, temps))
    BY <2>4, FailedTurns
  <2> QED
    BY <2>5 DEF t
<1> QED
  BY <1>1, <1>2

(* add_constant appends, unless it reports an error. *)
LEMMA ConstantForm ==
  ASSUME NEW s, Base(s), NEW val, val \in ConstantType, IsConstant(s.functions, val),
         AddConstant(s, val).errors = {}
  PROVE  /\ s.errors = {} /\ ConstantIndex(s) = Len(Function(s).constants)
         /\ Len(Function(s).constants) \in Nat
         /\ Writes(s, AddConstant(s, val), Function(s).code)
         /\ Function(AddConstant(s, val)).constants = Append(Function(s).constants, val)
<1> DEFINE f == This(s).function
           constants == Append(Function(s).constants, val)
           g == [Function(s) EXCEPT !.constants = constants]
           msg == "Too many constants in code chunk."
           t == AddConstant(s, val)
<1>1. /\ IsState(s) /\ f \in DOMAIN s.functions
      /\ Function(s) \in FunctionType /\ Function(s) = s.functions[f]
  BY BaseFacts
<1>2. Function(s).constants \in Seq(ConstantType) /\ Len(Function(s).constants) \in Nat
  <2>1. Function(s).constants \in Seq(ConstantType)
    BY <1>1 DEF FunctionType
  <2> QED
    BY <2>1
<1>3. /\ constants \in Seq(ConstantType)
      /\ Len(constants) = Len(Function(s).constants) + 1
      /\ \A i \in 1 .. Len(Function(s).constants) : constants[i] = Function(s).constants[i]
      /\ DOMAIN Function(s).constants = 1 .. Len(Function(s).constants)
  BY <1>2, AppendProperties
<1> HIDE DEF constants
<1>4. /\ g \in FunctionType /\ g.upvalue_count = Function(s).upvalue_count
      /\ g.constants = constants /\ g.code = Function(s).code
      /\ g.name = Function(s).name /\ g.arity = Function(s).arity
  BY <1>1, <1>3 DEF FunctionType
<1>5. WithFunction(s, f, g) = [s EXCEPT !.functions[f].constants = Append(@, val)]
  BY <1>1 DEF IsState, WithFunction, constants
<1> HIDE DEF g
<1>6. ~(Len(Function(s).constants) > UINT8_MAX)
  <2> SUFFICES ASSUME Len(Function(s).constants) > UINT8_MAX
               PROVE  FALSE
    OBVIOUS
  <2> DEFINE e == ErrorAtPrevious(s, msg)
  <2>1. t = ErrorAtPrevious(WithFunction(s, f, g), msg)
    BY <1>5 DEF AddConstant
  <2>2. t = WithFunction(e, f, g)
    BY <1>1, <1>4, <2>1, ErrorCommutes
  <2>3. IsState(e) /\ e.errors # {} /\ e.functions = s.functions
    BY ErrorFacts DEF OnlyFlags, Keeps, Base
  <2> HIDE DEF e
  <2>4. t.errors = e.errors
    BY <2>2, <2>3 DEF IsState, WithFunction
  <2> QED
    BY <2>3, <2>4
<1>7. t = WithFunction(s, f, g)
  BY <1>5, <1>6 DEF AddConstant
<1> HIDE DEF f
<1>8. /\ t.compilers = s.compilers /\ t.errors = s.errors
      /\ DOMAIN t.functions = DOMAIN s.functions
      /\ \A j \in DOMAIN s.functions : t.functions[j] = IF j = f THEN g ELSE s.functions[j]
  <2>1. IsState(s) /\ f \in DOMAIN s.functions /\ g \in FunctionType
    BY <1>1, <1>4
  <2>2. /\ WithFunction(s, f, g).compilers = s.compilers
        /\ WithFunction(s, f, g).errors = s.errors
        /\ DOMAIN WithFunction(s, f, g).functions = DOMAIN s.functions
        /\ \A j \in DOMAIN s.functions :
             WithFunction(s, f, g).functions[j] = IF j = f THEN g ELSE s.functions[j]
    BY ONLY <2>1, WithFunctionFacts
  <2> HIDE DEF t
  <2> QED
    BY <1>7, <2>2
<1>9. Base(t)
  BY AddConstantFacts DEF Keeps
<1> HIDE DEF t
<1>10. Me(t) = Me(s) /\ This(t) = This(s)
  BY <1>8 DEF Me, This
<1>11. Function(t) = g
  BY <1>1, <1>8, <1>10 DEF Function, f
<1>12. Extends(Function(s), Function(t))
  <2>1. IsProgram(s.functions)
    BY BaseProgram
  <2>2. Function(s).upvalue_count \in Nat
    BY <1>1, <2>1, ProgramFacts
  <2> QED
    BY <1>2, <1>3, <1>4, <1>11, <2>2 DEF Extends
<1>13. \A j \in DOMAIN s.compilers : Same(s.compilers[j], t.compilers[j])
  BY <1>8, SameReflexive
<1>14. \A j \in DOMAIN s.functions \ {f} : t.functions[j] = s.functions[j]
  BY <1>8
<1>15. Writes(s, t, Function(s).code)
  BY <1>4, <1>8, <1>9, <1>10, <1>11, <1>12, <1>13, <1>14 DEF Writes, f
<1>16. ConstantIndex(s) = Len(Function(s).constants)
  <2>1. Len(Function(s).constants) \in 0 .. UINT8_MAX
    BY <1>2, <1>6, ByteAssumption
  <2>2. \A n \in 0 .. UINT8_MAX : AsByte(n) = n
    BY ByteFacts
  <2> DEFINE n == Len(Function(s).constants)
  <2>3. n \in 0 .. UINT8_MAX
    BY <2>1
  <2> HIDE DEF n
  <2>4. AsByte(n) = n
    BY ONLY <2>2, <2>3
  <2> QED
    BY <2>4 DEF n, ConstantIndex
<1> QED
  BY <1>2, <1>4, <1>8, <1>11, <1>15, <1>16 DEF t, constants

(* The innermost function gets constants, or nothing. *)
LEMMA QuietTyping ==
  ASSUME NEW s, NEW t, Writes(s, t, Function(s).code), NEW p, Typed(s, p),
         Outside(Function(t), Chain(s.compilers))
  PROVE  Typed(t, With(p, p.open, p.marks, p.temps)) /\ More(s.functions, t.functions)
<1> DEFINE f == This(s).function
           fs == s.functions
           gs == t.functions
           locals == This(s).locals
           on == OnStack(This(s), TRUE)
           open == p.open
           marks == p.marks
           temps == p.temps
<1>1. /\ Function(t) = gs[f] /\ Function(s) = fs[f]
      /\ f \in DOMAIN fs /\ f \in DOMAIN gs
      /\ SameClosures(fs, gs, f) /\ IsProgram(fs) /\ IsProgram(gs)
  BY WritesFacts
<1>2. Extends(fs[f], gs[f]) /\ gs[f].code = fs[f].code /\ gs[f].arity = fs[f].arity
  BY <1>1 DEF Writes
<1>3. PICK y : FrameOk(fs, f, locals, y, on, temps, open, marks)
  BY FrameOf DEF Writes
<1>4. p.temps \in Nat
  BY TopRow DEF Writes
<1>5. Noted(s, p, p.open, p.marks)
  BY DEF Noted
<1> HIDE DEF f, fs, gs, locals, on, open, marks, temps
<1>6. FrameOk(gs, f, locals, y, on, temps, open, marks)
  BY ONLY <1>1, <1>2, <1>3, FrameStays
<1>7. \E z : FrameOk(t.functions, This(s).function, This(s).locals, z, OnStack(This(s), TRUE),
                       p.temps, p.open, p.marks)
  BY <1>6 DEF f, gs, locals, on, open, marks, temps
<1> QED
  BY <1>4, <1>5, <1>7, WriteTyping

(* add_constant: the constant is not a function that is still compiled. *)
LEMMA ConstantTurns ==
  ASSUME NEW s, Base(s), NEW val, val \in ConstantType, IsConstant(s.functions, val),
         IsFun(val) => val.fun \notin Chain(s.compilers), NEW p
  PROVE  Turns(s, p, AddConstant(s, val), With(p, p.open, p.marks, p.temps))
<1> DEFINE t == AddConstant(s, val)
<1>1. Base(t) /\ t.work = s.work /\ (InText(s) => InText(t))
  BY AddConstantFacts DEF Keeps
<1>2. t.errors = {} => s.errors = {}
  BY AddConstantStays
<1> SUFFICES ASSUME Typed(s, p), t.errors = {}
             PROVE  Typed(t, With(p, p.open, p.marks, p.temps)) /\ More(s.functions, t.functions)
  BY <1>1, <1>2 DEF Turns
<1>3. Writes(s, t, Function(s).code) /\ Function(t).constants = Append(Function(s).constants, val)
  BY ConstantForm
<1>4. Outside(Function(t), Chain(s.compilers))
  <2>1. Outside(Function(s), Chain(s.compilers))
    BY TopRow, BaseChain
  <2> DEFINE constants == Function(s).constants
             n == Len(constants)
  <2>2. constants \in Seq(ConstantType)
    BY BaseFacts DEF FunctionType
  <2> HIDE DEF constants
  <2>3. /\ DOMAIN Append(constants, val) = 1 .. n + 1 /\ n \in Nat
        /\ DOMAIN constants = 1 .. n
        /\ \A i \in 1 .. n : Append(constants, val)[i] = constants[i]
        /\ Append(constants, val)[n + 1] = val
    <3>1. IsSeq(constants)
      BY <2>2, SeqIsSeq
    <3> QED
      BY <3>1, SeqFacts, AppendFacts
  <2> HIDE DEF n
  <2>4. Function(t).constants = Append(constants, val)
    BY <1>3 DEF constants
  <2>5. \A j \in DOMAIN constants : IsFun(constants[j]) => constants[j].fun \notin Chain(s.compilers)
    BY <2>1 DEF Outside, constants
  <2> SUFFICES ASSUME NEW j \in 1 .. n + 1, IsFun(Append(constants, val)[j])
               PROVE  Append(constants, val)[j].fun \notin Chain(s.compilers)
    BY <2>3, <2>4 DEF Outside
  <2>6. CASE j = n + 1
    BY <2>3, <2>6
  <2>7. CASE j # n + 1
    <3>1. j \in 1 .. n
      BY <2>3, <2>7
    <3> QED
      BY <2>3, <2>5, <3>1
  <2> QED
    BY <2>6, <2>7
<1> QED
  BY <1>3, <1>4, QuietTyping

-----------------------------------------------------------------------------
(* Names are resolved *)

(* The same plan; a function that gains something may be fresh no longer. *)
Kept(p) == With(p, p.open, p.marks, p.temps)

(* The parts of a plan that is kept. *)
LEMMA KeptFacts ==
  ASSUME NEW p
  PROVE  /\ Kept(p).levels = p.levels /\ Kept(p).open = p.open /\ Kept(p).marks = p.marks
         /\ Kept(p).temps = p.temps /\ Kept(p).fresh = FALSE /\ Top(Kept(p)) = Top(p)
         /\ Kept(Kept(p)) = Kept(p) /\ (\A o, m, n : With(Kept(p), o, m, n) = With(p, o, m, n))
BY DEF Kept, With, Plan, Top

(* A procedure that changes nothing keeps the plan. *)
LEMMA KeptTurns ==
  ASSUME NEW s, Base(s), NEW p
  PROVE  Turns(s, p, s, Kept(p))
<1>1. Reads(s, s)
  BY SameReflexive DEF Reads
<1>2. Loose(p, Kept(p))
  BY KeptFacts DEF Loose
<1> QED
  BY <1>1, <1>2, ReadsTurns

(* A literal. *)
LEMMA LiteralTurns ==
  ASSUME NEW s, Base(s), NEW val, val \in ConstantType, IsConstant(s.functions, val), ~IsFun(val), NEW p
  PROVE  Turns(s, p, EmitConstant(s, val), With(p, p.open, p.marks, p.temps + 1))
<1> DEFINE t == AddConstant(s, val)
           i == ConstantIndex(s)
           q == Kept(p)
<1>1. Turns(s, p, t, q)
  BY ConstantTurns DEF Kept
<1>2. i \in 0 .. UINT8_MAX /\ Base(t)
  BY AddConstantFacts DEF Keeps
<1>3. t.errors = {} => i < Len(Function(t).constants)
  <2> SUFFICES ASSUME t.errors = {}
               PROVE  i < Len(Function(t).constants)
    OBVIOUS
  <2> DEFINE constants == Function(s).constants
  <2>1. i = Len(constants) /\ Len(constants) \in Nat /\ Function(t).constants = Append(constants, val)
    BY ConstantForm
  <2>2. constants \in Seq(ConstantType)
    BY BaseFacts DEF FunctionType
  <2> HIDE DEF constants, i, t
  <2>3. IsSeq(constants)
    BY <2>2, SeqIsSeq
  <2>4. Len(Append(constants, val)) = Len(constants) + 1
    BY <2>3, AppendFacts
  <2> QED
    BY <2>1, <2>4
<1>4. /\ "OP_CONSTANT" \in PlainCode /\ Operands["OP_CONSTANT"] = 1
      /\ Pops("OP_CONSTANT", i) = 0 /\ Pushes("OP_CONSTANT") = 1
  BY StackFacts DEF GetOps
<1> HIDE DEF t, i
<1>5. q.temps = p.temps /\ With(q, q.open, q.marks, p.temps + 1) = With(p, p.open, p.marks, p.temps + 1)
  BY DEF Kept, With, Plan
<1> HIDE DEF q
<1>6. Turns(t, q, EmitWith(t, "OP_CONSTANT", i), With(q, q.open, q.marks, p.temps + 1))
  <2>1. t.errors = {} /\ Typed(t, q) => ArgOk(t, "OP_CONSTANT", i) /\ Pops("OP_CONSTANT", i) <= q.temps
    <3> SUFFICES ASSUME t.errors = {}, Typed(t, q)
                 PROVE  ArgOk(t, "OP_CONSTANT", i) /\ Pops("OP_CONSTANT", i) <= q.temps
      OBVIOUS
    <3>1. q.temps \in Nat
      BY <1>2, TopRow
    <3>2. ArgOk(t, "OP_CONSTANT", i)
      BY <1>3 DEF ArgOk
    <3> QED
      BY <1>4, <3>1, <3>2
  <2>2. Typed(t, q) => p.temps + 1 = q.temps - Pops("OP_CONSTANT", i) + Pushes("OP_CONSTANT")
    <3> SUFFICES ASSUME Typed(t, q)
                 PROVE  p.temps + 1 = q.temps - Pops("OP_CONSTANT", i) + Pushes("OP_CONSTANT")
      OBVIOUS
    <3>1. q.temps \in Nat
      BY <1>2, TopRow
    <3> QED
      BY <1>4, <1>5, <3>1
  <2> QED
    BY <1>2, <1>4, <2>1, <2>2, OperandTurns
<1>7. EmitConstant(s, val) = EmitWith(t, "OP_CONSTANT", i)
  BY DEF EmitConstant, t, i
<1> QED
  BY <1>1, <1>5, <1>6, <1>7, TurnsTransitive

(* The name of a global. *)
LEMMA NameTurns ==
  ASSUME NEW s, Base(s), NEW name, name \in Lexeme, NEW p
  PROVE  /\ Turns(s, p, AddConstant(s, Str(name)), Kept(p))
         /\ ConstantIndex(s) \in 0 .. UINT8_MAX
         /\ AddConstant(s, Str(name)).errors = {} =>
              IsString(AddConstant(s, Str(name)).functions, This(AddConstant(s, Str(name))).function, ConstantIndex(s))
<1> DEFINE val == Str(name)
           t == AddConstant(s, val)
<1>1. val \in ConstantType /\ IsStr(val) /\ ~IsFun(val)
  BY DEF ConstantType, Str, IsStr, IsFun
<1>2. IsConstant(s.functions, val)
  BY <1>1 DEF IsConstant
<1> HIDE DEF val
<1>3. Turns(s, p, t, Kept(p)) /\ ConstantIndex(s) \in 0 .. UINT8_MAX /\ Base(t)
  BY <1>1, <1>2, ConstantTurns, AddConstantFacts DEF Kept, Keeps
<1>4. ASSUME t.errors = {}
      PROVE  IsString(t.functions, This(t).function, ConstantIndex(s))
  <2> DEFINE constants == Function(s).constants
             i == ConstantIndex(s)
  <2>1. i = Len(constants) /\ Len(constants) \in Nat /\ Function(t).constants = Append(constants, val)
    BY <1>1, <1>2, <1>4, ConstantForm
  <2>2. constants \in Seq(ConstantType)
    BY BaseFacts DEF FunctionType
  <2>3. Function(t) = t.functions[This(t).function] /\ This(t).function \in DOMAIN t.functions
    BY <1>3, BaseChain
  <2> HIDE DEF constants, i, t
  <2>4. IsSeq(constants)
    BY <2>2, SeqIsSeq
  <2>5. DOMAIN Append(constants, val) = 1 .. Len(constants) + 1 /\ Append(constants, val)[Len(constants) + 1] = val
    BY <2>4, AppendFacts
  <2>6. i + 1 \in 1 .. Len(constants) + 1 /\ i + 1 = Len(constants) + 1
    BY <2>1
  <2> QED
    BY <1>1, <2>1, <2>3, <2>5, <2>6 DEF IsString, i
<1> QED
  BY <1>3, <1>4 DEF val

-----------------------------------------------------------------------------
(* Locals that are named. *)

(* A local that is found has the name; so it is not the first. *)
LEMMA FoundLocal ==
  ASSUME NEW s, Base(s), NEW k, k \in DOMAIN s.compilers, NEW name, LocalIndex(s, k, name) >= 0
  PROVE  /\ LocalIndex(s, k, name) \in Nat
         /\ LocalIndex(s, k, name) + 1 \in 1 .. Len(s.compilers[k].locals)
         /\ s.compilers[k].locals[LocalIndex(s, k, name) + 1].name = name
<1> DEFINE locals == s.compilers[k].locals
           I == {i \in 1 .. Len(locals) : locals[i].name = name}
           n == SelectLastInSeq(locals, LAMBDA l : l.name = name)
<1>1. locals \in Seq(LocalType) /\ Len(locals) \in Nat
  <2>1. locals \in Seq(LocalType)
    BY BaseFacts DEF CompilerType
  <2> QED
    BY <2>1
<1>2. n = IF I # {} THEN Max(I) ELSE 0
  BY DEF SelectLastInSeq
<1>3. I # {} => Max(I) \in I
  <2>1. I \in SUBSET (1 .. Len(locals))
    OBVIOUS
  <2> HIDE DEF I
  <2> QED
    BY <1>1, <2>1, MaxFacts
<1>4. LocalIndex(s, k, name) = n - 1
  BY DEF LocalIndex
<1>5. n \in I \/ n = 0
  <2> HIDE DEF n, I
  <2> QED
    BY <1>2, <1>3
<1> HIDE DEF n
<1>6. n \in I /\ n \in 1 .. Len(locals) /\ locals[n].name = name
  BY <1>1, <1>4, <1>5
<1> HIDE DEF locals, I
<1>7. LocalIndex(s, k, name) \in Nat /\ LocalIndex(s, k, name) + 1 = n
  BY <1>1, <1>4, <1>6
<1> QED
  BY <1>6, <1>7 DEF locals

(* A local that is found and not ready is an error. *)
LEMMA ReadyForm ==
  ASSUME NEW s, Base(s), NEW k, k \in DOMAIN s.compilers, NEW name, ReportUnready(s, k, name).errors = {}
  PROVE  /\ ReportUnready(s, k, name) = s
         /\ s.compilers[k].locals[LocalIndex(s, k, name) + 1].ready
<1> DEFINE e == ErrorAt(s, k, s.compilers[k].previous, "Can't read local variable in its own initializer.")
<1>1. e.errors # {}
  BY ErrorAtFacts
<1> HIDE DEF e
<1>2. ReportUnready(s, k, name) = IF s.compilers[k].locals[LocalIndex(s, k, name) + 1].ready THEN s ELSE e
  BY DEF ReportUnready, e
<1> QED
  BY <1>1, <1>2

(* What is known of each compiler. *)
LEMMA RowOf ==
  ASSUME NEW s, Base(s), NEW p, Typed(s, p), NEW k, k \in DOMAIN s.compilers
  PROVE  /\ Row(s.functions, s.compilers[k], k = Len(s.compilers), IF k = Len(s.compilers) THEN p.temps ELSE 0,
                p.open, p.marks)
         /\ LocalsOk(s.compilers[k], k = Len(s.compilers))
BY DEF Typed, Typing, Row

(* A variable that is found in a state without errors. *)
LEMMA VariableFacts ==
  ASSUME NEW s, Base(s), NEW p, Typed(s, p), NEW k, k \in DOMAIN s.compilers, NEW name, name # "",
         LocalIndex(s, k, name) >= 0, s.compilers[k].locals[LocalIndex(s, k, name) + 1].ready
  PROVE  /\ LocalIndex(s, k, name) \in 1 .. Len(s.compilers[k].locals) - 1
         /\ LocalIndex(s, k, name) \in 1 .. UINT8_MAX
         /\ s.compilers[k].locals[LocalIndex(s, k, name) + 1].depth # -1
<1> DEFINE locals == s.compilers[k].locals
           i == LocalIndex(s, k, name)
<1>1. i \in Nat /\ i + 1 \in 1 .. Len(locals) /\ locals[i + 1].name = name
  BY ONLY Base(s), k \in DOMAIN s.compilers, LocalIndex(s, k, name) >= 0, FoundLocal
<1>2. LocalsOk(s.compilers[k], k = Len(s.compilers))
  BY RowOf
<1>3. locals[1].name = "" /\ \A j \in 1 .. Len(locals) : locals[j].ready => locals[j].depth # -1
  BY <1>2 DEF LocalsOk
<1>4. Len(locals) \in 1 .. UINT8_MAX + 1 /\ UINT8_MAX \in Nat
  BY ByteAssumption DEF Base, CompilerOk
<1> HIDE DEF locals, i
<1>5. i # 0
  <2>0. SUFFICES ASSUME i = 0
                  PROVE  FALSE
    OBVIOUS
  <2>1. i + 1 = 1
    BY ONLY <2>0
  <2>2. locals[1].name = name
    BY <1>1, <2>1
  <2> QED
    BY <1>3, <2>2
<1> DEFINE n == Len(locals)
<1>8. i \in Nat /\ i + 1 \in 1 .. n /\ n \in 1 .. UINT8_MAX + 1 /\ UINT8_MAX \in Nat /\ i # 0
  BY <1>1, <1>4, <1>5
<1> HIDE DEF n
<1>9. i \in 1 .. n - 1 /\ i \in 1 .. UINT8_MAX
  BY ONLY <1>8
<1>6. i \in 1 .. Len(locals) - 1 /\ i \in 1 .. UINT8_MAX
  BY <1>9 DEF n
<1>7. locals[i + 1].depth # -1
  BY <1>1, <1>3 DEF locals, i
<1> QED
  BY <1>6, <1>7 DEF locals, i

(* A local that is captured is otherwise the same. *)
LEMMA CapturedForm ==
  ASSUME NEW locals, locals \in Seq(LocalType), NEW n, n \in 1 .. Len(locals)
  PROVE  /\ Captured(locals, n) \in Seq(LocalType) /\ Len(Captured(locals, n)) = Len(locals)
         /\ \A i \in 1 .. Len(locals) :
              /\ Captured(locals, n)[i].name = locals[i].name
              /\ Captured(locals, n)[i].depth = locals[i].depth
              /\ Captured(locals, n)[i].ready = locals[i].ready
              /\ Captured(locals, n)[i].is_captured <=> (i = n \/ locals[i].is_captured)
<1> DEFINE r == [locals[n] EXCEPT !.is_captured = TRUE]
<1>1. locals[n] \in LocalType /\ Len(locals) \in Nat
  OBVIOUS
<1>2. /\ r \in LocalType /\ r.name = locals[n].name /\ r.depth = locals[n].depth
      /\ r.ready = locals[n].ready /\ r.is_captured
  BY <1>1 DEF LocalType
<1> HIDE DEF r
<1>3. Captured(locals, n) = [locals EXCEPT ![n] = r]
  BY DEF Captured, r
<1>4. /\ [locals EXCEPT ![n] = r] \in Seq(LocalType)
      /\ Len([locals EXCEPT ![n] = r]) = Len(locals)
      /\ \A i \in 1 .. Len(locals) : [locals EXCEPT ![n] = r][i] = IF i = n THEN r ELSE locals[i]
  BY <1>2, ExceptSeq
<1> HIDE DEF Captured
<1>5. ASSUME NEW i \in 1 .. Len(locals)
      PROVE  /\ Captured(locals, n)[i].name = locals[i].name
             /\ Captured(locals, n)[i].depth = locals[i].depth
             /\ Captured(locals, n)[i].ready = locals[i].ready
             /\ Captured(locals, n)[i].is_captured <=> (i = n \/ locals[i].is_captured)
  <2>1. CASE i = n
    <3>1. Captured(locals, n)[i] = r
      BY <1>3, <1>4, <2>1
    <3>2. Captured(locals, n)[i].is_captured
      BY <1>2, <3>1
    <3> QED
      BY <1>2, <2>1, <3>1, <3>2
  <2>2. CASE i # n
    <3>1. Captured(locals, n)[i] = locals[i]
      BY <1>3, <1>4, <2>2
    <3> QED
      BY <2>2, <3>1
  <2> QED
    BY <2>1, <2>2
<1> QED
  BY <1>3, <1>4, <1>5

(* The compiler c with one more captured local is d. *)
Captures1(c, d, local) ==
  /\ d.function = c.function /\ d.scope_depth = c.scope_depth /\ d.upvalues = c.upvalues
  /\ Len(c.locals) \in Nat \ {0} /\ Len(d.locals) = Len(c.locals)
  /\ local \in Nat /\ local + 1 \in 1 .. Len(c.locals) /\ c.locals[local + 1].depth # -1
  /\ \A i \in 1 .. Len(c.locals) :
       /\ d.locals[i].name = c.locals[i].name
       /\ d.locals[i].depth = c.locals[i].depth
       /\ d.locals[i].ready = c.locals[i].ready
       /\ d.locals[i].is_captured <=> (i = local + 1 \/ c.locals[i].is_captured)

(* A local that is captured does not change the level of its compiler, *)
LEMMA CaptureLevel ==
  ASSUME NEW c, NEW d, NEW local, Captures1(c, d, local)
  PROVE  LevelOf(d) = LevelOf(c)
<1> DEFINE n == Len(c.locals)
<1>1. /\ d.function = c.function /\ d.scope_depth = c.scope_depth /\ Len(d.locals) = n /\ n \in Nat \ {0}
      /\ \A i \in 1 .. n : d.locals[i].depth = c.locals[i].depth
  BY DEF Captures1
<1> HIDE DEF n
<1>2. n \in 1 .. n
  BY ONLY <1>1
<1>3. d.locals[n].depth = c.locals[n].depth
  BY <1>1, <1>2
<1> QED
  BY <1>1, <1>3 DEF LevelOf, Waits, n

(* nor its row: the local was already on the stack. *)
LEMMA CaptureRow ==
  ASSUME NEW fs, IsProgram(fs), NEW c, c.function \in DOMAIN fs, NEW d, NEW local, Captures1(c, d, local),
         NEW top, NEW temps, NEW open, NEW marks, Row(fs, c, top, temps, open, marks)
  PROVE  Row(fs, d, top, temps, open, marks)
<1> DEFINE n == Len(c.locals)
           f == c.function
           on == OnStack(c, top)
           before == c.locals
           after == d.locals
<1>1. OnStack(d, top) = on
  <2>1. n \in 1 .. n /\ Len(d.locals) = n
    BY DEF Captures1
  <2> QED
    BY <2>1 DEF Captures1, OnStack
<1>2. PICK y : FrameOk(fs, f, before, y, on, temps, open, marks)
  BY DEF Row
<1>3. /\ n \in Nat \ {0} /\ Len(after) = n /\ local \in Nat /\ local + 1 \in 1 .. n
      /\ \A i \in 1 .. n : /\ after[i].name = before[i].name
                           /\ after[i].depth = before[i].depth
                           /\ after[i].ready = before[i].ready
                           /\ after[i].is_captured <=> (i = local + 1 \/ before[i].is_captured)
      /\ before[local + 1].depth # -1
  BY DEF Captures1
<1>4. on \in 1 .. n
  BY <1>2 DEF FrameOk
<1> HIDE DEF on, before, after, f
<1>5. FrameOk(fs, f, after, Slotted(y, local), on, temps, open, marks)
  <2>1. Len(after) = Len(before)
    BY <1>3 DEF before
  <2>2. \A i \in 1 .. on : after[i].is_captured <=> (i = local + 1 \/ before[i].is_captured)
    BY <1>3, <1>4
  <2>3. f \in DOMAIN fs /\ IsProgram(fs)
    BY DEF f
  <2> QED
    BY ONLY <1>2, <1>3, <2>1, <2>2, <2>3, FrameSlotted
<1>6. LocalsOk(d, top)
  <2>1. /\ before[1].name = ""
        /\ \A i \in 1 .. n :
             /\ before[i].ready => before[i].depth # -1
             /\ before[i].depth <= c.scope_depth
             /\ before[i].depth = -1 => top /\ i = n /\ ~before[i].is_captured
             /\ \A j \in i .. n : before[j].depth # -1 => before[i].depth <= before[j].depth
    BY DEF Row, LocalsOk, before
  <2>2. after[1].name = ""
    <3>1. n \in Nat \ {0}
      BY <1>3
    <3> HIDE DEF n
    <3>2. 1 \in 1 .. n
      BY ONLY <3>1
    <3>3. after[1].name = before[1].name
      BY <1>3, <3>2
    <3> QED
      BY <2>1, <3>3
  <2>3. d.scope_depth = c.scope_depth
    BY DEF Captures1
  <2>a. ~top /\ d.scope_depth > 0 => after[Len(after)].depth = d.scope_depth
    <3>1. ~top /\ c.scope_depth > 0 => before[n].depth = c.scope_depth
      BY DEF Row, LocalsOk, before
    <3>2. after[n].depth = before[n].depth
      <4>1. n \in 1 .. n
        BY DEF Captures1
      <4> QED
        BY <1>3, <4>1
    <3> QED
      BY <1>3, <2>3, <3>1, <3>2
  <2> SUFFICES ASSUME NEW i \in 1 .. n
               PROVE  /\ after[i].ready => after[i].depth # -1
                      /\ after[i].depth <= c.scope_depth
                      /\ after[i].depth = -1 => top /\ i = n /\ ~after[i].is_captured
                      /\ \A j \in i .. n : after[j].depth # -1 => after[i].depth <= after[j].depth
    BY <1>3, <2>2, <2>3, <2>a DEF LocalsOk, after
  <2>4. after[i].ready => after[i].depth # -1
    BY <1>3, <2>1
  <2>5. after[i].depth <= c.scope_depth
    BY <1>3, <2>1
  <2>6. after[i].depth = -1 => top /\ i = n /\ ~after[i].is_captured
    BY <1>3, <2>1
  <2>7. \A j \in i .. n : after[j].depth # -1 => after[i].depth <= after[j].depth
    <3> SUFFICES ASSUME NEW j \in i .. n
                 PROVE  after[j].depth # -1 => after[i].depth <= after[j].depth
      OBVIOUS
    <3>1. n \in Nat \ {0} /\ i \in 1 .. n
      BY <1>3
    <3>2. before[j].depth # -1 => before[i].depth <= before[j].depth
      BY <2>1
    <3>3. after[i].depth = before[i].depth
      BY <1>3
    <3> HIDE DEF n
    <3>4. j \in 1 .. n
      BY ONLY <3>1, j \in i .. n
    <3>5. after[j].depth = before[j].depth
      BY <1>3, <3>4
    <3> QED
      BY <3>2, <3>3, <3>5
  <2> QED
    BY <2>4, <2>5, <2>6, <2>7
<1>7. ASSUME NEW e \in open \cup marks, e.fun = d.function
      PROVE  CountedBy(d, e)
  <2>1. CountedBy(c, e)
    BY <1>7 DEF Row, Captures1
  <2>2. d.scope_depth = c.scope_depth
    BY DEF Captures1
  <2> QED
    BY <1>3, <2>1, <2>2 DEF CountedBy, before, after
<1>8. \A i \in DOMAIN d.upvalues : d.upvalues[i].is_local => d.upvalues[i].index >= 1
  BY DEF Row, Captures1
<1>9. \E z : FrameOk(fs, d.function, d.locals, z, OnStack(d, top), temps, open, marks)
  BY <1>1, <1>5 DEF Captures1, f, after
<1> QED
  BY <1>6, <1>7, <1>8, <1>9 DEF Row

(* A local of the k-th compiler is marked as captured. *)
LEMMA CapturedTurns ==
  ASSUME NEW s, Base(s), NEW k, k \in DOMAIN s.compilers, NEW local, local \in Nat,
         local < Len(s.compilers[k].locals), NEW p,
         Typed(s, p) => s.compilers[k].locals[local + 1].depth # -1
  PROVE  Turns(s, p, MarkCaptured(s, k, local), Kept(p))
<1> DEFINE n == local + 1
           locals == Captured(s.compilers[k].locals, n)
           c == WithLocals(s.compilers[k], locals)
           t == WithCompiler(s, k, c)
           m == MarkCaptured(s, k, local)
<1>1. /\ IsState(s) /\ s.compilers[k] \in CompilerType
      /\ s.compilers[k].locals \in Seq(LocalType) /\ Len(s.compilers[k].locals) \in Nat
  <2>1. IsState(s) /\ s.compilers[k] \in CompilerType /\ CompilerOk(s, k)
    BY BaseFacts DEF Base
  <2>2. s.compilers[k].locals \in Seq(LocalType)
    BY <2>1 DEF CompilerType
  <2> QED
    BY <2>1, <2>2
<1>2. n \in 1 .. Len(s.compilers[k].locals)
  BY <1>1
<1>3. m = t
  BY <1>1 DEF MarkCaptured, IsState, WithCompiler, WithLocals, CompilerType, Captured
<1>4. /\ locals \in Seq(LocalType) /\ Len(locals) = Len(s.compilers[k].locals)
      /\ \A i \in 1 .. Len(s.compilers[k].locals) :
           /\ locals[i].name = s.compilers[k].locals[i].name
           /\ locals[i].depth = s.compilers[k].locals[i].depth
           /\ locals[i].ready = s.compilers[k].locals[i].ready
           /\ locals[i].is_captured <=> (i = n \/ s.compilers[k].locals[i].is_captured)
  <2> DEFINE before == s.compilers[k].locals
  <2>1. before \in Seq(LocalType) /\ n \in 1 .. Len(before)
    BY <1>1, <1>2
  <2> HIDE DEF before
  <2>2. /\ Captured(before, n) \in Seq(LocalType) /\ Len(Captured(before, n)) = Len(before)
        /\ \A i \in 1 .. Len(before) :
              /\ Captured(before, n)[i].name = before[i].name
              /\ Captured(before, n)[i].depth = before[i].depth
              /\ Captured(before, n)[i].ready = before[i].ready
              /\ Captured(before, n)[i].is_captured <=> (i = n \/ before[i].is_captured)
    <3> HIDE DEF n
    <3> QED
      BY ONLY <2>1, CapturedForm
  <2> QED
    BY <2>2 DEF before
<1> HIDE DEF locals
<1>5. /\ c \in CompilerType
      /\ c.function = s.compilers[k].function
      /\ c.scope_depth = s.compilers[k].scope_depth
      /\ c.upvalues = s.compilers[k].upvalues
      /\ c.locals = locals
  BY <1>1, <1>4, WithLocalsFacts
<1> HIDE DEF c
<1>6. /\ t.functions = s.functions /\ t.errors = s.errors
      /\ Len(t.compilers) = Len(s.compilers)
      /\ DOMAIN t.compilers = DOMAIN s.compilers
      /\ \A j \in DOMAIN s.compilers : t.compilers[j] = IF j = k THEN c ELSE s.compilers[j]
  <2>1. IsState(s) /\ k \in DOMAIN s.compilers /\ c \in CompilerType
    BY <1>1, <1>5
  <2> QED
    BY ONLY <2>1, WithCompilerFacts
<1>7. Base(m) /\ m.work = s.work /\ (InText(s) => InText(m)) /\ m.errors = s.errors
  BY MarkCapturedFacts DEF Keeps
<1> HIDE DEF t, m
<1> SUFFICES ASSUME Typed(s, p)
             PROVE  Typed(t, Kept(p)) /\ More(s.functions, t.functions)
  BY <1>3, <1>7 DEF Turns, m
<1> DEFINE fs == s.functions
           cs == s.compilers
           ds == t.compilers
<1>8. Base(t)
  BY <1>3, <1>7
<1>9. IsProgram(fs)
  BY BaseProgram
<1>10. /\ DOMAIN cs = 1 .. Len(cs) /\ Len(cs) \in Nat \ {0}
       /\ \A j \in DOMAIN cs : cs[j].function \in DOMAIN fs
       /\ \A j \in DOMAIN cs \ {k} : cs[j].function # cs[k].function
       /\ 1 \in DOMAIN cs
  BY BaseChain
<1>11. More(s.functions, t.functions)
  BY <1>6, <1>9, MoreReflexive
<1>12. Changes(fs, cs, fs, ds, k)
  <2>1. Extends(fs[cs[k].function], fs[cs[k].function])
    BY <1>9, <1>10, ExtendsReflexive
  <2>2. \A j \in DOMAIN cs : ds[j].function = cs[j].function
    BY <1>5, <1>6
  <2>3. \A j \in DOMAIN cs \ {k} : Same(cs[j], ds[j])
    BY <1>6, SameReflexive
  <2> QED
    BY <1>6, <1>9, <1>10, <2>1, <2>2, <2>3 DEF Changes
<1>16. Captures1(cs[k], c, local)
  <2>1. Len(cs[k].locals) \in Nat \ {0}
    BY <1>1, <1>2
  <2>2. c.locals = locals /\ c.function = cs[k].function /\ c.scope_depth = cs[k].scope_depth /\ c.upvalues = cs[k].upvalues
    BY <1>5
  <2>3. cs[k].locals[local + 1].depth # -1 /\ local + 1 \in 1 .. Len(cs[k].locals)
    BY <1>2
  <2> QED
    BY <1>4, <2>1, <2>2, <2>3 DEF Captures1
<1>13. PlanOk(fs, ds, Kept(p))
  <2>1. PlanOk(fs, cs, p)
    BY DEF Typed, Typing
  <2>2. Levels(ds) = Levels(cs)
    <3>1. LevelOf(c) = LevelOf(cs[k])
      BY <1>16, CaptureLevel
    <3> QED
      BY <1>6, <3>1 DEF Levels
  <2> QED
    BY <2>1, <2>2, KeptFacts DEF PlanOk
<1>14. \A f : Agree(f, p, Kept(p))
  BY KeptFacts DEF Agree
<1>15. Row(fs, ds[k], k = Len(cs), IF k = Len(cs) THEN Kept(p).temps ELSE 0, Kept(p).open, Kept(p).marks)
  <2>2. ds[k] = c
    BY <1>6
  <2>3. Row(fs, cs[k], k = Len(cs), IF k = Len(cs) THEN p.temps ELSE 0, p.open, p.marks)
    BY RowOf
  <2>4. IsProgram(fs) /\ cs[k].function \in DOMAIN fs
    BY <1>9, <1>10
  <2>1. Captures1(cs[k], c, local)
    BY <1>16
  <2> HIDE DEF fs, cs, ds
  <2> DEFINE top == k = Len(cs)
             temps == IF k = Len(cs) THEN p.temps ELSE 0
             open == p.open
             marks == p.marks
  <2>5. Row(fs, cs[k], top, temps, open, marks)
    BY <2>3
  <2> HIDE DEF top, temps, open, marks
  <2>6. Row(fs, c, top, temps, open, marks)
    BY ONLY <2>1, <2>4, <2>5, CaptureRow
  <2> QED
    BY <2>2, <2>6, KeptFacts DEF top, temps, open, marks
<1>19. Outside(fs[cs[k].function], Chain(cs))
  BY <1>10 DEF Typed, Typing
<1>17. k = 1 => ScriptOk(fs, ds)
  BY <1>5, <1>6, <1>10 DEF Typed, Typing, ScriptOk
<1>18. Typing(fs, ds, Kept(p))
  <2>1. Typing(fs, cs, p)
    BY DEF Typed
  <2>2. k # Len(cs) => Kept(p).temps = p.temps
    BY KeptFacts
  <2> HIDE DEF fs, cs, ds
  <2> DEFINE q == Kept(p)
  <2> HIDE DEF q
  <2> QED
    BY <1>12, <1>13, <1>14, <1>15, <1>19, <1>17, <2>1, <2>2, ChangeTyping DEF q
<1> QED
  BY <1>6, <1>11, <1>18 DEF Typed

(* A function gets another upvalue, and is otherwise the same. *)
LEMMA UpvalueFunctions ==
  ASSUME NEW s, Base(s), NEW k, k \in DOMAIN s.compilers, NEW c, c.function = s.compilers[k].function, NEW E
  PROVE  LET t == WithUpvalue(s, k, c, E)
             f == c.function
         IN  /\ \A g \in DOMAIN s.functions \ {f} : t.functions[g] = s.functions[g]
             /\ t.functions[f].code = s.functions[f].code /\ t.functions[f].arity = s.functions[f].arity
             /\ t.functions[f].name = s.functions[f].name
             /\ t.functions[f].constants = s.functions[f].constants
             /\ t.functions[f].upvalue_count = s.functions[f].upvalue_count + 1
<1> DEFINE fs == s.functions
           f == c.function
           g == [fs[f] EXCEPT !.upvalue_count = @ + 1]
           t == WithUpvalue(s, k, c, E)
<1>1. IsState(s) /\ f \in DOMAIN fs /\ fs[f] \in FunctionType
  BY BaseFacts
<1>2. t.functions = [fs EXCEPT ![f] = g]
  BY <1>1 DEF WithUpvalue, IsState
<1>3. /\ g.code = fs[f].code /\ g.arity = fs[f].arity /\ g.name = fs[f].name
      /\ g.constants = fs[f].constants /\ g.upvalue_count = fs[f].upvalue_count + 1
  <2> DEFINE h == fs[f]
  <2>1. h \in FunctionType
    BY <1>1
  <2> HIDE DEF h
  <2>2. /\ [h EXCEPT !.upvalue_count = @ + 1].code = h.code
        /\ [h EXCEPT !.upvalue_count = @ + 1].arity = h.arity
        /\ [h EXCEPT !.upvalue_count = @ + 1].name = h.name
        /\ [h EXCEPT !.upvalue_count = @ + 1].constants = h.constants
        /\ [h EXCEPT !.upvalue_count = @ + 1].upvalue_count = h.upvalue_count + 1
    BY <2>1 DEF FunctionType
  <2> QED
    BY <2>2 DEF h
<1> HIDE DEF g
<1>4. t.functions[f] = g /\ \A j \in DOMAIN fs \ {f} : t.functions[j] = fs[j]
  <2> HIDE DEF t, fs, f
  <2> QED
    BY ONLY <1>1, <1>2
<1> QED
  BY <1>3, <1>4

(* The compiler gets one. *)
LEMMA UpvalueRow ==
  ASSUME NEW fs, NEW c, NEW d, d.function = c.function, d.scope_depth = c.scope_depth, d.locals = c.locals,
         NEW upvalues, upvalues = c.upvalues, IsSeq(upvalues),
         NEW uv, uv.is_local => uv.index >= 1, d.upvalues = Append(upvalues, uv),
         NEW top, NEW temps, NEW open, NEW marks, Row(fs, c, top, temps, open, marks)
  PROVE  Row(fs, d, top, temps, open, marks)
<1>1. OnStack(d, top) = OnStack(c, top)
  BY DEF OnStack
<1>2. \E y : FrameOk(fs, d.function, d.locals, y, OnStack(d, top), temps, open, marks)
  BY <1>1 DEF Row
<1>3. LocalsOk(d, top)
  BY DEF Row, LocalsOk
<1>4. \A e \in open \cup marks : e.fun = d.function => CountedBy(d, e)
  BY DEF Row, CountedBy
<1>5. \A i \in DOMAIN d.upvalues : d.upvalues[i].is_local => d.upvalues[i].index >= 1
  <2>1. /\ DOMAIN Append(upvalues, uv) = 1 .. Len(upvalues) + 1
        /\ \A i \in 1 .. Len(upvalues) : Append(upvalues, uv)[i] = upvalues[i]
        /\ Append(upvalues, uv)[Len(upvalues) + 1] = uv
    BY AppendFacts
  <2>2. \A i \in DOMAIN upvalues : upvalues[i].is_local => upvalues[i].index >= 1
    BY DEF Row
  <2>3. DOMAIN upvalues = 1 .. Len(upvalues) /\ Len(upvalues) \in Nat
    BY SeqFacts
  <2> QED
    BY <2>1, <2>2, <2>3
<1> QED
  BY <1>2, <1>3, <1>4, <1>5 DEF Row

(* add_or_get_upvalue either finds an upvalue, or adds one, or reports an error. *)
LEMMA UpvalueForm ==
  ASSUME NEW s, Base(s), NEW k, k \in DOMAIN s.compilers, NEW uv, uv \in UpvalueType,
         AddUpvalue(s, k, uv).errors = {}
  PROVE  /\ s.errors = {}
         /\ \/ AddUpvalue(s, k, uv) = s
            \/ AddUpvalue(s, k, uv)
                 = WithUpvalue(s, k, WithUpvalues(s.compilers[k], Append(s.compilers[k].upvalues, uv)), s.errors)
<1> DEFINE c == WithUpvalues(s.compilers[k], Append(s.compilers[k].upvalues, uv))
           t == [s EXCEPT !.compilers[k].upvalues = Append(@, uv),
                          !.functions[s.compilers[k].function].upvalue_count = @ + 1]
           at == t.compilers[k].previous
           msg == "Too many closure variables in function."
           u == AddUpvalue(s, k, uv)
<1>1. t = WithUpvalue(s, k, c, s.errors)
  BY AddedUpvalueForm
<1>2. \/ u = s
      \/ u = ErrorAt(t, k, at, msg)
      \/ u = t
  BY DEF AddUpvalue
<1>3. WithUpvalue(s, k, c, s.errors).errors = s.errors
  <2>1. IsState(s)
    BY DEF Base
  <2> QED
    BY <2>1 DEF WithUpvalue, IsState
<1>4. u = ErrorAt(t, k, at, msg) => u = t
  <2> SUFFICES ASSUME u = ErrorAt(t, k, at, msg) PROVE u = t
    OBVIOUS
  <2>0. Append(s.compilers[k].upvalues, uv) \in Seq(UpvalueType) /\ s.compilers[k] \in CompilerType
    BY BaseFacts, AppendProperties DEF CompilerType
  <2>1. c.function = s.compilers[k].function /\ c \in CompilerType
    BY <2>0, WithUpvaluesFacts
  <2> HIDE DEF c, at, msg
  <2>2. ErrorAt(WithUpvalue(s, k, c, s.errors), k, at, msg) =
          IF c.panic_mode THEN WithUpvalue(s, k, c, s.errors)
          ELSE WithUpvalue(s, k, Panicking(c), s.errors \cup {[at |-> at, msg |-> msg]})
    <3> DEFINE E == s.errors
    <3>1. Base(s) /\ k \in DOMAIN s.compilers
      OBVIOUS
    <3> HIDE DEF E
    <3>2. ErrorAt(WithUpvalue(s, k, c, E), k, at, msg) =
            IF c.panic_mode THEN WithUpvalue(s, k, c, E)
            ELSE WithUpvalue(s, k, Panicking(c), E \cup {[at |-> at, msg |-> msg]})
      BY ONLY <2>1, <3>1, AddedErrorForm
    <3> QED
      BY <3>2 DEF E
  <2>3. WithUpvalue(s, k, Panicking(c), s.errors \cup {[at |-> at, msg |-> msg]}).errors # {}
    <3>1. IsState(s)
      BY DEF Base
    <3> QED
      BY <3>1 DEF WithUpvalue, IsState
  <2> QED
    BY <1>1, <2>2, <2>3
<1> HIDE DEF t, c
<1>5. u = s \/ u = WithUpvalue(s, k, c, s.errors)
  BY <1>1, <1>2, <1>4
<1> QED
  BY <1>3, <1>5 DEF c

(* add_or_get_upvalue: the first local, which has no name, is not captured. *)
LEMMA AddUpvalueTurns ==
  ASSUME NEW s, Base(s), NEW k, k \in DOMAIN s.compilers, k # 1, NEW uv, uv \in UpvalueType,
         s.errors = {} => UpvalueResolves(s.compilers[k - 1], uv),
         NEW p, s.errors = {} /\ Typed(s, p) => (uv.is_local => uv.index >= 1)
  PROVE  Turns(s, p, AddUpvalue(s, k, uv), Kept(p))
<1> DEFINE t == AddUpvalue(s, k, uv)
           c == WithUpvalues(s.compilers[k], Append(s.compilers[k].upvalues, uv))
<1>1. Base(t) /\ t.work = s.work /\ (InText(s) => InText(t))
  BY AddUpvalueFacts DEF Keeps
<1>2. CASE t.errors # {}
  BY <1>1, <1>2, FailedTurns
<1>3. CASE t = s
  BY <1>3, KeptTurns
<1>4. CASE t.errors = {} /\ t # s
  <2>1. s.errors = {} /\ t = WithUpvalue(s, k, c, s.errors)
    BY <1>4, UpvalueForm
  <2>2. /\ IsState(s) /\ s.compilers[k] \in CompilerType /\ IsSeq(s.compilers[k].upvalues)
        /\ Append(s.compilers[k].upvalues, uv) \in Seq(UpvalueType)
    <3>1. s.compilers[k] \in CompilerType /\ IsState(s)
      BY BaseFacts
    <3>2. s.compilers[k].upvalues \in Seq(UpvalueType)
      BY <3>1 DEF CompilerType
    <3> QED
      BY <3>1, <3>2, AppendProperties, SeqIsSeq
  <2>3. /\ c \in CompilerType
        /\ c.function = s.compilers[k].function
        /\ c.scope_depth = s.compilers[k].scope_depth
        /\ c.upvalues = Append(s.compilers[k].upvalues, uv)
        /\ c.locals = s.compilers[k].locals
    BY <2>2, WithUpvaluesFacts
  <2> HIDE DEF c, t
  <2>4. /\ Len(t.compilers) = Len(s.compilers)
        /\ DOMAIN t.compilers = DOMAIN s.compilers
        /\ \A j \in DOMAIN s.compilers : t.compilers[j] = IF j = k THEN c ELSE s.compilers[j]
        /\ DOMAIN t.functions = DOMAIN s.functions
    BY <2>1, <2>3, WithUpvalueFacts
  <2>5. /\ \A g \in DOMAIN s.functions \ {c.function} : t.functions[g] = s.functions[g]
        /\ t.functions[c.function].code = s.functions[c.function].code
        /\ t.functions[c.function].arity = s.functions[c.function].arity
        /\ t.functions[c.function].name = s.functions[c.function].name
        /\ t.functions[c.function].constants = s.functions[c.function].constants
        /\ t.functions[c.function].upvalue_count = s.functions[c.function].upvalue_count + 1
    <3>1. c.function = s.compilers[k].function
      BY <2>3
    <3> QED
      BY <2>1, <3>1, UpvalueFunctions
  <2> SUFFICES ASSUME Typed(s, p)
               PROVE  Typed(t, Kept(p)) /\ More(s.functions, t.functions)
    BY <1>1, <2>1 DEF Turns, t
  <2> DEFINE fs == s.functions
             gs == t.functions
             cs == s.compilers
             ds == t.compilers
             f == c.function
  <2>6. IsProgram(fs) /\ IsProgram(gs)
    BY <1>1, BaseProgram
  <2>7. /\ DOMAIN cs = 1 .. Len(cs) /\ Len(cs) \in Nat \ {0}
        /\ \A j \in DOMAIN cs : cs[j].function \in DOMAIN fs
        /\ \A j \in DOMAIN cs \ {k} : cs[j].function # cs[k].function
        /\ 1 \in DOMAIN cs
    BY BaseChain
  <2>8. f \in DOMAIN fs /\ f = cs[k].function
    BY <2>3, <2>7
  <2>9. fs[f].upvalue_count \in Nat /\ Len(fs[f].constants) \in Nat
    <3>1. fs[f] \in FunctionType
      BY <2>8, BaseFacts
    <3> QED
      BY <3>1 DEF FunctionType
  <2>10. Typing(fs, cs, p)
    BY DEF Typed
  <2> HIDE DEF fs, gs, cs, ds, f
  <2>11. /\ DOMAIN gs = DOMAIN fs /\ Len(ds) = Len(cs) /\ DOMAIN ds = DOMAIN cs
         /\ \A j \in DOMAIN cs : ds[j] = IF j = k THEN c ELSE cs[j]
    BY <2>4 DEF fs, gs, cs, ds
  <2>12. /\ \A g \in DOMAIN fs \ {f} : gs[g] = fs[g]
         /\ gs[f].code = fs[f].code /\ gs[f].arity = fs[f].arity /\ gs[f].name = fs[f].name
         /\ gs[f].constants = fs[f].constants /\ gs[f].upvalue_count = fs[f].upvalue_count + 1
    BY <2>5 DEF fs, gs, f
  <2>13. k \in DOMAIN cs /\ c.function = cs[k].function
    BY <2>8 DEF cs, f
  <2>14. Extends(fs[f], gs[f])
    BY <2>9, <2>12 DEF Extends
  <2>15. Changes(fs, cs, gs, ds, k)
    <3>1. \A j \in DOMAIN cs : ds[j].function = cs[j].function
      BY <2>11, <2>13
    <3>2. \A j \in DOMAIN cs \ {k} : Same(cs[j], ds[j])
      BY <2>11, SameReflexive
    <3> QED
      BY <2>6, <2>7, <2>8, <2>11, <2>12, <2>13, <2>14, <3>1, <3>2 DEF Changes
  <2>16. PlanOk(gs, ds, Kept(p))
    <3>1. PlanOk(fs, cs, p)
      BY <2>10 DEF Typing
    <3>2. Levels(ds) = Levels(cs)
      <4>1. \A j \in DOMAIN cs : ds[j].function = cs[j].function /\ ds[j].scope_depth = cs[j].scope_depth
                                  /\ ds[j].locals = cs[j].locals
        BY <2>3, <2>11, <2>13 DEF cs
      <4> QED
        BY <2>11, <4>1 DEF Levels, LevelOf, Waits
    <3> QED
      BY <2>11, <3>1, <3>2, KeptFacts DEF PlanOk
  <2>17. \A g : Agree(g, p, Kept(p))
    BY KeptFacts DEF Agree
  <2>18. Outside(fs[f], Chain(cs))
    BY <2>8, <2>10 DEF Typing
  <2>19. Outside(gs[f], Chain(cs))
    BY <2>12, <2>18 DEF Outside
  <2>20. SameClosures(fs, gs, f)
    <3> SUFFICES ASSUME NEW j, j \in DOMAIN fs[f].constants, IsFun(fs[f].constants[j])
                 PROVE  gs[fs[f].constants[j].fun].upvalue_count = fs[fs[f].constants[j].fun].upvalue_count
      BY DEF SameClosures
    <3> DEFINE g == fs[f].constants[j].fun
    <3>1. g \in DOMAIN fs
      <4>1. IsConstant(fs, fs[f].constants[j])
        BY <2>8 DEF Base, FunctionOk, fs
      <4> QED
        BY <4>1 DEF IsConstant, IsFun, IsNum, IsStr
    <3>2. g # f
      <4>1. f \in Chain(cs)
        BY <2>8, <2>13 DEF Chain
      <4> QED
        BY <2>18, <4>1 DEF Outside
    <3> QED
      BY <2>12, <3>1, <3>2
  <2>21. Row(gs, ds[k], k = Len(cs), IF k = Len(cs) THEN Kept(p).temps ELSE 0, Kept(p).open, Kept(p).marks)
    <3> DEFINE top == k = Len(cs)
               temps == IF k = Len(cs) THEN p.temps ELSE 0
    <3>1. Row(fs, cs[k], top, temps, p.open, p.marks)
      BY <2>10, <2>13 DEF Typing
    <3> HIDE DEF top, temps
    <3>2. Agree(cs[k].function, p, p)
      BY DEF Agree
    <3>3. Row(gs, cs[k], top, temps, p.open, p.marks)
      <4>1. cs[k].function = f
        BY <2>8
      <4>2. Same(cs[k], cs[k])
        BY SameReflexive
      <4>3. cs[k].function \in DOMAIN gs
        BY <2>8, <2>11
      <4> QED
        BY <2>6, <2>8, <2>12, <2>14, <2>20, <3>1, <3>2, <4>1, <4>2, <4>3, RowStays
    <3>4. /\ c.function = cs[k].function /\ c.scope_depth = cs[k].scope_depth /\ c.locals = cs[k].locals
          /\ IsSeq(cs[k].upvalues) /\ c.upvalues = Append(cs[k].upvalues, uv)
      BY <2>2, <2>3 DEF cs
    <3>5. uv.is_local => uv.index >= 1
      BY <2>1
    <3>6. Row(gs, c, top, temps, p.open, p.marks)
      BY ONLY <3>3, <3>4, <3>5, UpvalueRow
    <3>7. ds[k] = c
      BY <2>11, <2>13
    <3> QED
      BY <3>6, <3>7, KeptFacts DEF top, temps
  <2>22. k # Len(cs) => Kept(p).temps = p.temps
    BY KeptFacts
  <2>23. Typing(gs, ds, Kept(p))
    <3> DEFINE q == Kept(p)
    <3> HIDE DEF q
    <3>1. Outside(gs[cs[k].function], Chain(cs))
      BY <2>8, <2>19
    <3> QED
      BY <2>10, <2>15, <2>16, <2>17, <2>21, <2>22, <3>1, ChangeTyping DEF q
  <2>24. More(fs, gs)
    <3>1. \A g \in DOMAIN fs : Extends(fs[g], fs[g])
      BY <2>6, ExtendsReflexive
    <3> QED
      BY <2>11, <2>12, <2>14, <3>1 DEF More
  <2> QED
    BY <2>23, <2>24 DEF Typed, fs, gs, ds
<1> QED
  BY <1>2, <1>3, <1>4

(* resolve_upvalue as far as r: it does not capture the first local. *)
Tracks(s, p, r) ==
  /\ Turns(s, p, r.s, Kept(p))
  /\ r.s.errors = {} /\ Typed(s, p) => (r.uv.is_local => r.uv.index >= 1)

(* A local is captured, and is found ready. *)
LEMMA CaptureLocalTracks ==
  ASSUME NEW s, Base(s), NEW p, NEW k, k \in DOMAIN s.compilers, NEW name, name # "",
         LocalIndex(s, k, name) >= 0
  PROVE  Tracks(s, p, CaptureLocal(s, k, name))
<1> DEFINE r == CaptureLocal(s, k, name)
           local == LocalIndex(s, k, name)
           u == ReportUnready(s, k, name)
<1>1. r.s = MarkCaptured(u, k, local) /\ r.uv = Upvalue(AsByte(local), TRUE)
  BY DEF CaptureLocal
<1>2. Finds(s, r, k)
  BY CaptureLocalFacts
<1>3. Base(r.s) /\ r.s.work = s.work /\ (InText(s) => InText(r.s))
  BY <1>2 DEF Finds, Keeps
<1>4. CASE r.s.errors # {}
  BY <1>3, <1>4, FailedTurns DEF Tracks
<1>5. CASE r.s.errors = {}
  <2>1. local \in Nat /\ local + 1 \in 1 .. Len(s.compilers[k].locals)
    BY FoundLocal
  <2>6. local < Len(s.compilers[k].locals)
    <3>1. s.compilers[k] \in CompilerType
      BY BaseFacts
    <3>2. s.compilers[k].locals \in Seq(LocalType)
      BY <3>1 DEF CompilerType
    <3> DEFINE locals == s.compilers[k].locals
    <3>3. locals \in Seq(LocalType) /\ local \in Nat /\ local + 1 \in 1 .. Len(locals)
      BY <2>1, <3>2
    <3> HIDE DEF local, locals
    <3>4. Len(locals) \in Nat
      BY ONLY <3>3
    <3>5. local < Len(locals)
      BY ONLY <3>3, <3>4
    <3> QED
      BY <3>5 DEF locals
  <2>2. u.errors = {}
    <3>1. Keeps(s, u) /\ OnlyFlags(s, u)
      BY ReportUnreadyFacts
    <3>2. Base(u) /\ k \in DOMAIN u.compilers /\ local < Len(u.compilers[k].locals)
      <4>1. DOMAIN u.compilers = DOMAIN s.compilers
        BY <3>1, OnlyFlagsFacts
      <4>2. u.compilers[k].locals = s.compilers[k].locals
        BY <3>1 DEF OnlyFlags
      <4>3. Base(u)
        BY <3>1 DEF Keeps
      <4> QED
        BY <2>6, <4>1, <4>2, <4>3
    <3> HIDE DEF u, local
    <3>3. MarkCaptured(u, k, local).errors = u.errors
      BY <2>1, <3>2, MarkCapturedFacts
    <3> QED
      BY <1>1, <1>5, <3>3
  <2>3. u = s /\ s.compilers[k].locals[local + 1].ready
    BY <2>2, ReadyForm
  <2>4. r.s = MarkCaptured(s, k, local)
    BY <1>1, <2>3
  <2>5. Typed(s, p) => /\ local \in 1 .. UINT8_MAX
                       /\ s.compilers[k].locals[local + 1].depth # -1
    BY <2>3, VariableFacts
  <2> HIDE DEF local
  <2>7. Turns(s, p, MarkCaptured(s, k, local), Kept(p))
    BY <2>1, <2>5, <2>6, CapturedTurns
  <2>8. Typed(s, p) => r.uv.index >= 1
    <3> SUFFICES ASSUME Typed(s, p) PROVE r.uv.index >= 1
      OBVIOUS
    <3>0. local \in 1 .. UINT8_MAX /\ UINT8_MAX \in Nat
      BY <2>5, ByteAssumption
    <3>1. AsByte(local) = local
      <4>1. local \in 0 .. UINT8_MAX
        BY ONLY <3>0
      <4> QED
        BY <4>1, ByteFacts
    <3>2. r.uv.index = AsByte(local)
      <4>1. r.uv = Upvalue(AsByte(local), TRUE)
        BY <1>1 DEF local
      <4> HIDE DEF r
      <4> QED
        BY ONLY <4>1 DEF Upvalue
    <3> HIDE DEF r
    <3>3. local >= 1
      BY ONLY <3>0
    <3> QED
      BY ONLY <3>1, <3>2, <3>3
  <2> QED
    BY <2>4, <2>7, <2>8 DEF Tracks
<1> QED
  BY <1>4, <1>5

(* An upvalue is passed on to the next function in. *)
LEMMA CaptureUpvalueTracks ==
  ASSUME NEW s, Base(s), NEW p, NEW k, k \in DOMAIN s.compilers, k # 1, NEW r,
         Finds(s, r, k - 1), Tracks(s, p, r)
  PROVE  Tracks(s, p, CaptureUpvalue(r, k))
<1> DEFINE q == CaptureUpvalue(r, k)
           t == AddUpvalue(r.s, k, r.uv)
<1>1. q.s = t /\ q.uv = Upvalue(UpvalueIndex(r.s, k, r.uv), FALSE)
  BY DEF CaptureUpvalue
<1>2. Finds(s, q, k)
  BY CaptureUpvalueFacts
<1>3. Base(t) /\ t.work = s.work /\ (InText(s) => InText(t))
  BY <1>1, <1>2 DEF Finds, Keeps
<1>4. Base(r.s) /\ k \in DOMAIN r.s.compilers /\ r.uv \in UpvalueType
      /\ (r.s.errors = {} => UpvalueResolves(r.s.compilers[k - 1], r.uv))
  <2>1. Base(r.s) /\ Len(r.s.compilers) = Len(s.compilers)
    BY DEF Finds, Keeps, SameScopes
  <2>2. DOMAIN r.s.compilers = DOMAIN s.compilers
    BY <2>1, BaseFacts
  <2> QED
    BY <2>1, <2>2 DEF Finds
<1>5. ~q.uv.is_local
  BY <1>1 DEF Upvalue
<1> SUFFICES Turns(s, p, t, Kept(p))
  BY <1>1, <1>5 DEF Tracks
<1> HIDE DEF q, t
<1>6. CASE t.errors # {}
  BY <1>3, <1>6, FailedTurns
<1>7. CASE t.errors = {} /\ Typed(s, p)
  <2>1. Turns(s, p, r.s, Kept(p))
    BY DEF Tracks
  <2>2. r.s.errors = {} => (r.uv.is_local => r.uv.index >= 1)
    BY <1>7 DEF Tracks
  <2>3. Turns(r.s, Kept(p), t, Kept(Kept(p)))
    BY <1>4, <2>2, AddUpvalueTurns DEF t
  <2>4. Kept(Kept(p)) = Kept(p)
    BY KeptFacts
  <2> QED
    BY <2>1, <2>3, <2>4, TurnsTransitive
<1>8. CASE t.errors = {} /\ ~Typed(s, p)
  <2>1. r.s.errors = {}
    BY <1>4, <1>8, UpvalueForm DEF t
  <2>2. s.errors = {}
    BY <2>1 DEF Tracks, Turns
  <2> QED
    BY <1>3, <1>8, <2>2 DEF Turns
<1> QED
  BY <1>6, <1>7, <1>8

(* resolve_upvalue *)
LEMMA ResolveUpvalueTracks ==
  ASSUME NEW s, Base(s), NEW p, NEW owner \in DOMAIN s.compilers, owner # Me(s), NEW name, name # "",
         LocalIndex(s, owner, name) >= 0
  PROVE  Tracks(s, p, ResolveUpvalue(s, owner, name)) /\ ~ResolveUpvalue(s, owner, name).uv.is_local
<1> DEFINE N == Me(s) - owner
<1>1. owner \in Nat /\ Me(s) \in Nat /\ N \in Nat /\ DOMAIN s.compilers = 1 .. Me(s) /\ owner # 0 /\ N # 0
  <2>1. Me(s) \in Nat /\ DOMAIN s.compilers = 1 .. Me(s)
    BY BaseFacts
  <2>2. owner \in 1 .. Me(s) /\ owner # Me(s)
    BY <2>1
  <2> QED
    BY ONLY <2>1, <2>2
<1>8. Me(s) = owner + N
  BY ONLY <1>1
<1> HIDE DEF N
<1>2. PICK r : /\ r[0] = CaptureLocal(s, owner, name)
               /\ \A n \in 0 .. N - 1 : r[n + 1] = CaptureUpvalue(r[n], owner + (n + 1))
               /\ ResolveUpvalue(s, owner, name) = r[N]
  <2>1. N \in Nat /\ N = Me(s) - owner
    BY ONLY <1>1, <1>8
  <2> QED
    BY ONLY <2>1, CaptureLoop
<1> DEFINE Good1(n) == Finds(s, r[n], owner + n) /\ Tracks(s, p, r[n])
           S == {i \in Nat : i <= N => Good1(i)}
<1>3. 0 \in S
  <2>1. Finds(s, r[0], owner) /\ Tracks(s, p, r[0])
    BY <1>2, CaptureLocalFacts, CaptureLocalTracks
  <2>2. owner + 0 = owner
    BY ONLY <1>1
  <2>3. Good1(0)
    BY <2>1, <2>2
  <2> HIDE DEF Good1
  <2> QED
    BY ONLY <2>3 DEF S
<1>4. ASSUME NEW n \in Nat, n \in S PROVE n + 1 \in S
  <2> SUFFICES ASSUME n + 1 <= N
               PROVE  Good1(n + 1)
    <3> HIDE DEF Good1
    <3>1. n + 1 \in Nat
      BY ONLY n \in Nat
    <3> QED
      BY <3>1 DEF S
  <2> DEFINE k == owner + (n + 1)
  <2>0. n \in Nat /\ n + 1 <= N
    BY <1>4
  <2>1. /\ n \in 0 .. N - 1 /\ k \in 1 .. Me(s) /\ k - 1 = owner + n /\ k # 1 /\ n <= N
    BY ONLY <1>1, <1>8, <2>0
  <2>2. Good1(n)
    <3> HIDE DEF Good1
    <3> QED
      BY ONLY <1>4, <2>1 DEF S
  <2>3. r[n + 1] = CaptureUpvalue(r[n], k)
    BY <1>2, <2>1
  <2> DEFINE q == r[n]
  <2>4. k \in DOMAIN s.compilers /\ k # 1 /\ Finds(s, q, k - 1) /\ Tracks(s, p, q)
    <3>1. k - 1 = owner + n
      BY <2>1
    <3>2. Finds(s, q, owner + n) /\ Tracks(s, p, q)
      BY <2>2
    <3> HIDE DEF q, k
    <3>3. Finds(s, q, k - 1)
      BY ONLY <3>1, <3>2
    <3> QED
      BY <1>1, <2>1, <3>2, <3>3
  <2> HIDE DEF q, k
  <2>5. Finds(s, CaptureUpvalue(q, k), k)
    BY <2>4, CaptureUpvalueFacts
  <2>6. Tracks(s, p, CaptureUpvalue(q, k))
    BY <2>4, CaptureUpvalueTracks
  <2> QED
    BY <2>3, <2>5, <2>6 DEF q, k
<1>5. Nat \subseteq S
  <2> HIDE DEF S
  <2> QED
    BY <1>3, <1>4, Induction
<1>6. Tracks(s, p, r[N])
  <2> HIDE DEF Good1
  <2>1. Good1(N)
    BY ONLY <1>1, <1>5 DEF S
  <2> QED
    BY <2>1 DEF Good1
<1>7. ~r[N].uv.is_local
  <2>1. N - 1 \in 0 .. N - 1 /\ N - 1 + 1 = N
    BY ONLY <1>1
  <2> DEFINE m == N - 1
  <2>2. r[m + 1] = CaptureUpvalue(r[m], owner + (m + 1))
    BY <1>2, <2>1
  <2>3. r[N] = CaptureUpvalue(r[m], owner + (m + 1))
    BY <2>1, <2>2
  <2> HIDE DEF m
  <2>4. ~CaptureUpvalue(r[m], owner + (m + 1)).uv.is_local
    BY DEF CaptureUpvalue, Upvalue
  <2> QED
    BY <2>3, <2>4
<1> QED
  BY <1>2, <1>6, <1>7

(* The name of a variable resolves to one that the instructions may refer to. *)
Names(s, p, r) ==
  /\ Turns(s, p, r.s, Kept(p))
  /\ r.index \in 0 .. UINT8_MAX /\ r.get \in GetOps /\ r.set \in SetOps
  /\ r.s.errors = {} /\ Typed(s, p) => ArgOk(r.s, r.get, r.index) /\ ArgOk(r.s, r.set, r.index)

(* A local of the innermost function. *)
LEMMA LocalNames ==
  ASSUME NEW s, Base(s), NEW p, NEW name, name # "", LocalIndex(s, Me(s), name) >= 0
  PROVE  Names(s, p, [s |-> ReportUnready(s, Me(s), name), index |-> AsByte(LocalIndex(s, Me(s), name)),
                      get |-> "OP_GET_LOCAL", set |-> "OP_SET_LOCAL"])
<1> DEFINE k == Me(s)
           local == LocalIndex(s, k, name)
           u == ReportUnready(s, k, name)
           r == [s |-> u, index |-> AsByte(local), get |-> "OP_GET_LOCAL", set |-> "OP_SET_LOCAL"]
<1>1. k \in DOMAIN s.compilers /\ k = Len(s.compilers) /\ This(s) = s.compilers[k]
  BY BaseFacts
<1>2. r.s = u /\ r.index = AsByte(local) /\ r.get = "OP_GET_LOCAL" /\ r.set = "OP_SET_LOCAL"
  OBVIOUS
<1> HIDE DEF r
<1>3. r.index \in 0 .. UINT8_MAX
  <2>1. local \in Int
    BY <1>1, LocalIndexFacts
  <2> QED
    BY <1>2, <2>1, ByteFacts
<1>4. Base(u) /\ u.work = s.work /\ (InText(s) => InText(u))
  BY <1>1, ReportUnreadyFacts DEF Keeps
<1>5. u.errors = {} => u = s /\ s.compilers[k].locals[local + 1].ready
  <2> HIDE DEF k, local
  <2> QED
    BY <1>1, ReadyForm DEF u, local
<1>6. Turns(s, p, u, Kept(p))
  <2>1. CASE u.errors # {}
    BY <1>4, <2>1, FailedTurns
  <2>2. CASE u.errors = {}
    <3>1. u = s
      BY <1>5, <2>2
    <3> QED
      BY <3>1, KeptTurns
  <2> QED
    BY <2>1, <2>2
<1>7. u.errors = {} /\ Typed(s, p) => r.index \in 1 .. OnStack(This(u), TRUE) - 1
  <2> SUFFICES ASSUME u.errors = {}, Typed(s, p)
               PROVE  r.index \in 1 .. OnStack(This(u), TRUE) - 1
    OBVIOUS
  <2>1. u = s /\ s.compilers[k].locals[local + 1].ready
    BY <1>5
  <2>2. /\ local \in 1 .. Len(s.compilers[k].locals) - 1 /\ local \in 1 .. UINT8_MAX
        /\ s.compilers[k].locals[local + 1].depth # -1
    BY <1>1, <2>1, VariableFacts
  <2>3. AsByte(local) = local
    <3>0. local \in 1 .. UINT8_MAX /\ UINT8_MAX \in Nat
      BY <2>2, ByteAssumption
    <3> HIDE DEF local
    <3>1. local \in 0 .. UINT8_MAX
      BY ONLY <3>0
    <3> QED
      BY <3>1, ByteFacts
  <2> DEFINE n == Len(This(s).locals)
             on == OnStack(This(s), TRUE)
             last == This(s).locals[n].depth
  <2>4. /\ on = IF last = -1 THEN n - 1 ELSE n
        /\ n \in Nat
    BY OnStackFacts
  <2>5. local \in 1 .. n - 1 /\ (local + 1 = n => last # -1)
    BY <1>1, <2>2
  <2> HIDE DEF n, on, last, local
  <2>6. local \in 1 .. on - 1
    BY ONLY <2>4, <2>5
  <2> QED
    BY <1>2, <2>1, <2>3, <2>6 DEF on
<1> QED
  BY <1>2, <1>3, <1>6, <1>7 DEF Names, ArgOk, GetOps, SetOps

(* A global. *)
LEMMA GlobalNames ==
  ASSUME NEW s, Base(s), NEW p, NEW name, name \in Lexeme
  PROVE  Names(s, p, [s |-> AddConstant(s, Str(name)), index |-> ConstantIndex(s),
                      get |-> "OP_GET_GLOBAL", set |-> "OP_SET_GLOBAL"])
<1> DEFINE u == AddConstant(s, Str(name))
           i == ConstantIndex(s)
           r == [s |-> u, index |-> i, get |-> "OP_GET_GLOBAL", set |-> "OP_SET_GLOBAL"]
<1>1. /\ Turns(s, p, u, Kept(p)) /\ i \in 0 .. UINT8_MAX
      /\ u.errors = {} => IsString(u.functions, This(u).function, i)
  BY NameTurns
<1> HIDE DEF u, i
<1>2. r.s = u /\ r.index = i /\ r.get = "OP_GET_GLOBAL" /\ r.set = "OP_SET_GLOBAL"
  OBVIOUS
<1> HIDE DEF r
<1>3. Names(s, p, r)
  BY <1>1, <1>2 DEF Names, ArgOk, GetOps, SetOps
<1> QED
  BY <1>3 DEF r, u, i

(* A local of an enclosing function. *)
LEMMA UpvalueNames ==
  ASSUME NEW s, Base(s), NEW p, NEW owner \in DOMAIN s.compilers, owner # Me(s), NEW name, name # "",
         LocalIndex(s, owner, name) >= 0, NEW q, q = ResolveUpvalue(s, owner, name)
  PROVE  Names(s, p, [s |-> q.s, index |-> q.uv.index, get |-> "OP_GET_UPVALUE", set |-> "OP_SET_UPVALUE"])
<1> DEFINE r == [s |-> q.s, index |-> q.uv.index, get |-> "OP_GET_UPVALUE", set |-> "OP_SET_UPVALUE"]
<1>1. Tracks(s, p, q) /\ ~q.uv.is_local
  BY ResolveUpvalueTracks
<1>2. Finds(s, q, Me(s))
  BY ResolveUpvalueFacts
<1>3. r.s = q.s /\ r.index = q.uv.index /\ r.get = "OP_GET_UPVALUE" /\ r.set = "OP_SET_UPVALUE"
  OBVIOUS
<1> HIDE DEF r
<1>4. r.index \in 0 .. UINT8_MAX
  BY <1>2, <1>3 DEF Finds, UpvalueType
<1>5. r.s.errors = {} => r.index < Function(r.s).upvalue_count
  <2> SUFFICES ASSUME r.s.errors = {} PROVE r.index < Function(r.s).upvalue_count
    OBVIOUS
  <2>1. Base(r.s) /\ Len(r.s.compilers) = Len(s.compilers)
    BY <1>2, <1>3 DEF Finds, Keeps, SameScopes
  <2>2. Me(s) = Me(r.s) /\ This(r.s) = r.s.compilers[Me(r.s)]
    BY <2>1, BaseFacts
  <2>3. UpvalueResolves(This(r.s), q.uv)
    BY <1>2, <1>3, <2>2 DEF Finds
  <2>4. r.index < Len(This(r.s).upvalues)
    BY <1>1, <1>3, <2>3 DEF UpvalueResolves
  <2>5. Len(This(r.s).upvalues) = Function(r.s).upvalue_count
    BY <2>1, OwnFacts DEF Function
  <2> QED
    BY <2>4, <2>5
<1>6. Turns(s, p, r.s, Kept(p))
  BY <1>1, <1>3 DEF Tracks
<1> QED
  BY <1>3, <1>4, <1>5, <1>6 DEF Names, ArgOk, GetOps, SetOps

(* named_variable, up to the choice between reading and assigning *)
LEMMA ResolveTurns ==
  ASSUME NEW s, Base(s), NEW p, NEW name, name \in Lexeme, name # ""
  PROVE  Names(s, p, Resolve(s, name))
<1> DEFINE owner == Owner(s, name)
<1>1. /\ owner \in 0 .. Me(s)
      /\ owner # 0 => owner \in DOMAIN s.compilers /\ LocalIndex(s, owner, name) >= 0
  BY OwnerFacts
<1>2. Me(s) # 0 /\ Me(s) \in Nat
  BY BaseFacts
<1>3. CASE owner = Me(s)
  <2>1. Resolve(s, name) =
          [s |-> ReportUnready(s, Me(s), name), index |-> AsByte(LocalIndex(s, Me(s), name)),
           get |-> "OP_GET_LOCAL", set |-> "OP_SET_LOCAL"]
    BY <1>2, <1>3 DEF Resolve
  <2>2. LocalIndex(s, Me(s), name) >= 0
    BY <1>1, <1>2, <1>3
  <2> QED
    BY <2>1, <2>2, LocalNames
<1>4. CASE owner = 0
  <2>1. Resolve(s, name) =
          [s |-> AddConstant(s, Str(name)), index |-> ConstantIndex(s),
           get |-> "OP_GET_GLOBAL", set |-> "OP_SET_GLOBAL"]
    BY <1>2, <1>4 DEF Resolve
  <2> QED
    BY <2>1, GlobalNames
<1>5. CASE owner # Me(s) /\ owner # 0
  <2> DEFINE q == ResolveUpvalue(s, owner, name)
             r == [s |-> q.s, index |-> q.uv.index, get |-> "OP_GET_UPVALUE", set |-> "OP_SET_UPVALUE"]
  <2>1. Resolve(s, name) = r
    BY <1>5 DEF Resolve
  <2>2. Names(s, p, r)
    <3>1. owner \in DOMAIN s.compilers /\ LocalIndex(s, owner, name) >= 0 /\ owner # Me(s)
      BY <1>1, <1>5
    <3> HIDE DEF owner
    <3> QED
      BY <3>1, UpvalueNames
  <2> QED
    BY <2>1, <2>2
<1> QED
  BY <1>3, <1>4, <1>5

-----------------------------------------------------------------------------
(* What a call takes one plan to, by the name of the call. *)

(* Compilers and waiting jumps are the same, and no address is new. *)
Moves(p, q) == q.levels = p.levels /\ q.open = p.open /\ q.marks \subseteq p.marks /\ q.fresh = FALSE

(* consume, and synchronize where no error is known *)
LEMMA GoesReading ==
  ASSUME NEW fs, NEW p, NEW c, NEW q, c.do \in {"consume", "synchronize"}
  PROVE  Goes(fs, p, c, q) <=> Moves(p, q) /\ q.temps = p.temps
BY DEF Goes, GoesExpression, Moves, Steady, ExpressionName, StatementName, ClosingName

(* parse_precedence leaves a value. *)
LEMMA GoesParsing ==
  ASSUME NEW fs, NEW p, NEW c, NEW q, c.do = "parse_precedence"
  PROVE  Goes(fs, p, c, q) <=> Moves(p, q) /\ q.temps = p.temps + 1
BY DEF Goes, GoesExpression, Moves, Steady, ExpressionName, StatementName, ClosingName

(* The loop of parse_precedence replaces one. *)
LEMMA GoesInfix ==
  ASSUME NEW fs, NEW p, NEW c, NEW q, c.do = "infix"
  PROVE  Goes(fs, p, c, q) <=> Moves(p, q) /\ p.temps >= 1 /\ q.temps = p.temps
BY DEF Goes, GoesExpression, Moves, Steady, ExpressionName, StatementName, ClosingName

(* What is called and its arguments are replaced by the result. *)
LEMMA GoesCalling ==
  ASSUME NEW fs, NEW p, NEW c, NEW q, c.do \in {"argument", "next_argument", "end_call"}
  PROVE  Goes(fs, p, c, q) <=> Moves(p, q) /\ p.temps >= c.count + 1 /\ q.temps = p.temps - c.count
BY DEF Goes, GoesExpression, Moves, Steady, ExpressionName, StatementName, ClosingName

(* An instruction that was put off. *)
LEMMA GoesEmitting ==
  ASSUME NEW fs, NEW p, NEW c, NEW q, c.do = "emit"
  PROVE  Goes(fs, p, c, q) <=> Moves(p, q) /\ Emits(fs, p, c.bytes, q)
BY DEF Goes, GoesExpression, Moves, Steady, ExpressionName, StatementName, ClosingName

(* A jump out of an expression or an if statement *)
LEMMA GoesPatching ==
  ASSUME NEW fs, NEW p, NEW c, NEW q, c.do = "patch_jump"
  PROVE  Goes(fs, p, c, q) <=> /\ q.levels = p.levels /\ q.marks \subseteq p.marks /\ q.fresh = FALSE
                               /\ q.temps = p.temps /\ Leaves(p, p.open, p.temps, c.jump, q.open)
BY DEF Goes, GoesExpression, ExpressionName, StatementName, ClosingName

(* A statement leaves nothing on the stack. *)
LEMMA GoesSteady ==
  ASSUME NEW fs, NEW p, NEW c, NEW q, c.do \in SteadyStatement
  PROVE  Goes(fs, p, c, q) <=> Moves(p, q) /\ p.temps = 0 /\ q.temps = 0
BY DEF Goes, GoesStatement, SteadyStatement, Moves, Declaring, ExpressionName, StatementName, ClosingName

(* A declaration may be made where no jump waits, and where none is made back to. *)
LEMMA GoesDeclaring ==
  ASSUME NEW fs, NEW p, NEW c, NEW q, c.do \in Declaring \ {"parameter"}
  PROVE  Goes(fs, p, c, q) <=> /\ Moves(p, q) /\ p.temps = 0 /\ q.temps = 0
                               /\ Clear(p, p.open) /\ Clear(p, q.marks)
BY DEF Goes, GoesStatement, SteadyStatement, Moves, Declaring, ExpressionName, StatementName, ClosingName

(* A parameter is declared where there is no code yet. *)
LEMMA GoesParameter ==
  ASSUME NEW fs, NEW p, NEW c, NEW q, c.do = "parameter"
  PROVE  Goes(fs, p, c, q) <=> /\ Moves(p, q) /\ p.temps = 0 /\ q.temps = 0
                               /\ Clear(p, p.open) /\ Clear(p, q.marks)
                               /\ p.fresh /\ Len(p.levels) >= 2 /\ Top(p).depth >= 1
                               /\ Empty(p, p.open) /\ Empty(p, q.marks)
BY DEF Goes, GoesStatement, SteadyStatement, Moves, Declaring, ExpressionName, StatementName, ClosingName

(* The value of a variable becomes a local, or that of a global. *)
LEMMA GoesDefining ==
  ASSUME NEW fs, NEW p, NEW c, NEW q, c.do = "define_variable"
  PROVE  Goes(fs, p, c, q) <=> /\ q.open = p.open /\ q.marks \subseteq p.marks /\ q.fresh = FALSE
                               /\ p.temps = 1 /\ q.temps = 0
                               /\ Clear(p, p.open) /\ Clear(p, q.marks)
                               /\ DefinesLast(p, q)
                               /\ Top(p).depth = 0 => IsString(fs, Top(p).fun, c.index)
BY DEF Goes, GoesStatement, SteadyStatement, Declaring, ExpressionName, StatementName, ClosingName

(* The parts of an if statement. *)
LEMMA GoesIfThen ==
  ASSUME NEW fs, NEW p, NEW c, NEW q, c.do = "if_then"
  PROVE  Goes(fs, p, c, q) <=> Moves(p, q) /\ p.temps = 1 /\ q.temps = 0
BY DEF Goes, GoesStatement, SteadyStatement, Moves, Declaring, ExpressionName, StatementName, ClosingName

(* The jump over the first branch lands in front of the pop of the second. *)
LEMMA GoesIfElse ==
  ASSUME NEW fs, NEW p, NEW c, NEW q, c.do = "if_else"
  PROVE  Goes(fs, p, c, q) <=> /\ q.levels = p.levels /\ q.marks \subseteq p.marks /\ q.fresh = FALSE
                               /\ p.temps = 0 /\ q.temps = 0 /\ Leaves(p, p.open, 1, c.jump, q.open)
BY DEF Goes, GoesStatement, SteadyStatement, Declaring, ExpressionName, StatementName, ClosingName

(* The parts of a while statement. *)
LEMMA GoesWhileBody ==
  ASSUME NEW fs, NEW p, NEW c, NEW q, c.do = "while_body"
  PROVE  Goes(fs, p, c, q) <=> Moves(p, q) /\ p.temps = 1 /\ q.temps = 0 /\ LoopsTo(p, c.start)
BY DEF Goes, GoesStatement, SteadyStatement, Moves, Declaring, ExpressionName, StatementName, ClosingName

(* The loop jumps back to where it began, and the jump out of it lands behind. *)
LEMMA GoesEndLoop ==
  ASSUME NEW fs, NEW p, NEW c, NEW q, c.do = "end_loop"
  PROVE  Goes(fs, p, c, q) <=> /\ q.levels = p.levels /\ q.marks \subseteq p.marks /\ q.fresh = FALSE
                               /\ p.temps = 0 /\ q.temps = 0
                               /\ LoopsTo(p, c.start) /\ LeavesBy(p, p.open, c.exit, q.open)
BY DEF Goes, GoesStatement, SteadyStatement, Declaring, ExpressionName, StatementName, ClosingName

(* What leaves a scope. *)
LEMMA GoesEnding ==
  ASSUME NEW fs, NEW p, NEW c, NEW q, c.do \in ClosingName
  PROVE  Goes(fs, p, c, q) <=> q.marks \subseteq p.marks /\ q.fresh = FALSE /\ GoesClosing(p, c, q)
BY DEF Goes, ExpressionName, StatementName, ClosingName

(* What leaves a function. *)
LEMMA GoesLeaving ==
  ASSUME NEW fs, NEW p, NEW c, NEW q, c.do = "end_function"
  PROVE  Goes(fs, p, c, q) <=> q.marks \subseteq p.marks /\ q.fresh = FALSE /\ GoesEndFunction(fs, p, c, q)
BY DEF Goes, ExpressionName, StatementName, ClosingName

-----------------------------------------------------------------------------
(* Calls are left to be made. *)

(* Unless an error is reported, the code is right for the calls that wait. *)
Goal(t) == t.errors = {} => \E p : Typed(t, p) /\ Fits(t.functions, p, t.work)

(* A procedure leaves nothing to be called. *)
LEMMA Hands0 ==
  ASSUME NEW s, Base(s), NEW p, Typed(s, p), NEW q, Fits(s.functions, q, s.work),
         NEW t, NEW r, Turns(s, p, t, r), Typed(t, r) => Loose(r, q)
  PROVE  Goal(t)
<1> SUFFICES ASSUME t.errors = {} PROVE \E o : Typed(t, o) /\ Fits(t.functions, o, t.work)
  BY DEF Goal
<1>1. Base(t) /\ t.work = s.work /\ Typed(t, r) /\ More(s.functions, t.functions)
  BY DEF Turns
<1>2. Loose(r, q)
  BY <1>1
<1>3. Turns(t, r, t, q)
  <2>1. Reads(t, t)
    BY SameReflexive DEF Reads
  <2> QED
    BY <1>1, <1>2, <2>1, ReadsTurns
<1>4. Typed(t, q)
  BY <1>1, <1>3 DEF Turns
<1>5. Fits(t.functions, q, s.work)
  BY <1>1, BaseProgram, FitsGrows
<1> QED
  BY <1>1, <1>4, <1>5

(* It leaves calls to be made. *)
LEMMA HandsMany ==
  ASSUME NEW s, Base(s), NEW p, Typed(s, p), NEW q, Fits(s.functions, q, s.work),
         NEW t, NEW r, Turns(s, p, t, r), NEW cs, cs \in Seq(CallType),
         Typed(t, r) /\ t.errors = {} /\ Fits(t.functions, q, s.work) => Fits(t.functions, r, cs \o s.work)
  PROVE  Goal(Then(t, cs))
<1> SUFFICES ASSUME Then(t, cs).errors = {}
             PROVE  \E o : Typed(Then(t, cs), o) /\ Fits(Then(t, cs).functions, o, Then(t, cs).work)
  BY DEF Goal
<1>0. Base(t) /\ t.work = s.work
  BY DEF Turns
<1>1. /\ Then(t, cs).work = cs \o t.work /\ Then(t, cs).compilers = t.compilers
      /\ Then(t, cs).functions = t.functions /\ Then(t, cs).errors = t.errors
  BY <1>0, ThenFacts
<1>2. Typed(t, r) /\ More(s.functions, t.functions)
  BY <1>1 DEF Turns
<1>3. Fits(t.functions, q, s.work)
  BY <1>0, <1>2, BaseProgram, FitsGrows
<1>4. Fits(t.functions, r, cs \o s.work)
  BY <1>1, <1>2, <1>3
<1> QED
  BY <1>0, <1>1, <1>2, <1>4 DEF Typed

(* Calls in front of others. *)
LEMMA Associates ==
  ASSUME NEW T, NEW w, w \in Seq(T), NEW a, a \in T, NEW v, v \in Seq(T)
  PROVE  (<<a>> \o v) \o w = <<a>> \o (v \o w) /\ v \o w \in Seq(T)
<1>1. <<a>> \in Seq(T)
  OBVIOUS
<1> QED
  BY <1>1

(* Two calls in front of others, *)
LEMMA ConsTwo ==
  ASSUME NEW T, NEW w, w \in Seq(T), NEW a, a \in T, NEW b, b \in T
  PROVE  <<a, b>> \o w = <<a>> \o (<<b>> \o w) /\ <<b>> \o w \in Seq(T)
<1>1. <<a, b>> = <<a>> \o <<b>>
  OBVIOUS
<1>2. <<a>> \in Seq(T) /\ <<b>> \in Seq(T)
  OBVIOUS
<1>3. \A u \in Seq(T) : \A v \in Seq(T) : u \o v \in Seq(T) /\ (u \o v) \o w = u \o (v \o w)
  OBVIOUS
<1> QED
  BY <1>1, <1>2, <1>3

(* and three. *)
LEMMA ConsThree ==
  ASSUME NEW T, NEW w, w \in Seq(T), NEW a, a \in T, NEW b, b \in T, NEW c, c \in T
  PROVE  <<a, b, c>> \o w = <<a>> \o (<<b, c>> \o w) /\ <<b, c>> \o w \in Seq(T)
<1>1. <<a, b, c>> = <<a>> \o <<b, c>>
  OBVIOUS
<1>2. <<a>> \in Seq(T) /\ <<b, c>> \in Seq(T)
  OBVIOUS
<1>3. \A u \in Seq(T) : \A v \in Seq(T) : u \o v \in Seq(T) /\ (u \o v) \o w = u \o (v \o w)
  OBVIOUS
<1> QED
  BY <1>1, <1>2, <1>3

(* One call is left to be made, *)
LEMMA Hands1 ==
  ASSUME NEW s, Base(s), NEW p, Typed(s, p), NEW q, Fits(s.functions, q, s.work),
         NEW t, NEW r, Turns(s, p, t, r), NEW a, a \in CallType,
         Typed(t, r) /\ t.errors = {} => Goes(t.functions, r, a, q)
  PROVE  Goal(Then(t, <<a>>))
<1>1. s.work \in Seq(CallType)
  BY BaseFacts DEF IsState
<1>2. <<a>> \in Seq(CallType)
  BY PairFacts
<1>3. ASSUME Goes(t.functions, r, a, q), Fits(t.functions, q, s.work) PROVE Fits(t.functions, r, <<a>> \o s.work)
  BY <1>1, <1>3, FitsCons
<1> QED
  BY <1>2, <1>3, HandsMany

(* two, *)
LEMMA Hands2 ==
  ASSUME NEW s, Base(s), NEW p, Typed(s, p), NEW q, Fits(s.functions, q, s.work),
         NEW t, NEW r, Turns(s, p, t, r), NEW a, a \in CallType, NEW b, b \in CallType, NEW r1,
         Typed(t, r) /\ t.errors = {} => Goes(t.functions, r, a, r1) /\ Goes(t.functions, r1, b, q)
  PROVE  Goal(Then(t, <<a, b>>))
<1>1. s.work \in Seq(CallType)
  BY BaseFacts DEF IsState
<1>2. <<a, b>> \in Seq(CallType)
  BY PairFacts
<1>3. <<a, b>> \o s.work = <<a>> \o (<<b>> \o s.work) /\ <<b>> \o s.work \in Seq(CallType)
  <2>1. a \in CallType /\ b \in CallType
    OBVIOUS
  <2> QED
    BY ONLY <1>1, <2>1, ConsTwo
<1>4. ASSUME Goes(t.functions, r, a, r1), Goes(t.functions, r1, b, q), Fits(t.functions, q, s.work)
      PROVE  Fits(t.functions, r, <<a, b>> \o s.work)
  <2>1. Fits(t.functions, r1, <<b>> \o s.work)
    BY <1>1, <1>4, FitsCons
  <2> QED
    BY <1>3, <1>4, <2>1, FitsCons
<1> QED
  BY <1>2, <1>4, HandsMany

(* three, *)
LEMMA Hands3 ==
  ASSUME NEW s, Base(s), NEW p, Typed(s, p), NEW q, Fits(s.functions, q, s.work),
         NEW t, NEW r, Turns(s, p, t, r),
         NEW a, a \in CallType, NEW b, b \in CallType, NEW c, c \in CallType, NEW r1, NEW r2,
         Typed(t, r) /\ t.errors = {} =>
           Goes(t.functions, r, a, r1) /\ Goes(t.functions, r1, b, r2) /\ Goes(t.functions, r2, c, q)
  PROVE  Goal(Then(t, <<a, b, c>>))
<1>1. s.work \in Seq(CallType)
  BY BaseFacts DEF IsState
<1>2. <<a, b, c>> \in Seq(CallType)
  BY TripleFacts
<1>3. /\ <<a, b, c>> \o s.work = <<a>> \o (<<b, c>> \o s.work)
      /\ <<b, c>> \o s.work = <<b>> \o (<<c>> \o s.work)
      /\ <<b, c>> \o s.work \in Seq(CallType) /\ <<c>> \o s.work \in Seq(CallType)
  <2>1. a \in CallType /\ b \in CallType /\ c \in CallType
    OBVIOUS
  <2>2. <<a, b, c>> \o s.work = <<a>> \o (<<b, c>> \o s.work) /\ <<b, c>> \o s.work \in Seq(CallType)
    BY ONLY <1>1, <2>1, ConsThree
  <2>3. <<b, c>> \o s.work = <<b>> \o (<<c>> \o s.work) /\ <<c>> \o s.work \in Seq(CallType)
    BY ONLY <1>1, <2>1, ConsTwo
  <2> QED
    BY ONLY <2>2, <2>3
<1>4. ASSUME Goes(t.functions, r, a, r1), Goes(t.functions, r1, b, r2), Goes(t.functions, r2, c, q),
             Fits(t.functions, q, s.work)
      PROVE  Fits(t.functions, r, <<a, b, c>> \o s.work)
  <2>1. Fits(t.functions, r2, <<c>> \o s.work)
    BY <1>1, <1>4, FitsCons
  <2>2. Fits(t.functions, r1, <<b, c>> \o s.work)
    BY <1>3, <1>4, <2>1, FitsCons
  <2> QED
    BY <1>3, <1>4, <2>2, FitsCons
<1> QED
  BY <1>2, <1>4, HandsMany

(* or four. *)
LEMMA Hands4 ==
  ASSUME NEW s, Base(s), NEW p, Typed(s, p), NEW q, Fits(s.functions, q, s.work),
         NEW t, NEW r, Turns(s, p, t, r),
         NEW a, a \in CallType, NEW b, b \in CallType, NEW c, c \in CallType, NEW d, d \in CallType,
         NEW r1, NEW r2, NEW r3,
         Typed(t, r) /\ t.errors = {} =>
           /\ Goes(t.functions, r, a, r1) /\ Goes(t.functions, r1, b, r2)
           /\ Goes(t.functions, r2, c, r3) /\ Goes(t.functions, r3, d, q)
  PROVE  Goal(Then(t, <<a, b, c, d>>))
<1>1. s.work \in Seq(CallType)
  BY BaseFacts DEF IsState
<1>2. <<a, b, c, d>> \in Seq(CallType)
  BY TripleFacts
<1>3. /\ <<a, b, c, d>> \o s.work = <<a>> \o (<<b, c, d>> \o s.work)
      /\ <<b, c, d>> \o s.work = <<b>> \o (<<c, d>> \o s.work)
      /\ <<c, d>> \o s.work = <<c>> \o (<<d>> \o s.work)
      /\ <<b, c, d>> \o s.work \in Seq(CallType) /\ <<c, d>> \o s.work \in Seq(CallType)
      /\ <<d>> \o s.work \in Seq(CallType)
  <2>1. a \in CallType /\ b \in CallType /\ c \in CallType /\ d \in CallType
    OBVIOUS
  <2>2. <<a, b, c, d>> \o s.work = <<a>> \o (<<b, c, d>> \o s.work) /\ <<b, c, d>> \o s.work \in Seq(CallType)
    <3>1. <<a, b, c, d>> = <<a>> \o <<b, c, d>>
      OBVIOUS
    <3>2. <<a>> \in Seq(CallType) /\ <<b, c, d>> \in Seq(CallType)
      OBVIOUS
    <3>3. (<<a>> \o <<b, c, d>>) \o s.work = <<a>> \o (<<b, c, d>> \o s.work) /\ <<b, c, d>> \o s.work \in Seq(CallType)
      BY ONLY <1>1, <2>1, <3>2, Associates
    <3> QED
      BY ONLY <3>1, <3>3
  <2>3. <<b, c, d>> \o s.work = <<b>> \o (<<c, d>> \o s.work) /\ <<c, d>> \o s.work \in Seq(CallType)
    BY ONLY <1>1, <2>1, ConsThree
  <2>4. <<c, d>> \o s.work = <<c>> \o (<<d>> \o s.work) /\ <<d>> \o s.work \in Seq(CallType)
    BY ONLY <1>1, <2>1, ConsTwo
  <2> QED
    BY ONLY <2>2, <2>3, <2>4
<1>4. ASSUME Goes(t.functions, r, a, r1), Goes(t.functions, r1, b, r2), Goes(t.functions, r2, c, r3),
             Goes(t.functions, r3, d, q), Fits(t.functions, q, s.work)
      PROVE  Fits(t.functions, r, <<a, b, c, d>> \o s.work)
  <2>1. Fits(t.functions, r3, <<d>> \o s.work)
    BY <1>1, <1>4, FitsCons
  <2>2. Fits(t.functions, r2, <<c, d>> \o s.work)
    BY <1>3, <1>4, <2>1, FitsCons
  <2>3. Fits(t.functions, r1, <<b, c, d>> \o s.work)
    BY <1>3, <1>4, <2>2, FitsCons
  <2> QED
    BY <1>3, <1>4, <2>3, FitsCons
<1> QED
  BY <1>2, <1>4, HandsMany

-----------------------------------------------------------------------------
(* Reading. *)

(* advance changes nothing but the place in the text. *)
LEMMA AdvanceReads ==
  ASSUME NEW s, Base(s)
  PROVE  Reads(s, Advance(s))
<1>0. SUFFICES /\ Len(Advance(s).compilers) = Len(s.compilers)
               /\ \A k \in DOMAIN s.compilers : Same(s.compilers[k], Advance(s).compilers[k])
  BY DEF Reads, Advance
<1>1. s \in [compilers : Seq(CompilerType), functions : Seq(FunctionType), errors : {s.errors}, work : Seq(CallType)]
  BY BaseFacts DEF IsState
<1>2. Me(s) \in DOMAIN s.compilers /\ This(s) = s.compilers[Me(s)] /\ DOMAIN s.compilers = 1 .. Len(s.compilers)
      /\ This(s) \in CompilerType
  BY BaseFacts
<1> DEFINE c == Placed(This(s), This(s).current, This(s).current + 1)
<1>3. Advance(s) = WithCompiler(s, Me(s), c)
  BY <1>1, <1>2 DEF Advance, WithCompiler, Placed
<1>4. c \in CompilerType /\ Same(This(s), c)
  <2>1. This(s).current \in Nat /\ This(s).current + 1 \in Nat
    BY <1>2 DEF CompilerType
  <2>2. /\ c \in CompilerType /\ c.function = This(s).function /\ c.scope_depth = This(s).scope_depth
        /\ c.locals = This(s).locals /\ c.upvalues = This(s).upvalues
    BY <1>2, <2>1, PlacedFacts
  <2> QED
    BY <2>2 DEF Same
<1> HIDE DEF c
<1>5. /\ Len(WithCompiler(s, Me(s), c).compilers) = Len(s.compilers)
      /\ \A j \in DOMAIN s.compilers : WithCompiler(s, Me(s), c).compilers[j] = IF j = Me(s) THEN c ELSE s.compilers[j]
  <2>1. IsState(s)
    BY BaseFacts
  <2> QED
    BY ONLY <1>2, <1>4, <2>1, WithCompilerFacts
<1> QED
  BY <1>2, <1>3, <1>4, <1>5, SameReflexive

(* advance, in front of a token that is not the last *)
LEMMA AdvanceTurns ==
  ASSUME TokensOk, NEW s, Base(s), InText(s), ~Check(s, "LOX_EOF"), NEW p, NEW q, Loose(p, q)
  PROVE  Turns(s, p, Advance(s), q) /\ InText(Advance(s)) /\ CodeSize(Advance(s)) = CodeSize(s)
<1>1. /\ Keeps(s, Advance(s)) /\ InText(Advance(s))
      /\ Advance(s).functions = s.functions /\ Advance(s).errors = s.errors
  BY AdvanceFacts
<1>2. Reads(s, Advance(s))
  BY AdvanceReads
<1>3. Turns(s, p, Advance(s), q)
  <2>2. Base(Advance(s)) /\ Advance(s).work = s.work
    BY <1>1 DEF Keeps
  <2> QED
    BY <1>1, <1>2, <2>2, ReadsTurns
<1>4. CodeSize(Advance(s)) = CodeSize(s)
  <2>1. This(Advance(s)).function = This(s).function
    BY <1>1, <1>2, BaseFacts DEF Keeps, Same, Reads
  <2> QED
    BY <1>1, <2>1 DEF CodeSize, Function
<1> QED
  BY <1>1, <1>3, <1>4

(* consume *)
LEMMA ConsumeTurns ==
  ASSUME TokensOk, NEW s, Base(s), InText(s), NEW type, type # "LOX_EOF", NEW p, NEW q, Loose(p, q)
  PROVE  Turns(s, p, Consume(s, type), q) /\ InText(Consume(s, type)) /\ Base(Consume(s, type))
<1>1. Keeps(s, Consume(s, type)) /\ InText(Consume(s, type))
  BY ConsumeFacts
<1>2. Base(Consume(s, type)) /\ Consume(s, type).work = s.work
  BY <1>1 DEF Keeps
<1>3. CASE Check(s, type)
  <2>1. Consume(s, type) = Advance(s) /\ ~Check(s, "LOX_EOF")
    BY <1>3 DEF Consume, Check
  <2> QED
    BY <1>1, <1>2, <2>1, AdvanceTurns
<1>4. CASE ~Check(s, type)
  <2>1. Consume(s, type) = ErrorAtCurrent(s, type)
    BY <1>4 DEF Consume
  <2>2. ErrorAtCurrent(s, type).errors # {}
    BY ErrorFacts
  <2> QED
    BY <1>1, <1>2, <2>1, <2>2, FailedTurns
<1> QED
  BY <1>3, <1>4

-----------------------------------------------------------------------------
(* What the calls of expressions do. *)

(* The call c is made, unless an error is known, where the plan is p; q is what it leads to. *)
Stands(s, c, p, q) ==
  /\ Ready(s, c) /\ s.errors = {}
  /\ Typed(s, p) /\ Goes(s.functions, p, c, q) /\ Fits(s.functions, q, s.work)

(* What is known of the state then. *)
LEMMA StandsFacts ==
  ASSUME NEW s, NEW c, NEW p, NEW q, Stands(s, c, p, q)
  PROVE  /\ Base(s) /\ c \in CallType /\ s.errors = {}
         /\ Typed(s, p) /\ Goes(s.functions, p, c, q) /\ Fits(s.functions, q, s.work)
         /\ p.temps \in Nat
         /\ c.do # "end_compiler" => InText(s)
         /\ s.work \in Seq(CallType)
<1>1. Ready(s, c) /\ Typed(s, p) /\ s.errors = {} /\ Goes(s.functions, p, c, q) /\ Fits(s.functions, q, s.work)
  BY DEF Stands
<1>2. Base(s) /\ c \in CallType /\ (c.do # "end_compiler" => InText(s))
  BY <1>1 DEF Ready
<1>3. p.temps \in Nat
  BY <1>1, <1>2, TopRow
<1>4. s.work \in Seq(CallType)
  BY <1>2, BaseFacts DEF IsState
<1> QED
  BY <1>1, <1>2, <1>3, <1>4

(* The number of values may be all that changes, *)
LEMMA LooseMoves ==
  ASSUME NEW p, NEW q, Moves(p, q), NEW temps, temps = q.temps
  PROVE  Loose(With(p, p.open, p.marks, temps), q)
<1> DEFINE w == With(p, p.open, p.marks, temps)
<1>1. w.levels = p.levels /\ w.open = p.open /\ w.marks = p.marks /\ w.temps = temps /\ w.fresh = FALSE
  BY DEF With, Plan
<1>2. q.levels = p.levels /\ q.open = p.open /\ q.marks \subseteq p.marks /\ q.fresh = FALSE
  BY DEF Moves
<1> HIDE DEF w
<1>3. Loose(w, q)
  BY <1>1, <1>2 DEF Loose
<1> QED
  BY <1>3 DEF w

(* or not even that. *)
LEMMA LooseKept ==
  ASSUME NEW p, NEW q, Moves(p, q), q.temps = p.temps
  PROVE  Loose(p, q) /\ Loose(Kept(p), q) /\ Loose(q, q)
  BY KeptFacts DEF Moves, Loose

(* `consume' *)
LEMMA ConsumeGoal ==
  ASSUME TokensOk, NEW s, NEW c, NEW p, NEW q, Stands(s, c, p, q), c.do = "consume"
  PROVE  Goal(RunConsume(s, c))
<1>1. /\ Base(s) /\ InText(s) /\ Typed(s, p) /\ Goes(s.functions, p, c, q) /\ Fits(s.functions, q, s.work)
      /\ c \in CallType
  BY StandsFacts
<1>2. c.type # "LOX_EOF"
  BY <1>1, ShapeFacts
<1>3. Loose(p, q) /\ Loose(q, q)
  BY <1>1, GoesReading, LooseKept
<1>4. Turns(s, p, Consume(s, c.type), q)
  BY <1>1, <1>2, <1>3, ConsumeTurns
<1> QED
  BY <1>1, <1>3, <1>4, Hands0 DEF RunConsume

(* A function's code and lines are changed twice. *)
LEMMA ChangedTwice ==
  ASSUME NEW g, g \in FunctionType, NEW c1, NEW n1, NEW c2, NEW n2
  PROVE  [[g EXCEPT !.code = c1, !.lines = n1] EXCEPT !.code = c2, !.lines = n2]
           = [g EXCEPT !.code = c2, !.lines = n2]
  BY DEF FunctionType

(* Emitting once, *)
LEMMA EmitForm ==
  ASSUME NEW s, Base(s), NEW b
  PROVE  EmitBytes(s, <<b>>) = [s EXCEPT !.functions = [s.functions EXCEPT ![This(s).function] =
                                 [Function(s) EXCEPT !.code = @ \o <<b>>, !.lines = @ + 1]]]
<1>1. /\ s \in [compilers : Seq(CompilerType), functions : Seq(FunctionType), errors : {s.errors}, work : Seq(CallType)]
      /\ This(s).function \in DOMAIN s.functions /\ Function(s) = s.functions[This(s).function]
      /\ Function(s) \in FunctionType /\ s.functions \in Seq(FunctionType)
  BY BaseFacts DEF IsState
<1> QED
  BY <1>1 DEF EmitBytes

(* Bytes are emitted one after the other: once, *)
LEMMA PairMade ==
  ASSUME NEW T, NEW w, w \in Seq(T), NEW a, a \in T, NEW b, b \in T
  PROVE  <<a, b>> = <<a>> \o <<b>>
  OBVIOUS

(* and twice. *)
LEMMA EmitTwice ==
  ASSUME NEW s, Base(s), NEW a, a \in Byte, NEW b, b \in Byte
  PROVE  EmitBytes(EmitBytes(s, <<a>>), <<b>>) = EmitBytes(s, <<a, b>>)
<1> DEFINE f == This(s).function
<1> DEFINE g1 == [Function(s) EXCEPT !.code = @ \o <<a>>, !.lines = @ + 1]
<1> DEFINE g2 == [Function(s) EXCEPT !.code = @ \o <<a, b>>, !.lines = @ + 2]
<1>1. /\ s \in [compilers : Seq(CompilerType), functions : Seq(FunctionType), errors : {s.errors}, work : Seq(CallType)]
      /\ f \in DOMAIN s.functions /\ Function(s) = s.functions[f] /\ Function(s) \in FunctionType
      /\ s.functions \in Seq(FunctionType)
  BY BaseFacts DEF IsState
<1>2. Function(s).code \in Seq(Byte) /\ Function(s).lines \in Nat
  BY <1>1 DEF FunctionType
<1>3. EmitBytes(s, <<a>>) = [s EXCEPT !.functions = [s.functions EXCEPT ![f] = g1]]
  BY <1>1 DEF EmitBytes
<1>4. EmitBytes(s, <<a, b>>) = [s EXCEPT !.functions = [s.functions EXCEPT ![f] = g2]]
  BY <1>1 DEF EmitBytes
<1>5. (Function(s).code \o <<a>>) \o <<b>> = Function(s).code \o <<a, b>>
  <2> DEFINE w == Function(s).code
  <2>1. w \in Seq(Byte) /\ <<a>> \in Seq(Byte) /\ <<b>> \in Seq(Byte) /\ <<a>> \o <<b>> = <<a, b>>
    <3>1. <<a>> \in Seq(Byte) /\ <<b>> \in Seq(Byte)
      OBVIOUS
    <3>2. <<a>> \o <<b>> = <<a, b>>
      BY <1>2, PairMade
    <3> QED
      BY <1>2, <3>1, <3>2
  <2> HIDE DEF w
  <2>2. (w \o <<a>>) \o <<b>> = w \o (<<a>> \o <<b>>)
    BY <2>1
  <2> QED
    BY <2>1, <2>2 DEF w
<1>6. g2 = [g1 EXCEPT !.code = @ \o <<b>>, !.lines = @ + 1]
  <2> DEFINE g == Function(s)
  <2> DEFINE c1 == g.code \o <<a>>
  <2> DEFINE c2 == g.code \o <<a, b>>
  <2>1. g \in FunctionType /\ g.lines \in Nat /\ c1 \o <<b>> = c2
    BY <1>1, <1>2, <1>5
  <2>2. g1 = [g EXCEPT !.code = c1, !.lines = g.lines + 1]
    OBVIOUS
  <2>3. g1.code = c1 /\ g1.lines = g.lines + 1
    BY <2>1 DEF FunctionType
  <2>4. [g1 EXCEPT !.code = c2, !.lines = g.lines + 2] = [g EXCEPT !.code = c2, !.lines = g.lines + 2]
    <3> HIDE DEF c1, c2, g
    <3> QED
      BY <2>1, <2>2, ChangedTwice
  <2>5. g1.code \o <<b>> = c2 /\ g1.lines + 1 = g.lines + 2
    BY <2>1, <2>3
  <2> HIDE DEF g1, c2
  <2> QED
    BY <2>4, <2>5 DEF c2
<1>7. EmitBytes(EmitBytes(s, <<a>>), <<b>>)
        = [s EXCEPT !.functions = [s.functions EXCEPT ![f] = [g1 EXCEPT !.code = @ \o <<b>>, !.lines = @ + 1]]]
  <2> DEFINE t == EmitBytes(s, <<a>>)
  <2> DEFINE h == [g1 EXCEPT !.code = @ \o <<b>>, !.lines = @ + 1]
  <2>1. t = [s EXCEPT !.functions = [s.functions EXCEPT ![f] = g1]]
    BY <1>3
  <2>2. This(t) = This(s) /\ Base(t)
    <3>1. <<a>> \in Seq(Byte)
      OBVIOUS
    <3> QED
      BY <3>1, EmitBytesFacts DEF Keeps
  <2> HIDE DEF g1, t
  <2>3. t.functions = [s.functions EXCEPT ![f] = g1] /\ t.functions[f] = g1
    BY <1>1, <2>1
  <2>4. EmitBytes(t, <<b>>) = [t EXCEPT !.functions = [t.functions EXCEPT ![This(t).function] =
                                [Function(t) EXCEPT !.code = @ \o <<b>>, !.lines = @ + 1]]]
    BY <2>2, EmitForm
  <2>5. Function(t) = g1 /\ This(t).function = f
    BY <2>2, <2>3 DEF Function
  <2>6. EmitBytes(t, <<b>>) = [t EXCEPT !.functions = [t.functions EXCEPT ![f] = h]]
    BY <2>4, <2>5
  <2> HIDE DEF h, f
  <2>7. [t EXCEPT !.functions = [t.functions EXCEPT ![f] = h]] = [s EXCEPT !.functions = [s.functions EXCEPT ![f] = h]]
    BY <1>1, <2>1
  <2> QED
    BY <2>6, <2>7 DEF h, t
<1> QED
  BY <1>4, <1>6, <1>7

(* An instruction that was put off: of one byte, *)
LEMMA EmitsOne ==
  ASSUME NEW s, Base(s), NEW p, Typed(s, p), NEW op, NEW temps,
         \/ op \in UnaryOps /\ p.temps >= 1 /\ temps = p.temps
         \/ op \in BinaryOps /\ p.temps >= 2 /\ temps = p.temps - 1
         \/ op \in {"OP_POP", "OP_PRINT"} /\ p.temps >= 1 /\ temps = p.temps - 1
  PROVE  Turns(s, p, Emit(s, op), With(p, p.open, p.marks, temps))
<1>1. p.temps \in Nat
  BY TopRow
<1>2. CASE op \in UnaryOps /\ p.temps >= 1 /\ temps = p.temps
  <2>1. op \in PlainCode /\ Operands[op] = 0 /\ Pops(op, 0) = 1 /\ Pushes(op) = 1
    BY <1>2, StackFacts
  <2>2. Pops(op, 0) <= p.temps /\ temps = p.temps - Pops(op, 0) + Pushes(op)
    BY ONLY <1>1, <1>2, <2>1
  <2> QED
    BY <2>1, <2>2, EmitTurns
<1>3. CASE op \in BinaryOps /\ p.temps >= 2 /\ temps = p.temps - 1
  <2>1. op \in PlainCode /\ Operands[op] = 0 /\ Pops(op, 0) = 2 /\ Pushes(op) = 1
    BY <1>3, StackFacts
  <2>2. Pops(op, 0) <= p.temps /\ temps = p.temps - Pops(op, 0) + Pushes(op)
    BY ONLY <1>1, <1>3, <2>1
  <2> QED
    BY <2>1, <2>2, EmitTurns
<1>4. CASE op \in {"OP_POP", "OP_PRINT"} /\ p.temps >= 1 /\ temps = p.temps - 1
  BY <1>4, PopTurns DEF PopOps
<1> QED
  BY <1>2, <1>3, <1>4

(* of two, *)
LEMMA EmitsTwo ==
  ASSUME NEW s, Base(s), NEW p, Typed(s, p), NEW op, op \in BinaryOps, p.temps >= 2, NEW temps, temps = p.temps - 1
  PROVE  Turns(s, p, EmitBytes(s, <<Code[op], Code["OP_NOT"]>>), With(p, p.open, p.marks, temps))
<1> DEFINE t == Emit(s, op)
<1> DEFINE r == With(p, p.open, p.marks, temps)
<1>1. Turns(s, p, t, r) /\ Base(t)
  <2>1. Turns(s, p, t, r)
    BY EmitsOne
  <2> QED
    BY <2>1 DEF Turns
<1>2. p.temps \in Nat
  BY TopRow
<1>3. r.open = p.open /\ r.marks = p.marks /\ r.temps = temps /\ With(r, r.open, r.marks, temps) = r
  BY DEF With, Plan
<1>4. Turns(t, r, Emit(t, "OP_NOT"), r)
  <2>1. "OP_NOT" \in PlainCode /\ Operands["OP_NOT"] = 0 /\ Pops("OP_NOT", 0) = 1 /\ Pushes("OP_NOT") = 1
    BY StackFacts DEF UnaryOps
  <2>2. Pops("OP_NOT", 0) <= r.temps /\ temps = r.temps - Pops("OP_NOT", 0) + Pushes("OP_NOT")
    <3>1. r.temps = temps /\ temps = p.temps - 1 /\ p.temps \in Nat /\ p.temps >= 2
      BY <1>2, <1>3
    <3> HIDE DEF r
    <3> QED
      BY ONLY <2>1, <3>1
  <2> HIDE DEF r, t
  <2>3. Turns(t, r, Emit(t, "OP_NOT"), With(r, r.open, r.marks, temps))
    BY <1>1, <2>1, <2>2, EmitTurns
  <2> QED
    BY <1>3, <2>3
<1>5. Emit(t, "OP_NOT") = EmitBytes(s, <<Code[op], Code["OP_NOT"]>>)
  <2>1. op \in OpCode /\ "OP_NOT" \in OpCode
    BY StackFacts DEF PlainCode, UnaryOps
  <2>2. Code[op] \in Byte /\ Code["OP_NOT"] \in Byte
    BY <2>1, ByteFacts
  <2> QED
    BY <2>2, EmitTwice DEF Emit
<1> HIDE DEF t, r
<1>6. Turns(s, p, Emit(t, "OP_NOT"), r)
  BY <1>1, <1>4, TurnsTransitive
<1> QED
  BY <1>5, <1>6 DEF r

(* or with an operand. *)
LEMMA EmitsSet ==
  ASSUME NEW s, Base(s), NEW p, Typed(s, p), p.temps >= 1, NEW op, op \in SetOps,
         NEW i, <<Code[op], i>> \in Seq(Byte), ArgOk(s, op, i)
  PROVE  Turns(s, p, EmitBytes(s, <<Code[op], i>>), With(p, p.open, p.marks, p.temps))
<1> DEFINE bytes == <<Code[op], i>>
<1>1. op \in PlainCode /\ Operands[op] = 1 /\ Pops(op, i) = 1 /\ Pushes(op) = 1
  BY StackFacts
<1>2. p.temps \in Nat
  BY TopRow
<1>3. bytes[1] = Code[op] /\ Len(bytes) = 1 + Operands[op] /\ i = IF Operands[op] > 0 THEN bytes[2] ELSE 0
  BY <1>1
<1>4. Pops(op, i) <= p.temps /\ p.temps = p.temps - Pops(op, i) + Pushes(op)
  BY ONLY <1>1, <1>2, p.temps >= 1
<1>5. bytes \in Seq(Byte)
  OBVIOUS
<1> HIDE DEF bytes
<1>6. Turns(s, p, EmitBytes(s, bytes), With(p, p.open, p.marks, p.temps))
  BY <1>1, <1>3, <1>4, <1>5, PlainTurns
<1> QED
  BY <1>6 DEF bytes

(* An instruction that was put off, whichever it is. *)
LEMMA EmitsTurns ==
  ASSUME NEW s, Base(s), NEW p, Typed(s, p), NEW bytes, bytes \in Seq(Byte), NEW q,
         Emits(s.functions, p, bytes, q)
  PROVE  Turns(s, p, EmitBytes(s, bytes), With(p, p.open, p.marks, q.temps))
<1>1. Top(p).fun = This(s).function /\ This(s).function \in DOMAIN s.functions
      /\ Function(s) = s.functions[This(s).function] /\ p.temps \in Nat
  BY TopRow, BaseChain
<1>2. CASE (\E op \in UnaryOps : bytes = <<Code[op]>>) /\ p.temps >= 1 /\ q.temps = p.temps
  BY <1>2, EmitsOne DEF Emit
<1>3. CASE /\ \E op \in BinaryOps : bytes \in {<<Code[op]>>, <<Code[op], Code["OP_NOT"]>>}
           /\ p.temps >= 2 /\ q.temps = p.temps - 1
  BY <1>3, EmitsOne, EmitsTwo DEF Emit
<1>4. CASE (\E op \in {"OP_POP", "OP_PRINT"} : bytes = <<Code[op]>>) /\ p.temps >= 1 /\ q.temps = p.temps - 1
  BY <1>4, EmitsOne DEF Emit
<1>5. CASE bytes = <<Code["OP_RETURN"]>> /\ p.temps = 1 /\ q.temps = 0 /\ Top(p).fun # 1
  BY <1>5, ReturnTurns DEF Emit
<1>6. CASE /\ \E e \in p.marks : Here(p, e) /\ \E i \in 1 .. e.locals - 1 : bytes = <<Code["OP_SET_LOCAL"], i>>
           /\ p.temps >= 1 /\ q.temps = p.temps
  <2>1. PICK e \in p.marks : Here(p, e) /\ \E i \in 1 .. e.locals - 1 : bytes = <<Code["OP_SET_LOCAL"], i>>
    BY <1>6
  <2>2. PICK i \in 1 .. e.locals - 1 : bytes = <<Code["OP_SET_LOCAL"], i>>
    BY <2>1
  <2>3. e.locals = OnStack(This(s), TRUE)
    BY <2>1, HereLocals DEF HereEntry
  <2>4. ArgOk(s, "OP_SET_LOCAL", i) /\ "OP_SET_LOCAL" \in SetOps
    BY <2>2, <2>3 DEF ArgOk, SetOps
  <2> QED
    BY <1>6, <2>2, <2>4, EmitsSet
<1>7. CASE /\ \E i \in Nat : IsString(s.functions, Top(p).fun, i) /\ bytes = <<Code["OP_SET_GLOBAL"], i>>
           /\ p.temps >= 1 /\ q.temps = p.temps
  <2>1. PICK i \in Nat : IsString(s.functions, Top(p).fun, i) /\ bytes = <<Code["OP_SET_GLOBAL"], i>>
    BY <1>7
  <2>2. ArgOk(s, "OP_SET_GLOBAL", i) /\ "OP_SET_GLOBAL" \in SetOps
    BY <1>1, <2>1 DEF ArgOk, SetOps
  <2> QED
    BY <1>7, <2>1, <2>2, EmitsSet
<1>8. CASE /\ \E i \in Nat : i < s.functions[Top(p).fun].upvalue_count /\ bytes = <<Code["OP_SET_UPVALUE"], i>>
           /\ p.temps >= 1 /\ q.temps = p.temps
  <2>1. PICK i \in Nat : i < s.functions[Top(p).fun].upvalue_count /\ bytes = <<Code["OP_SET_UPVALUE"], i>>
    BY <1>8
  <2>2. ArgOk(s, "OP_SET_UPVALUE", i) /\ "OP_SET_UPVALUE" \in SetOps
    BY <1>1, <2>1 DEF ArgOk, SetOps
  <2> QED
    BY <1>8, <2>1, <2>2, EmitsSet
<1> QED
  BY <1>2, <1>3, <1>4, <1>5, <1>6, <1>7, <1>8 DEF Emits

(* `emit' *)
LEMMA EmitGoal ==
  ASSUME NEW s, NEW c, NEW p, NEW q, Stands(s, c, p, q), c.do = "emit"
  PROVE  Goal(RunEmit(s, c))
<1>1. /\ Base(s) /\ Typed(s, p) /\ Goes(s.functions, p, c, q) /\ Fits(s.functions, q, s.work)
      /\ c \in CallType
  BY StandsFacts
<1>2. c.bytes \in Seq(Byte)
  BY <1>1, ShapeFacts
<1>3. Moves(p, q) /\ Emits(s.functions, p, c.bytes, q)
  BY <1>1, GoesEmitting
<1>4. Turns(s, p, EmitBytes(s, c.bytes), With(p, p.open, p.marks, q.temps))
  BY <1>1, <1>2, <1>3, EmitsTurns
<1>5. Loose(With(p, p.open, p.marks, q.temps), q)
  BY <1>3, LooseMoves
<1> QED
  BY <1>1, <1>4, <1>5, Hands0 DEF RunEmit

(* `patch_jump' *)
LEMMA PatchJumpGoal ==
  ASSUME NEW s, NEW c, NEW p, NEW q, Stands(s, c, p, q), c.do = "patch_jump"
  PROVE  Goal(RunPatchJump(s, c))
<1>1. /\ Base(s) /\ Typed(s, p) /\ Goes(s.functions, p, c, q) /\ Fits(s.functions, q, s.work)
      /\ c \in CallType
  BY StandsFacts
<1>2. c.jump \in Nat
  BY <1>1, ShapeFacts
<1>3. /\ q.levels = p.levels /\ q.marks \subseteq p.marks /\ q.fresh = FALSE
      /\ q.temps = p.temps /\ Leaves(p, p.open, p.temps, c.jump, q.open)
  BY <1>1, GoesPatching
<1> DEFINE r == With(p, q.open, p.marks, p.temps)
<1>4. Turns(s, p, PatchJump(s, c.jump), r)
  BY <1>1, <1>2, <1>3, PatchTurns
<1>5. Loose(r, q)
  BY <1>3 DEF With, Plan, Loose
<1> HIDE DEF r
<1> QED
  BY <1>1, <1>4, <1>5, Hands0 DEF RunPatchJump

(* The names of the calls that are made. *)
LEMMA CallNames ==
  /\ \A n : Parse(n).do = "parse_precedence"
  /\ Expression.do = "parse_precedence"
  /\ \A type : Expect(type).do = "consume"
  /\ \A ops : Emitting(ops).do = "emit"
  /\ \A op, b : EmittingWith(op, b).do = "emit" /\ EmittingWith(op, b).bytes = <<Code[op], b>>
  /\ \A jump : Patching(jump).do = "patch_jump" /\ Patching(jump).jump = jump
  /\ \A name : Call(name).do = name
BY DEF Parse, Expression, Expect, Emitting, EmittingWith, Patching, Call

(* Between two plans that differ in the number of values there is any number of them. *)
LEMMA MovesThrough ==
  ASSUME NEW p, NEW q, Moves(p, q), NEW n, NEW m
  PROVE  /\ Moves(p, With(p, p.open, p.marks, n)) /\ Moves(With(p, p.open, p.marks, n), q)
         /\ Moves(With(p, p.open, p.marks, n), With(p, p.open, p.marks, m))
         /\ With(p, p.open, p.marks, n).temps = n
         /\ With(p, p.open, p.marks, n).open = p.open
         /\ With(p, p.open, p.marks, n).marks = p.marks
         /\ Top(With(p, p.open, p.marks, n)) = Top(p)
BY DEF Moves, With, Plan, Top

(* An error ends what is known. *)
LEMMA GoalFails ==
  ASSUME NEW s, Base(s), NEW msg
  PROVE  Goal(ErrorAtCurrent(s, msg)) /\ Goal(ErrorAtPrevious(s, msg))
BY ErrorFacts DEF Goal

(* `argument' *)
LEMMA ArgumentGoal ==
  ASSUME NEW s, NEW c, NEW p, NEW q, Stands(s, c, p, q), c.do = "argument"
  PROVE  Goal(RunArgument(s, c))
<1>1. /\ Base(s) /\ Typed(s, p) /\ Goes(s.functions, p, c, q) /\ Fits(s.functions, q, s.work)
      /\ c \in CallType /\ p.temps \in Nat
  BY StandsFacts
<1>2. c.count \in 0 .. UINT8_MAX
  BY <1>1, ShapeFacts
<1>3. Moves(p, q) /\ p.temps >= c.count + 1 /\ q.temps = p.temps - c.count
  BY <1>1, GoesCalling
<1> DEFINE r1   == With(p, p.open, p.marks, p.temps + 1)
           next == [do |-> "next_argument", count |-> c.count + 1]
<1>4. CASE c.count >= UINT8_MAX
  BY <1>1, <1>4, GoalFails DEF RunArgument
<1>5. CASE c.count < UINT8_MAX
  <2>1. Turns(s, p, s, Kept(p))
    BY <1>1, KeptTurns
  <2>2. next \in ExpressionCall /\ next.do = "next_argument" /\ next.count = c.count + 1
    BY <1>2, <1>5, ByteAssumption DEF ExpressionCall
  <2>3. Expression \in CallType /\ next \in CallType
    BY <2>2, ExpressionCallFacts, CallKinds
  <2>4. Moves(Kept(p), r1) /\ r1.temps = Kept(p).temps + 1 /\ Moves(r1, q) /\ r1.temps = p.temps + 1
    BY <1>3, MovesThrough DEF Kept
  <2>5. Goes(s.functions, Kept(p), Expression, r1)
    BY <2>4, GoesParsing, CallNames
  <2>6. r1.temps >= next.count + 1 /\ q.temps = r1.temps - next.count
    <3> HIDE DEF r1, next
    <3> QED  BY ONLY <1>1, <1>2, <1>3, <2>2, <2>4, ByteAssumption
  <2>7. Goes(s.functions, r1, next, q)
    BY <2>2, <2>4, <2>6, GoesCalling
  <2> HIDE DEF r1, next
  <2>8. Goal(Then(s, <<Expression, next>>))
    BY <1>1, <2>1, <2>3, <2>5, <2>7, Hands2
  <2>9. ~(c.count >= UINT8_MAX)
    BY ONLY <1>2, <1>5, ByteAssumption
  <2>10. RunArgument(s, c) = Then(s, <<Expression, next>>)
    BY <2>9 DEF RunArgument, next
  <2> QED
    BY <2>8, <2>10
<1> QED
  BY <1>2, <1>4, <1>5, ByteAssumption

(* The same call under another name. *)
LEMMA Renamed ==
  ASSUME NEW c, c.do \in {"argument", "next_argument", "end_call"}, c \in CallType,
         NEW name, name \in {"argument", "end_call"}
  PROVE  /\ [c EXCEPT !.do = name] \in CallType
         /\ [c EXCEPT !.do = name].do = name /\ [c EXCEPT !.do = name].count = c.count
<1>1. c \in [do : {"argument", "next_argument", "end_call"}, count : 0 .. UINT8_MAX]
  BY ShapeFacts
<1>2. /\ [c EXCEPT !.do = name] \in ExpressionCall
      /\ [c EXCEPT !.do = name].do = name /\ [c EXCEPT !.do = name].count = c.count
  BY <1>1 DEF ExpressionCall
<1> QED
  BY <1>2, CallKinds

(* `next_argument' *)
LEMMA NextArgumentGoal ==
  ASSUME TokensOk, NEW s, NEW c, NEW p, NEW q, Stands(s, c, p, q), c.do = "next_argument"
  PROVE  Goal(RunNextArgument(s, c))
<1>1. /\ Base(s) /\ Typed(s, p) /\ Goes(s.functions, p, c, q) /\ Fits(s.functions, q, s.work)
      /\ c \in CallType /\ InText(s)
  BY StandsFacts
<1>3. Moves(p, q) /\ p.temps >= c.count + 1 /\ q.temps = p.temps - c.count
  BY <1>1, GoesCalling
<1> DEFINE again == [c EXCEPT !.do = "argument"]
           end   == [c EXCEPT !.do = "end_call"]
<1>4. /\ again \in CallType /\ again.do = "argument" /\ again.count = c.count
      /\ end \in CallType /\ end.do = "end_call" /\ end.count = c.count
  BY <1>1, Renamed
<1> HIDE DEF again, end
<1>5. /\ Moves(Kept(p), q) /\ Kept(p).temps = p.temps
  BY <1>3, MovesThrough DEF Kept
<1>6. Goes(s.functions, Kept(p), again, q) /\ Goes(s.functions, Kept(p), end, q)
  BY <1>3, <1>4, <1>5, GoesCalling
<1>7. CASE Check(s, "COMMA")
  <2>1. ~Check(s, "LOX_EOF")
    BY <1>7 DEF Check
  <2>2. Loose(p, Kept(p))
    BY DEF Loose, Kept, With, Plan
  <2>3. Turns(s, p, Advance(s), Kept(p)) /\ Advance(s).functions = s.functions
    BY <1>1, <2>1, <2>2, AdvanceTurns, AdvanceFacts
  <2>4. Goal(Then(Advance(s), <<again>>))
    BY <1>1, <1>4, <1>6, <2>3, Hands1
  <2> QED
    BY <1>7, <2>4 DEF RunNextArgument, again
<1>8. CASE ~Check(s, "COMMA")
  <2>1. Turns(s, p, s, Kept(p))
    BY <1>1, KeptTurns
  <2>2. Goal(Then(s, <<end>>))
    BY <1>1, <1>4, <1>6, <2>1, Hands1
  <2> QED
    BY <1>8, <2>2 DEF RunNextArgument, end
<1> QED
  BY <1>7, <1>8

(* `end_call' *)
LEMMA EndCallGoal ==
  ASSUME TokensOk, NEW s, NEW c, NEW p, NEW q, Stands(s, c, p, q), c.do = "end_call"
  PROVE  Goal(RunEndCall(s, c))
<1>1. /\ Base(s) /\ Typed(s, p) /\ Goes(s.functions, p, c, q) /\ Fits(s.functions, q, s.work)
      /\ c \in CallType /\ InText(s) /\ p.temps \in Nat
  BY StandsFacts
<1>2. c.count \in 0 .. UINT8_MAX
  BY <1>1, ShapeFacts
<1>3. Moves(p, q) /\ p.temps >= c.count + 1 /\ q.temps = p.temps - c.count
  BY <1>1, GoesCalling
<1> DEFINE t == Consume(s, "RIGHT_PAREN")
           n == p.temps - Pops("OP_CALL", c.count) + Pushes("OP_CALL")
<1>4. Loose(p, Kept(p)) /\ Kept(p).temps = p.temps
  BY DEF Loose, Kept, With, Plan
<1>5. Turns(s, p, t, Kept(p)) /\ Base(t)
  BY <1>1, <1>4, ConsumeTurns
<1>6. n = q.temps /\ Pops("OP_CALL", c.count) <= p.temps
  BY <1>1, <1>2, <1>3, StackFacts, ByteAssumption
<1>7. "OP_CALL" \in PlainCode /\ Operands["OP_CALL"] = 1 /\ ArgOk(t, "OP_CALL", c.count)
  BY StackFacts DEF ArgOk
<1> HIDE DEF t
<1>8. Turns(t, Kept(p), EmitWith(t, "OP_CALL", c.count), With(Kept(p), Kept(p).open, Kept(p).marks, n))
  BY <1>2, <1>4, <1>5, <1>6, <1>7, EmitWithTurns
<1>9. With(Kept(p), Kept(p).open, Kept(p).marks, n) = With(p, p.open, p.marks, n)
  BY DEF Kept, With, Plan
<1>10. Turns(s, p, EmitWith(t, "OP_CALL", c.count), With(p, p.open, p.marks, n))
  BY <1>1, <1>5, <1>8, <1>9, TurnsTransitive
<1>11. Loose(With(p, p.open, p.marks, n), q)
  BY <1>3, <1>6, LooseMoves
<1> HIDE DEF n
<1>12. Goal(EmitWith(t, "OP_CALL", c.count))
  BY <1>1, <1>10, <1>11, Hands0
<1> QED
  BY <1>12 DEF RunEndCall, t

(* An expression is under way. *)
Going(v, p, q) ==
  Base(v) /\ InText(v) /\ Typed(v, p) /\ Fits(v.functions, q, v.work) /\ p.temps \in Nat

(* What exists does so wherever the compiler reads. *)
LEMMA ArgReads ==
  ASSUME NEW s, Base(s), NEW t, Base(t), Reads(s, t), NEW op, NEW i, ArgOk(s, op, i)
  PROVE  ArgOk(t, op, i)
<1>1. Same(This(s), This(t)) /\ t.functions = s.functions
  BY BaseFacts DEF Reads
<1>2. This(t).function = This(s).function /\ Function(t) = Function(s)
  BY <1>1, BaseFacts DEF Same
<1>3. OnStack(This(t), TRUE) = OnStack(This(s), TRUE)
  BY <1>1 DEF Same, OnStack
<1> QED
  BY <1>1, <1>2, <1>3 DEF ArgOk

(* The assignment of a variable is an instruction that may be put off. *)
LEMMA SetEmits ==
  ASSUME NEW t, Base(t), NEW r, Typed(t, r), Entry(t, -1, 0) \in r.marks,
         NEW set, set \in SetOps, NEW i, i \in 0 .. UINT8_MAX, ArgOk(t, set, i),
         NEW n, n \in Nat, n >= 1, NEW q, q.temps = n
  PROVE  Emits(t.functions, With(r, r.open, r.marks, n), <<Code[set], i>>, q)
<1> DEFINE r1 == With(r, r.open, r.marks, n)
<1>1. r1.temps = n /\ r1.marks = r.marks /\ Top(r1) = Top(r)
  BY DEF With, Plan, Top
<1>2. /\ Top(r1).fun = This(t).function /\ Top(r1).depth = This(t).scope_depth
      /\ This(t).function \in DOMAIN t.functions /\ Function(t) = t.functions[This(t).function]
  BY <1>1, TopRow, BaseFacts
<1> HIDE DEF r1
<1>3. i \in Nat
  BY ByteAssumption
<1>4. CASE set = "OP_SET_LOCAL"
  <2> DEFINE e == Entry(t, -1, 0)
  <2>1. e.fun = Top(r1).fun /\ e.depth = Top(r1).depth /\ e.locals = OnStack(This(t), TRUE)
    BY <1>2, EntryFun, EntryDepth, EntryLocals
  <2>2. i \in 1 .. e.locals - 1
    BY <1>4, <2>1 DEF ArgOk
  <2>3. e \in r1.marks /\ Here(r1, e)
    BY <1>1, <2>1 DEF Here
  <2> HIDE DEF e
  <2> QED
    BY <1>1, <1>4, <2>2, <2>3 DEF Emits, r1
<1>5. CASE set = "OP_SET_GLOBAL"
  <2>1. IsString(t.functions, Top(r1).fun, i)
    BY <1>2, <1>5 DEF ArgOk
  <2> QED
    BY <1>1, <1>3, <1>5, <2>1 DEF Emits, r1
<1>6. CASE set = "OP_SET_UPVALUE"
  <2>1. i < t.functions[Top(r1).fun].upvalue_count /\ Top(r1).fun \in DOMAIN t.functions
    BY <1>2, <1>6 DEF ArgOk
  <2> QED
    BY <1>1, <1>3, <1>6, <2>1 DEF Emits, r1
<1> QED
  BY <1>4, <1>5, <1>6 DEF SetOps

(* A variable is read, *)
LEMMA ReadGoal ==
  ASSUME NEW v, NEW p, NEW q, Going(v, p, q), Moves(p, q), q.temps = p.temps + 1,
         NEW r, Names(v, p, r)
  PROVE  Goal(EmitWith(r.s, r.get, r.index))
<1> DEFINE t == r.s
           k == Kept(p)
           n == p.temps + 1
<1>1. Base(v) /\ Typed(v, p) /\ Fits(v.functions, q, v.work) /\ p.temps \in Nat
  BY DEF Going
<1>2. /\ Turns(v, p, t, k) /\ r.index \in 0 .. UINT8_MAX /\ r.get \in GetOps
      /\ t.errors = {} => ArgOk(t, r.get, r.index)
  BY <1>1 DEF Names
<1>3. r.get \in PlainCode /\ Operands[r.get] = 1 /\ Pops(r.get, r.index) = 0 /\ Pushes(r.get) = 1
  BY <1>2, StackFacts
<1>4. Base(t) /\ k.temps = p.temps /\ k.open = p.open /\ k.marks = p.marks
  BY <1>2, KeptFacts DEF Turns
<1>5. n = k.temps - Pops(r.get, r.index) + Pushes(r.get) /\ Pops(r.get, r.index) <= k.temps
  BY <1>1, <1>3, <1>4
<1> HIDE DEF t, n
<1>6. Turns(t, k, EmitWith(t, r.get, r.index), With(k, k.open, k.marks, n))
  BY <1>2, <1>3, <1>4, <1>5, OperandTurns
<1>7. With(k, k.open, k.marks, n) = With(p, p.open, p.marks, n)
  BY DEF Kept, With, Plan
<1>8. Turns(v, p, EmitWith(t, r.get, r.index), With(p, p.open, p.marks, n))
  BY <1>1, <1>2, <1>6, <1>7, TurnsTransitive
<1>9. Loose(With(p, p.open, p.marks, n), q)
  BY LooseMoves DEF n
<1> QED
  BY <1>1, <1>8, <1>9, Hands0 DEF t

(* or assigned. *)
LEMMA AssignGoal ==
  ASSUME TokensOk, NEW v, NEW p, NEW q, Going(v, p, q), Moves(p, q), q.temps = p.temps + 1,
         NEW r, Names(v, p, r), Check(r.s, "EQUAL")
  PROVE  Goal(Then(Advance(r.s), <<Expression, EmittingWith(r.set, r.index)>>))
<1> DEFINE t == r.s
           u == Advance(t)
           k == Kept(p)
           e == Entry(u, -1, 0)
           l == With(k, k.open, k.marks \cup {e}, k.temps)
           n == p.temps + 1
           m == With(l, l.open, l.marks, n)
           b == EmittingWith(r.set, r.index)
<1>1. Base(v) /\ Typed(v, p) /\ Fits(v.functions, q, v.work) /\ p.temps \in Nat /\ InText(v)
  BY DEF Going
<1>2. /\ Turns(v, p, t, k) /\ r.index \in 0 .. UINT8_MAX /\ r.set \in SetOps
      /\ t.errors = {} => ArgOk(t, r.set, r.index)
  BY <1>1 DEF Names
<1>3. Base(t) /\ InText(t) /\ ~Check(t, "LOX_EOF")
  BY <1>1, <1>2 DEF Turns, Check
<1>4. Loose(k, k)
  BY DEF Loose
<1>5. Turns(t, k, u, k) /\ Base(u) /\ Reads(t, u) /\ u.errors = t.errors
  BY <1>3, <1>4, AdvanceTurns, AdvanceReads, AdvanceFacts DEF Turns
<1> HIDE DEF t, u
<1>6. Turns(u, k, u, l)
  <2>1. e.temps = 0 /\ e = Entry(u, -1, 0)
    BY EntryTemps
  <2> HIDE DEF e
  <2> QED
    BY <1>5, <2>1, MarkTurns
<1>7. Turns(v, p, u, l)
  BY <1>1, <1>2, <1>5, <1>6, TurnsTransitive
<1>8. /\ k.levels = p.levels /\ k.open = p.open /\ k.marks = p.marks /\ k.temps = p.temps
  BY KeptFacts
<1>9. Moves(l, m) /\ m.temps = l.temps + 1 /\ Moves(m, q) /\ e \in l.marks
  BY <1>8 DEF With, Plan, Moves
<1>10. Expression \in CallType /\ b \in CallType /\ b.do = "emit" /\ b.bytes = <<Code[r.set], r.index>>
  <2>1. r.set \in OpCode
    BY <1>2, OpcodeNames DEF SetOps, VariableCode
  <2> QED
    BY <1>2, <2>1, ExpressionCallFacts, CallKinds, CallNames
<1> HIDE DEF k, l, e, b
<1>11. Goes(u.functions, l, Expression, m)
  BY <1>9, GoesParsing, CallNames
<1>12. ASSUME Typed(u, l), u.errors = {} PROVE Goes(u.functions, m, b, q)
  <2>1. ArgOk(u, r.set, r.index)
    BY <1>2, <1>3, <1>5, <1>12, ArgReads
  <2>2. n \in Nat /\ n >= 1 /\ q.temps = n
    BY <1>1
  <2>3. Emits(u.functions, m, <<Code[r.set], r.index>>, q)
    <3> HIDE DEF n
    <3> QED
      BY <1>2, <1>5, <1>9, <1>12, <2>1, <2>2, SetEmits DEF e
  <2> HIDE DEF m
  <2> QED
    BY <1>9, <1>10, <2>3, GoesEmitting
<1> HIDE DEF m
<1>13. Goal(Then(u, <<Expression, b>>))
  BY <1>1, <1>7, <1>10, <1>11, <1>12, Hands2
<1> QED
  BY <1>13 DEF b, u, t

(* named_variable *)
LEMMA NamedVariableGoal ==
  ASSUME TokensOk, NEW v, NEW p, NEW q, Going(v, p, q), Moves(p, q), q.temps = p.temps + 1,
         Previous(v).lexeme # "", NEW may
  PROVE  Goal(NamedVariable(v, may))
<1> DEFINE r == Resolve(v, Previous(v).lexeme)
<1>1. Previous(v).lexeme \in Lexeme
  BY LexemeFacts DEF Going
<1>2. Names(v, p, r)
  BY <1>1, ResolveTurns DEF Going
<1>3. NamedVariable(v, may) = IF may /\ Check(r.s, "EQUAL")
                              THEN Then(Advance(r.s), <<Expression, EmittingWith(r.set, r.index)>>)
                              ELSE EmitWith(r.s, r.get, r.index)
  BY DEF NamedVariable
<1> HIDE DEF r
<1>4. Goal(EmitWith(r.s, r.get, r.index))
  BY <1>2, ReadGoal
<1>5. Check(r.s, "EQUAL") => Goal(Then(Advance(r.s), <<Expression, EmittingWith(r.set, r.index)>>))
  BY <1>2, AssignGoal
<1> QED
  BY <1>3, <1>4, <1>5

(* The bytes of one instruction, *)
LEMMA EmittingOne ==
  ASSUME NEW op
  PROVE  Emitting(<<op>>).bytes = <<Code[op]>>
BY DEF Emitting

(* and of two. *)
LEMMA EmittingTwo ==
  ASSUME NEW a, NEW b
  PROVE  Emitting(<<a, b>>).bytes = <<Code[a], Code[b]>>
BY DEF Emitting

(* The operators emit instructions that replace their operands. *)
LEMMA UnaryEmits ==
  ASSUME NEW fs, NEW p, p.temps >= 1, NEW q, q.temps = p.temps, NEW type, type \in DOMAIN UnaryCode
  PROVE  Emits(fs, p, Emitting(UnaryCode[type]).bytes, q)
<1>1. \E op \in UnaryOps : UnaryCode[type] = <<op>>
  BY DEF UnaryCode, UnaryOps
<1>2. \E op \in UnaryOps : Emitting(UnaryCode[type]).bytes = <<Code[op]>>
  BY <1>1, EmittingOne
<1> QED
  BY <1>2 DEF Emits

(* The instructions of a binary operator replace two values by one. *)
LEMMA BinaryEmits ==
  ASSUME NEW fs, NEW p, p.temps >= 2, NEW q, q.temps = p.temps - 1, NEW type, type \in DOMAIN BinaryCode
  PROVE  Emits(fs, p, Emitting(BinaryCode[type]).bytes, q)
<1>1. \E op \in BinaryOps : BinaryCode[type] = <<op>> \/ BinaryCode[type] = <<op, "OP_NOT">>
  BY DEF BinaryCode, BinaryOps
<1>2. \E op \in BinaryOps : \/ Emitting(BinaryCode[type]).bytes = <<Code[op]>>
                            \/ Emitting(BinaryCode[type]).bytes = <<Code[op], Code["OP_NOT"]>>
  BY <1>1, EmittingOne, EmittingTwo
<1> QED
  BY <1>2 DEF Emits

(* The parts of an expression that are put off. *)
LEMMA UnaryGoal ==
  ASSUME NEW v, NEW p, NEW q, Going(v, p, q), Moves(p, q), q.temps = p.temps + 1,
         NEW type, type \in DOMAIN UnaryCode
  PROVE  Goal(Then(v, <<Parse(UNARY), Emitting(UnaryCode[type])>>))
<1> DEFINE m == With(p, p.open, p.marks, p.temps + 1)
           k == Kept(p)
           b == Emitting(UnaryCode[type])
<1>1. Base(v) /\ Typed(v, p) /\ Fits(v.functions, q, v.work) /\ p.temps \in Nat
  BY DEF Going
<1>2. Turns(v, p, v, k)
  BY <1>1, KeptTurns
<1>3. Moves(k, m) /\ m.temps = k.temps + 1 /\ Moves(m, q) /\ m.temps >= 1 /\ q.temps = m.temps
  BY <1>1, MovesThrough DEF Kept
<1>4. Parse(UNARY) \in CallType /\ b \in CallType
  <2>1. UNARY \in ASSIGNMENT .. CALL + 1
    BY PrecedenceFacts
  <2>2. Parse(UNARY) \in ExpressionCall /\ b \in ExpressionCall
    BY <2>1, ExpressionCallFacts, OperatorFacts
  <2> QED
    BY <2>2, CallKinds
<1> HIDE DEF m, k
<1>5. Goes(v.functions, k, Parse(UNARY), m)
  BY <1>3, GoesParsing, CallNames
<1>6. Emits(v.functions, m, b.bytes, q) /\ b.do = "emit"
  BY <1>3, UnaryEmits, CallNames
<1> HIDE DEF b
<1>7. Goes(v.functions, m, b, q)
  BY <1>3, <1>6, GoesEmitting
<1> QED
  BY <1>1, <1>2, <1>4, <1>5, <1>7, Hands2 DEF b

(* An expression in parentheses. *)
LEMMA GroupGoal ==
  ASSUME NEW v, NEW p, NEW q, Going(v, p, q), Moves(p, q), q.temps = p.temps + 1
  PROVE  Goal(Then(v, <<Expression, Expect("RIGHT_PAREN")>>))
<1> DEFINE m == With(p, p.open, p.marks, p.temps + 1)
           k == Kept(p)
           b == Expect("RIGHT_PAREN")
<1>1. Base(v) /\ Typed(v, p) /\ Fits(v.functions, q, v.work) /\ p.temps \in Nat
  BY DEF Going
<1>2. Turns(v, p, v, k)
  BY <1>1, KeptTurns
<1>3. Moves(k, m) /\ m.temps = k.temps + 1 /\ Moves(m, q) /\ q.temps = m.temps
  BY <1>1, MovesThrough DEF Kept
<1>4. Expression \in CallType /\ b \in CallType /\ b.do = "consume"
  BY ExpressionCallFacts, CallKinds, CallNames
<1> HIDE DEF m, k, b
<1>5. Goes(v.functions, k, Expression, m)
  BY <1>3, GoesParsing, CallNames
<1>6. Goes(v.functions, m, b, q)
  BY <1>3, <1>4, GoesReading
<1> QED
  BY <1>1, <1>2, <1>4, <1>5, <1>6, Hands2 DEF b

(* A literal. *)
LEMMA LiteralGoal ==
  ASSUME NEW v, NEW p, NEW q, Going(v, p, q), Moves(p, q), q.temps = p.temps + 1,
         NEW val, val \in ConstantType, IsConstant(v.functions, val), ~IsFun(val)
  PROVE  Goal(EmitConstant(v, val))
<1>1. Base(v) /\ Typed(v, p) /\ Fits(v.functions, q, v.work) /\ p.temps \in Nat
  BY DEF Going
<1>2. Turns(v, p, EmitConstant(v, val), With(p, p.open, p.marks, p.temps + 1))
  BY <1>1, LiteralTurns
<1>3. Loose(With(p, p.open, p.marks, p.temps + 1), q)
  BY LooseMoves
<1> QED
  BY <1>1, <1>2, <1>3, Hands0

(* A literal that has an instruction of its own leaves a value. *)
LEMMA NamedLiteralGoal ==
  ASSUME NEW v, NEW p, NEW q, Going(v, p, q), Moves(p, q), q.temps = p.temps + 1,
         NEW op, op \in PushOps
  PROVE  Goal(Emit(v, op))
<1>1. Base(v) /\ Typed(v, p) /\ Fits(v.functions, q, v.work) /\ p.temps \in Nat
  BY DEF Going
<1>2. Turns(v, p, Emit(v, op), With(p, p.open, p.marks, p.temps + 1))
  BY <1>1, PushTurns
<1>3. Loose(With(p, p.open, p.marks, p.temps + 1), q)
  BY LooseMoves
<1> QED
  BY <1>1, <1>2, <1>3, Hands0

(* Every prefix rule. *)
LEMMA PrefixGoal ==
  ASSUME TokensOk, NEW v, NEW p, NEW q, Going(v, p, q), Moves(p, q), q.temps = p.temps + 1, NEW may,
         NEW token, token.type \in Prefix,
         token.type = "NUMBER" => token.lexeme \in DOMAIN NumberValue,
         token.type = "STRING" => token.lexeme \in DOMAIN StringValue,
         token.type = "IDENTIFIER" => Previous(v).lexeme # ""
  PROVE  Goal(PrefixExpression(v, token, may))
<1>1. DOMAIN UnaryCode = {"BANG", "MINUS"} /\ DOMAIN LiteralCode = {"FALSE", "TRUE", "NIL"}
  BY DEF UnaryCode, LiteralCode
<1>2. CASE token.type = "LEFT_PAREN"
  <2>1. PrefixExpression(v, token, may) = Then(v, <<Expression, Expect("RIGHT_PAREN")>>)
    BY <1>1, <1>2 DEF PrefixExpression
  <2>2. Goal(Then(v, <<Expression, Expect("RIGHT_PAREN")>>))
    BY GroupGoal
  <2> QED
    BY <2>1, <2>2
<1>3. CASE token.type \in {"MINUS", "BANG"}
  <2>1. PrefixExpression(v, token, may) = Then(v, <<Parse(UNARY), Emitting(UnaryCode[token.type])>>)
    BY <1>1, <1>3 DEF PrefixExpression
  <2>2. token.type \in DOMAIN UnaryCode
    BY <1>1, <1>3
  <2>3. Goal(Then(v, <<Parse(UNARY), Emitting(UnaryCode[token.type])>>))
    BY <2>2, UnaryGoal
  <2> QED
    BY <2>1, <2>3
<1>4. CASE token.type = "NUMBER"
  <2> DEFINE val == Num(NumberValue[token.lexeme])
  <2>1. PrefixExpression(v, token, may) = EmitConstant(v, val)
    BY <1>1, <1>4 DEF PrefixExpression
  <2>2. val \in ConstantType /\ IsConstant(v.functions, val) /\ ~IsFun(val)
    BY <1>4 DEF ConstantType, IsConstant, IsNum, Num, IsFun
  <2> HIDE DEF val
  <2> QED
    BY <2>1, <2>2, LiteralGoal
<1>5. CASE token.type = "STRING"
  <2> DEFINE val == Str(StringValue[token.lexeme])
  <2>1. PrefixExpression(v, token, may) = EmitConstant(v, val)
    BY <1>1, <1>5 DEF PrefixExpression
  <2>2. val \in ConstantType /\ IsConstant(v.functions, val) /\ ~IsFun(val)
    BY <1>5 DEF ConstantType, IsConstant, IsStr, Str, IsFun
  <2> HIDE DEF val
  <2> QED
    BY <2>1, <2>2, LiteralGoal
<1>6. CASE token.type \in {"FALSE", "NIL", "TRUE"}
  <2> DEFINE op == LiteralCode[token.type]
  <2>1. PrefixExpression(v, token, may) = Emit(v, op)
    BY <1>1, <1>6 DEF PrefixExpression
  <2>2. op \in PushOps
    BY <1>6 DEF LiteralCode, PushOps
  <2> HIDE DEF op
  <2> QED
    BY <2>1, <2>2, NamedLiteralGoal
<1>7. CASE token.type = "IDENTIFIER"
  <2>1. PrefixExpression(v, token, may) = NamedVariable(v, may)
    BY <1>1, <1>7 DEF PrefixExpression
  <2> QED
    BY <1>7, <2>1, NamedVariableGoal
<1> QED
  BY <1>2, <1>3, <1>4, <1>5, <1>6, <1>7 DEF Prefix

(* A token has been read, and the call that will go on waits. *)
LEMMA WaitingGoes ==
  ASSUME TokensOk, NEW s, Base(s), s.errors = {}, InText(s), ~Check(s, "LOX_EOF"),
         NEW p, Typed(s, p), NEW q, Fits(s.functions, q, s.work),
         NEW c, c \in CallType, NEW m, Goes(s.functions, m, c, q)
  PROVE  /\ Going(Then(Advance(s), <<c>>), p, m)
         /\ Previous(Then(Advance(s), <<c>>)) = Current(s)
<1> DEFINE t  == Advance(s)
           cs == <<c>>
           v  == Then(t, cs)
<1>1. Loose(p, p)
  BY DEF Loose
<1>2. Turns(s, p, t, p) /\ InText(t)
  BY <1>1, AdvanceTurns
<1>3. t.functions = s.functions /\ t.errors = {} /\ This(t).previous = This(s).current
  BY AdvanceFacts
<1> HIDE DEF t
<1>4. Base(t) /\ t.work = s.work /\ Typed(t, p)
  BY <1>2, <1>3 DEF Turns
<1>5. cs \in Seq(CallType) /\ s.work \in Seq(CallType)
  BY PairFacts, BaseFacts DEF IsState
<1>6. Fits(s.functions, m, cs \o s.work)
  BY <1>5, FitsCons
<1> HIDE DEF cs
<1>7. /\ Base(v) /\ v.work = cs \o s.work /\ v.compilers = t.compilers /\ v.functions = s.functions
      /\ InText(v) /\ Previous(v) = Previous(t)
  BY <1>2, <1>3, <1>4, <1>5, ThenFacts, ThenSites
<1> HIDE DEF v
<1>8. Typed(v, p)
  BY <1>3, <1>4, <1>7 DEF Typed
<1>9. Previous(t) = Current(s)
  BY <1>3 DEF Previous, Current
<1>10. p.temps \in Nat
  BY TopRow
<1> QED
  BY <1>6, <1>7, <1>8, <1>9, <1>10 DEF Going, v, cs, t

(* Names are not empty. *)
NamesOk == \A k \in DOMAIN tokens : tokens[k].type = "IDENTIFIER" => tokens[k].lexeme # ""

(* `parse_precedence' *)
LEMMA ParsePrecedenceGoal ==
  ASSUME TokensOk, NamesOk, NEW s, NEW c, NEW p, NEW q, Stands(s, c, p, q), c.do = "parse_precedence"
  PROVE  Goal(RunParsePrecedence(s, c))
<1>1. /\ Base(s) /\ Typed(s, p) /\ Goes(s.functions, p, c, q) /\ Fits(s.functions, q, s.work)
      /\ c \in CallType /\ InText(s) /\ s.errors = {} /\ p.temps \in Nat
  BY StandsFacts
<1>2. Moves(p, q) /\ q.temps = p.temps + 1
  BY <1>1, GoesParsing
<1> DEFINE k == [c EXCEPT !.do = "infix"]
           v == Then(Advance(s), <<k>>)
           m == With(p, p.open, p.marks, p.temps + 1)
           may == c.precedence <= ASSIGNMENT
<1>3. k \in ExpressionCall /\ k.do = "infix"
  <2>1. c \in [do : {"parse_precedence", "infix"}, precedence : ASSIGNMENT .. CALL + 1]
    BY <1>1, ShapeFacts
  <2> QED
    BY <2>1 DEF ExpressionCall
<1>4. RunParsePrecedence(s, c) = IF Current(s).type \notin Prefix THEN ErrorAtCurrent(s, "Expected expression.")
                                 ELSE PrefixExpression(v, Current(s), may)
  BY DEF RunParsePrecedence
<1> HIDE DEF k, may
<1>5. Moves(p, m) /\ m.temps = p.temps + 1 /\ Moves(m, q) /\ m.temps >= 1 /\ q.temps = m.temps
  BY <1>1, <1>2, MovesThrough
<1> HIDE DEF m
<1>6. Goes(s.functions, m, k, q)
  BY <1>3, <1>5, GoesInfix
<1>7. CASE Current(s).type \notin Prefix
  BY <1>1, <1>4, <1>7, GoalFails
<1>8. CASE Current(s).type \in Prefix
  <2>1. ~Check(s, "LOX_EOF")
    BY <1>8 DEF Check, Prefix
  <2>2. k \in CallType
    BY <1>3, CallKinds
  <2>3. Going(v, p, m) /\ Previous(v) = Current(s)
    BY <1>1, <1>6, <2>1, <2>2, WaitingGoes
  <2>4. /\ Current(s).type = "NUMBER" => Current(s).lexeme \in DOMAIN NumberValue
        /\ Current(s).type = "STRING" => Current(s).lexeme \in DOMAIN StringValue
    BY <1>1, TokenFacts
  <2>5. Current(s).type = "IDENTIFIER" => Current(s).lexeme # ""
    <3>1. This(s).current \in DOMAIN tokens
      <4> DEFINE T == [type : TokenType, lexeme : Lexeme]
      <4>1. tokens \in Seq(T)
        BY DEF TokensOk
      <4> HIDE DEF T
      <4> QED
        BY <1>1, <4>1 DEF InText
    <3> QED
      BY <3>1 DEF NamesOk, Current
  <2> HIDE DEF v
  <2>6. Goal(PrefixExpression(v, Current(s), may))
    BY <1>5, <1>8, <2>3, <2>4, <2>5, PrefixGoal
  <2> QED
    BY <1>4, <1>8, <2>6
<1> QED
  BY <1>7, <1>8

(* A binary operator. *)
LEMMA BinaryGoal ==
  ASSUME NEW v, NEW p, NEW q, Going(v, p, q), Moves(p, q), q.temps = p.temps, p.temps >= 1,
         NEW type, type \in DOMAIN BinaryCode, NEW n, n \in ASSIGNMENT .. CALL + 1
  PROVE  Goal(Then(v, <<Parse(n), Emitting(BinaryCode[type])>>))
<1> DEFINE m == With(p, p.open, p.marks, p.temps + 1)
           k == Kept(p)
           b == Emitting(BinaryCode[type])
<1>1. Base(v) /\ Typed(v, p) /\ Fits(v.functions, q, v.work) /\ p.temps \in Nat
  BY DEF Going
<1>2. Turns(v, p, v, k)
  BY <1>1, KeptTurns
<1>3. Moves(k, m) /\ m.temps = k.temps + 1 /\ Moves(m, q) /\ m.temps >= 2 /\ q.temps = m.temps - 1
  BY <1>1, MovesThrough DEF Kept
<1>4. Parse(n) \in CallType /\ b \in CallType
  <2>1. Parse(n) \in ExpressionCall /\ b \in ExpressionCall
    BY ExpressionCallFacts, OperatorFacts
  <2> QED
    BY <2>1, CallKinds
<1> HIDE DEF m, k
<1>5. Goes(v.functions, k, Parse(n), m)
  BY <1>3, GoesParsing, CallNames
<1>6. Emits(v.functions, m, b.bytes, q) /\ b.do = "emit"
  BY <1>3, BinaryEmits, CallNames
<1> HIDE DEF b
<1>7. Goes(v.functions, m, b, q)
  BY <1>3, <1>6, GoesEmitting
<1> QED
  BY <1>1, <1>2, <1>4, <1>5, <1>7, Hands2 DEF b

(* A call. *)
LEMMA CallGoal ==
  ASSUME NEW v, NEW p, NEW q, Going(v, p, q), Moves(p, q), q.temps = p.temps, p.temps >= 1,
         NEW name, name \in {"argument", "end_call"}
  PROVE  Goal(Then(v, <<[do |-> name, count |-> 0]>>))
<1> DEFINE k == Kept(p)
           c == [do |-> name, count |-> 0]
<1>1. Base(v) /\ Typed(v, p) /\ Fits(v.functions, q, v.work) /\ p.temps \in Nat
  BY DEF Going
<1>2. Turns(v, p, v, k)
  BY <1>1, KeptTurns
<1>3. Moves(k, q) /\ k.temps = p.temps
  BY MovesThrough DEF Kept
<1>4. c \in CallType /\ c.do = name /\ c.count = 0
  <2>1. c \in ExpressionCall
    BY ByteAssumption DEF ExpressionCall
  <2> QED
    BY <2>1, CallKinds
<1> HIDE DEF k, c
<1>5. Goes(v.functions, k, c, q)
  <2>1. k.temps >= c.count + 1 /\ q.temps = k.temps - c.count
    BY <1>1, <1>3, <1>4
  <2> QED
    BY <1>3, <1>4, <2>1, GoesCalling
<1> QED
  BY <1>1, <1>2, <1>4, <1>5, Hands1 DEF c

(* A jump that is emitted now can be patched later. *)
LEMMA JumpLeaves ==
  ASSUME NEW s, Base(s), NEW p, Typed(s, p), NEW e, e = Entry(s, CodeSize(s), p.temps),
         NEW m, m.levels = p.levels
  PROVE  Leaves(m, p.open \cup {e}, p.temps, JumpAddress(s), p.open)
<1>1. /\ e \notin p.open /\ Here(p, e) /\ e.temps = p.temps /\ AsUint16(e.at) = JumpAddress(s)
  BY JumpIsNew
<1>2. Here(m, e)
  BY <1>1 DEF Here, Top
<1>3. p.open = (p.open \cup {e}) \ {e}
  BY <1>1
<1> QED
  BY <1>1, <1>2, <1>3 DEF Leaves

(* A jump if the condition is false, and the condition is popped. *)
LEMMA ConditionTurns ==
  ASSUME NEW s, Base(s), NEW p, Typed(s, p), p.temps >= 1,
         NEW e, e = Entry(s, CodeSize(s), p.temps)
  PROVE  Turns(s, p, Emit(EmitJump(s, "OP_JUMP_IF_FALSE"), "OP_POP"),
               With(p, p.open \cup {e}, p.marks, p.temps - 1))
<1> DEFINE t == EmitJump(s, "OP_JUMP_IF_FALSE")
           r == With(p, p.open \cup {e}, p.marks, p.temps)
<1>1. p.temps \in Nat
  BY TopRow
<1>2. Turns(s, p, t, r)
  BY <1>1, JumpTurns
<1>3. Base(t)
  BY <1>2 DEF Turns
<1>4. r.temps = p.temps /\ r.open = p.open \cup {e} /\ r.marks = p.marks
  BY DEF With, Plan
<1>5. With(r, r.open, r.marks, r.temps - 1) = With(p, p.open \cup {e}, p.marks, p.temps - 1)
  BY DEF With, Plan
<1> HIDE DEF t, r
<1>6. Turns(t, r, Emit(t, "OP_POP"), With(r, r.open, r.marks, r.temps - 1))
  BY <1>3, <1>4, PopTurns DEF PopOps
<1>7. Turns(s, p, Emit(t, "OP_POP"), With(p, p.open \cup {e}, p.marks, p.temps - 1))
  BY <1>2, <1>5, <1>6, TurnsTransitive
<1> QED
  BY <1>7 DEF t

(* The operator `and'. *)
LEMMA AndGoal ==
  ASSUME NEW v, NEW p, NEW q, Going(v, p, q), Moves(p, q), q.temps = p.temps, p.temps >= 1
  PROVE  Goal(Then(Emit(EmitJump(v, "OP_JUMP_IF_FALSE"), "OP_POP"), <<Parse(AND), Patching(JumpAddress(v))>>))
<1>1. Base(v) /\ Typed(v, p) /\ Fits(v.functions, q, v.work) /\ p.temps \in Nat
  BY DEF Going
<1> DEFINE e == Entry(v, CodeSize(v), p.temps)
           t == Emit(EmitJump(v, "OP_JUMP_IF_FALSE"), "OP_POP")
           r == With(p, p.open \cup {e}, p.marks, p.temps - 1)
           m == With(p, p.open \cup {e}, p.marks, p.temps)
           b == Patching(JumpAddress(v))
<1>2. Turns(v, p, t, r)
  BY <1>1, ConditionTurns
<1>3. Moves(r, m) /\ m.temps = r.temps + 1 /\ m.levels = p.levels /\ m.marks = p.marks
      /\ m.temps = p.temps /\ m.open = p.open \cup {e}
  BY <1>1 DEF Moves, With, Plan
<1>4. Leaves(m, p.open \cup {e}, p.temps, JumpAddress(v), p.open)
  BY <1>1, <1>3, JumpLeaves
<1>5. Parse(AND) \in CallType /\ b \in CallType
  <2>1. AND \in ASSIGNMENT .. CALL + 1
    BY PrecedenceFacts
  <2>2. Parse(AND) \in ExpressionCall /\ b \in ExpressionCall
    BY <1>1, <2>1, CodeSizeFacts, ExpressionCallFacts
  <2> QED
    BY <2>2, CallKinds
<1>6. b.do = "patch_jump" /\ b.jump = JumpAddress(v)
  BY CallNames
<1> HIDE DEF e, t, r, m, b
<1>7. \A fs : Goes(fs, r, Parse(AND), m)
  BY <1>3, GoesParsing, CallNames
<1>8. \A fs : Goes(fs, m, b, q)
  <2>1. q.levels = p.levels /\ q.open = p.open /\ q.marks \subseteq p.marks /\ q.fresh = FALSE
    BY DEF Moves
  <2> QED
    BY <1>3, <1>4, <1>6, <2>1, GoesPatching
<1>9. Goal(Then(t, <<Parse(AND), b>>))
  BY <1>1, <1>2, <1>5, <1>7, <1>8, Hands2
<1> QED
  BY <1>9 DEF t, b

(* The operator `or' jumps over a jump. *)
LEMMA OrTurns ==
  ASSUME NEW s, Base(s), NEW p, Typed(s, p), p.temps >= 1,
         NEW t, t = EmitJump(s, "OP_JUMP_IF_FALSE"), NEW e, e = Entry(t, CodeSize(t), p.temps),
         t.errors = {}
  PROVE  Turns(s, p, Emit(PatchJump(EmitJump(t, "OP_JUMP"), JumpAddress(s)), "OP_POP"),
               With(p, p.open \cup {e}, p.marks, p.temps - 1))
<1> DEFINE d == Entry(s, CodeSize(s), p.temps)
           u == EmitJump(t, "OP_JUMP")
           w == PatchJump(u, JumpAddress(s))
           r == With(p, p.open \cup {d}, p.marks, p.temps)
           r2 == With(p, (p.open \cup {d}) \cup {e}, p.marks, p.temps)
           r3 == With(p, p.open \cup {e}, p.marks, p.temps)
<1>1. p.temps \in Nat
  BY TopRow
<1>2. Turns(s, p, t, r)
  BY <1>1, JumpTurns
<1>3. Base(t) /\ Typed(t, r)
  BY <1>2 DEF Turns
<1>4. r.temps = p.temps /\ r.open = p.open \cup {d} /\ r.marks = p.marks /\ r.levels = p.levels
      /\ r2.temps = p.temps /\ r2.open = (p.open \cup {d}) \cup {e} /\ r2.marks = p.marks /\ r2.levels = p.levels
      /\ r3.temps = p.temps /\ r3.open = p.open \cup {e} /\ r3.marks = p.marks
  BY DEF With, Plan
<1>5. With(r, r.open \cup {e}, r.marks, p.temps) = r2 /\ With(r2, p.open \cup {e}, r2.marks, r2.temps) = r3
      /\ With(r3, r3.open, r3.marks, r3.temps - 1) = With(p, p.open \cup {e}, p.marks, p.temps - 1)
  BY DEF With, Plan
<1>6. /\ d \notin p.open /\ Here(p, d) /\ d.temps = p.temps /\ AsUint16(d.at) = JumpAddress(s)
  BY JumpIsNew
<1> HIDE DEF d, r, r2, r3
<1>7. Turns(t, r, u, r2)
  BY <1>1, <1>3, <1>4, <1>5, JumpTurns
<1>8. Turns(s, p, u, r2) /\ Base(u)
  BY <1>2, <1>7, TurnsTransitive DEF Turns
<1>9. e \notin r.open
  BY <1>3, <1>4, JumpIsNew
<1> HIDE DEF u
<1>10. Leaves(r2, r2.open, r2.temps, JumpAddress(s), p.open \cup {e})
  <2>1. Here(r2, d)
    BY <1>4, <1>6 DEF Here, Top
  <2>2. p.open \cup {e} = r2.open \ {d}
    BY <1>4, <1>6, <1>9
  <2>3. d \in r2.open
    BY <1>4
  <2> QED
    BY <1>4, <1>6, <2>1, <2>2, <2>3 DEF Leaves
<1>11. JumpAddress(s) \in Nat
  BY CodeSizeFacts
<1>12. Turns(u, r2, w, r3)
  BY <1>5, <1>8, <1>10, <1>11, PatchTurns
<1>13. Turns(s, p, w, r3) /\ Base(w)
  BY <1>8, <1>12, TurnsTransitive DEF Turns
<1> HIDE DEF w
<1>14. Turns(w, r3, Emit(w, "OP_POP"), With(r3, r3.open, r3.marks, r3.temps - 1))
  BY <1>4, <1>13, PopTurns DEF PopOps
<1>15. Turns(s, p, Emit(w, "OP_POP"), With(p, p.open \cup {e}, p.marks, p.temps - 1))
  BY <1>5, <1>13, <1>14, TurnsTransitive
<1> QED
  BY <1>15 DEF w, u

(* The operator `or'. *)
LEMMA OrGoal ==
  ASSUME NEW v, NEW p, NEW q, Going(v, p, q), Moves(p, q), q.temps = p.temps, p.temps >= 1,
         NEW t, t = EmitJump(v, "OP_JUMP_IF_FALSE"), v.errors = {}
  PROVE  Goal(Then(Emit(PatchJump(EmitJump(t, "OP_JUMP"), JumpAddress(v)), "OP_POP"),
                   <<Parse(OR), Patching(JumpAddress(t))>>))
<1>1. Base(v) /\ Typed(v, p) /\ Fits(v.functions, q, v.work) /\ p.temps \in Nat
  BY DEF Going
<1> DEFINE d == Entry(v, CodeSize(v), p.temps)
           e == Entry(t, CodeSize(t), p.temps)
           u == Emit(PatchJump(EmitJump(t, "OP_JUMP"), JumpAddress(v)), "OP_POP")
           n == With(p, p.open \cup {d}, p.marks, p.temps)
           r == With(p, p.open \cup {e}, p.marks, p.temps - 1)
           m == With(p, p.open \cup {e}, p.marks, p.temps)
           b == Patching(JumpAddress(t))
<1>2. t.errors = {}
  BY DEF EmitJump, EmitBytes
<1>3. Turns(v, p, u, r)
  BY <1>1, <1>2, OrTurns
<1>4. Turns(v, p, t, n)
  BY <1>1, JumpTurns
<1>5. Base(t) /\ Typed(t, n)
  BY <1>1, <1>2, <1>4 DEF Turns
<1>6. Moves(r, m) /\ m.temps = r.temps + 1 /\ m.levels = p.levels /\ m.marks = p.marks
      /\ m.temps = p.temps /\ m.open = p.open \cup {e}
      /\ n.temps = p.temps /\ n.levels = p.levels /\ n.open = p.open \cup {d}
  BY <1>1 DEF Moves, With, Plan
<1>7. Leaves(m, p.open \cup {e}, p.temps, JumpAddress(t), p.open)
  <2>1. /\ e \notin n.open /\ Here(n, e) /\ e.temps = n.temps /\ AsUint16(e.at) = JumpAddress(t)
    BY <1>5, <1>6, JumpIsNew
  <2> HIDE DEF d, e, n, m
  <2>2. Here(m, e) /\ p.open = (p.open \cup {e}) \ {e}
    BY <1>6, <2>1 DEF Here, Top
  <2> QED
    BY <1>6, <2>1, <2>2 DEF Leaves
<1>8. Parse(OR) \in CallType /\ b \in CallType
  <2>1. OR \in ASSIGNMENT .. CALL + 1
    BY PrecedenceFacts
  <2>2. Parse(OR) \in ExpressionCall /\ b \in ExpressionCall
    BY <1>5, <2>1, CodeSizeFacts, ExpressionCallFacts
  <2> QED
    BY <2>2, CallKinds
<1>9. b.do = "patch_jump" /\ b.jump = JumpAddress(t)
  BY CallNames
<1> HIDE DEF d, e, n, u, r, m, b
<1>10. \A fs : Goes(fs, r, Parse(OR), m)
  BY <1>6, GoesParsing, CallNames
<1>11. \A fs : Goes(fs, m, b, q)
  <2>1. q.levels = p.levels /\ q.open = p.open /\ q.marks \subseteq p.marks /\ q.fresh = FALSE
    BY DEF Moves
  <2> QED
    <3>1. Leaves(m, m.open, m.temps, b.jump, q.open)
      BY <1>6, <1>7, <1>9, <2>1
    <3>2. q.levels = m.levels /\ q.marks \subseteq m.marks /\ q.temps = m.temps
      BY <1>6, <2>1
    <3> QED
      BY <1>9, <2>1, <3>1, <3>2, GoesPatching
<1>12. Goal(Then(u, <<Parse(OR), b>>))
  BY <1>1, <1>3, <1>8, <1>10, <1>11, Hands2
<1> QED
  BY <1>12 DEF u, b

(* Every infix rule. *)
LEMMA InfixExpressionGoal ==
  ASSUME TokensOk, NEW v, NEW p, NEW q, Going(v, p, q), Moves(p, q), q.temps = p.temps, p.temps >= 1,
         v.errors = {}, NEW token, token.type \in TokenType, InfixPrecedence[token.type] # NONE
  PROVE  Goal(InfixExpression(v, token))
<1>1. DOMAIN BinaryCode = {"BANG_EQUAL", "EQUAL_EQUAL", "GREATER", "LESS", "GREATER_EQUAL", "LESS_EQUAL",
                           "STAR", "SLASH", "PLUS", "MINUS"}
  BY DEF BinaryCode
<1>2. token.type \in DOMAIN BinaryCode \cup {"AND", "OR", "LEFT_PAREN"}
  BY <1>1 DEF InfixPrecedence, NONE
<1>3. CASE token.type \in DOMAIN BinaryCode
  <2> DEFINE n == InfixPrecedence[token.type] + 1
  <2>1. InfixExpression(v, token) = Then(v, <<Parse(n), Emitting(BinaryCode[token.type])>>)
    BY <1>1, <1>3 DEF InfixExpression
  <2>2. n \in ASSIGNMENT .. CALL + 1
    BY PrecedenceFacts
  <2> HIDE DEF n
  <2>3. Goal(Then(v, <<Parse(n), Emitting(BinaryCode[token.type])>>))
    BY <1>3, <2>2, BinaryGoal
  <2> QED
    BY <2>1, <2>3
<1>4. CASE token.type = "AND"
  <2> DEFINE t == Then(Emit(EmitJump(v, "OP_JUMP_IF_FALSE"), "OP_POP"), <<Parse(AND), Patching(JumpAddress(v))>>)
  <2>1. InfixExpression(v, token) = t
    BY <1>1, <1>4 DEF InfixExpression
  <2>2. Goal(t)
    BY AndGoal
  <2> QED
    BY <2>1, <2>2
<1>5. CASE token.type = "OR"
  <2> DEFINE t == EmitJump(v, "OP_JUMP_IF_FALSE")
             u == Then(Emit(PatchJump(EmitJump(t, "OP_JUMP"), JumpAddress(v)), "OP_POP"),
                       <<Parse(OR), Patching(JumpAddress(t))>>)
  <2>1. InfixExpression(v, token) = u
    BY <1>1, <1>5 DEF InfixExpression
  <2>2. Goal(u)
    BY OrGoal
  <2> QED
    BY <2>1, <2>2
<1>6. CASE token.type = "LEFT_PAREN"
  <2> DEFINE none == Then(v, <<[do |-> "end_call", count |-> 0]>>)
             some == Then(v, <<[do |-> "argument", count |-> 0]>>)
  <2>1. InfixExpression(v, token) = IF Check(v, "RIGHT_PAREN") THEN none ELSE some
    BY <1>1, <1>6 DEF InfixExpression
  <2>2. Goal(none) /\ Goal(some)
    BY CallGoal
  <2> QED
    BY <2>1, <2>2
<1> QED
  BY <1>2, <1>3, <1>4, <1>5, <1>6

(* `infix' *)
LEMMA InfixGoal ==
  ASSUME TokensOk, NEW s, NEW c, NEW p, NEW q, Stands(s, c, p, q), c.do = "infix"
  PROVE  Goal(RunInfix(s, c))
<1>1. /\ Base(s) /\ Typed(s, p) /\ Goes(s.functions, p, c, q) /\ Fits(s.functions, q, s.work)
      /\ c \in CallType /\ InText(s) /\ s.errors = {} /\ p.temps \in Nat
  BY StandsFacts
<1>2. Moves(p, q) /\ q.temps = p.temps /\ p.temps >= 1
  BY <1>1, GoesInfix
<1>3. c \in [do : {"parse_precedence", "infix"}, precedence : ASSIGNMENT .. CALL + 1]
  BY <1>1, ShapeFacts
<1>4. Current(s).type \in TokenType
  BY <1>1, TokenFacts
<1> DEFINE v == Then(Advance(s), <<c>>)
           m == With(p, p.open, p.marks, p.temps)
           binds == c.precedence <= InfixPrecedence[Current(s).type]
           invalid == c.precedence <= ASSIGNMENT /\ Check(s, "EQUAL")
<1>5. RunInfix(s, c) = IF binds THEN InfixExpression(v, Current(s))
                       ELSE IF invalid THEN ErrorAtPrevious(Advance(s), "Invalid assignment target.") ELSE s
  BY DEF RunInfix
<1>6. Moves(p, m) /\ m.temps = p.temps /\ Moves(m, q)
  BY <1>1, <1>2, MovesThrough
<1>7. CASE binds
  <2>1. InfixPrecedence[Current(s).type] # NONE
    BY <1>3, <1>7, PrecedenceFacts
  <2>2. ~Check(s, "LOX_EOF")
    BY <1>4, <2>1 DEF Check, InfixPrecedence
  <2>3. Goes(s.functions, m, c, q)
    BY <1>2, <1>6, GoesInfix
  <2> HIDE DEF m
  <2>4. Going(v, p, m)
    BY <1>1, <2>2, <2>3, WaitingGoes
  <2>5. v.errors = {}
    BY <1>1 DEF Then, Advance
  <2> HIDE DEF v
  <2>6. Goal(InfixExpression(v, Current(s)))
    BY <1>2, <1>4, <1>6, <2>1, <2>4, <2>5, InfixExpressionGoal
  <2> QED
    BY <1>5, <1>7, <2>6
<1>8. CASE ~binds /\ invalid
  <2>1. Base(Advance(s))
    BY <1>1, <1>8, AdvanceBase DEF Check
  <2>2. Goal(ErrorAtPrevious(Advance(s), "Invalid assignment target."))
    BY <2>1, GoalFails
  <2> QED
    BY <1>5, <1>8, <2>2
<1>9. CASE ~binds /\ ~invalid
  <2>1. RunInfix(s, c) = s
    BY <1>5, <1>9
  <2>2. Turns(s, p, s, Kept(p)) /\ Loose(Kept(p), q)
    BY <1>1, <1>2, KeptTurns, LooseKept
  <2>3. Goal(s)
    BY <1>1, <2>2, Hands0
  <2> QED
    BY <2>1, <2>3
<1> QED
  BY <1>7, <1>8, <1>9

-----------------------------------------------------------------------------
(* What the calls of statements do. *)

(* No variable is declared and not defined when a statement begins. *)
LEMMA StandsSettled ==
  ASSUME NEW s, NEW c, NEW p, NEW q, Stands(s, c, p, q), c.do \in StatementName \cup ClosingName
  PROVE  Settled(s) /\ Top(p).waits = FALSE
<1>1. Base(s) /\ Typed(s, p) /\ Ready(s, c)
  BY StandsFacts DEF Stands
<1>2. Settled(s)
  BY <1>1, ReadyFacts
<1>3. Me(s) \in DOMAIN s.compilers /\ This(s) = s.compilers[Me(s)]
  BY <1>1, BaseChain
<1>4. Len(This(s).locals) \in DOMAIN This(s).locals
  BY <1>1, OwnFacts
<1>5. This(s).locals[Len(This(s).locals)].depth # -1
  BY <1>2, <1>3, <1>4 DEF Settled
<1>6. Top(p) = LevelOf(This(s))
  BY <1>1, TopRow
<1>7. Waits(This(s)) = FALSE
  BY <1>5 DEF Waits
<1>8. LevelOf(This(s)).waits = Waits(This(s))
  BY DEF LevelOf, Level
<1> QED
  BY <1>2, <1>6, <1>7, <1>8

(* The calls that statements leave waiting. *)
LEMMA PartCalls ==
  /\ Expression \in CallType
  /\ \A type \in {"SEMICOLON", "LEFT_PAREN", "RIGHT_PAREN"} : Expect(type) \in CallType
  /\ \A op \in {"OP_POP", "OP_PRINT", "OP_RETURN"} : Emitting(<<op>>) \in CallType
  /\ \A jump \in Nat : Patching(jump) \in CallType
<1>1. \A op \in {"OP_POP", "OP_PRINT", "OP_RETURN"} : <<op>> \in Seq(OpCode)
  BY OpcodeNames, PairFacts
<1> QED
  BY <1>1, ExpressionCallFacts, CallKinds

(* The value of an expression is used, and nothing is left. *)
LEMMA ValueUsed ==
  ASSUME NEW r, NEW q, Moves(r, q), r.temps = 0, q.temps = 0,
         NEW op, op \in {"OP_POP", "OP_PRINT", "OP_RETURN"}, op = "OP_RETURN" => Top(r).fun # 1,
         NEW m, m = With(r, r.open, r.marks, 1), NEW fs
  PROVE  /\ Goes(fs, r, Expression, m)
         /\ Goes(fs, m, Expect("SEMICOLON"), m)
         /\ Goes(fs, m, Emitting(<<op>>), q)
<1>1. Moves(r, m) /\ Moves(m, m) /\ Moves(m, q) /\ m.temps = 1 /\ Top(m) = Top(r)
  BY MovesThrough
<1>2. Goes(fs, r, Expression, m)
  BY <1>1, GoesParsing, CallNames
<1>3. Goes(fs, m, Expect("SEMICOLON"), m)
  BY <1>1, GoesReading, CallNames
<1>4. Emits(fs, m, <<Code[op]>>, q)
  BY <1>1 DEF Emits
<1>5. Emitting(<<op>>).do = "emit" /\ Emitting(<<op>>).bytes = <<Code[op]>>
  BY CallNames, EmittingOne
<1>6. Goes(fs, m, Emitting(<<op>>), q)
  BY <1>1, <1>4, <1>5, GoesEmitting
<1> QED
  BY <1>2, <1>3, <1>6

(* A statement uses the value of an expression. *)
LEMMA UseGoal ==
  ASSUME NEW s, Base(s), NEW p, Typed(s, p), NEW q, Fits(s.functions, q, s.work),
         NEW t, NEW r, Turns(s, p, t, r), Moves(r, q), r.temps = 0, q.temps = 0,
         NEW op, op \in {"OP_POP", "OP_PRINT", "OP_RETURN"}, op = "OP_RETURN" => Top(r).fun # 1
  PROVE  Goal(Then(t, <<Expression, Expect("SEMICOLON"), Emitting(<<op>>)>>))
<1> DEFINE m == With(r, r.open, r.marks, 1)
           a == Expression
           b == Expect("SEMICOLON")
           d == Emitting(<<op>>)
<1>1. a \in CallType /\ b \in CallType /\ d \in CallType
  BY PartCalls
<1>2. Goes(t.functions, r, a, m) /\ Goes(t.functions, m, b, m) /\ Goes(t.functions, m, d, q)
  BY ValueUsed
<1> HIDE DEF m, a, b, d
<1>3. Goal(Then(t, <<a, b, d>>))
  BY <1>1, <1>2, Hands3
<1> QED
  BY <1>3 DEF a, b, d

(* `expression_statement' *)
LEMMA ExpressionStatementGoal ==
  ASSUME NEW s, NEW c, NEW p, NEW q, Stands(s, c, p, q), c.do = "expression_statement"
  PROVE  Goal(RunExpressionStatement(s, c))
<1>1. Base(s) /\ Typed(s, p) /\ Goes(s.functions, p, c, q) /\ Fits(s.functions, q, s.work)
  BY StandsFacts
<1>2. Moves(p, q) /\ p.temps = 0 /\ q.temps = 0
  BY <1>1, GoesSteady DEF SteadyStatement
<1>3. Turns(s, p, s, Kept(p)) /\ Moves(Kept(p), q) /\ Kept(p).temps = 0
  BY <1>1, <1>2, KeptTurns, MovesThrough DEF Kept
<1> QED
  BY <1>1, <1>2, <1>3, UseGoal DEF RunExpressionStatement

(* Where a declaration may be made, many may. *)
LEMMA DeclaringStays ==
  ASSUME NEW p, NEW q, Moves(p, q), Clear(p, p.open), Clear(p, q.marks)
  PROVE  Moves(Kept(p), q) /\ Moves(q, q) /\ Clear(Kept(p), Kept(p).open)
         /\ Clear(Kept(p), q.marks) /\ Clear(q, q.open) /\ Clear(q, q.marks) /\ Kept(p).temps = p.temps
BY DEF Moves, Clear, Here, Top, Kept, With, Plan

(* `function_body' *)
LEMMA FunctionBodyGoal ==
  ASSUME TokensOk, NEW s, NEW c, NEW p, NEW q, Stands(s, c, p, q), c.do = "function_body"
  PROVE  Goal(RunFunctionBody(s, c))
<1>1. Base(s) /\ Typed(s, p) /\ Goes(s.functions, p, c, q) /\ Fits(s.functions, q, s.work) /\ InText(s)
  BY StandsFacts
<1>2. Moves(p, q) /\ p.temps = 0 /\ q.temps = 0 /\ Clear(p, p.open) /\ Clear(p, q.marks)
  BY <1>1, GoesDeclaring DEF Declaring
<1> DEFINE t == Consume(s, "RIGHT_PAREN")
           u == Consume(t, "LEFT_BRACE")
           b == Call("block")
<1>3. Loose(p, Kept(p)) /\ Loose(Kept(p), Kept(p))
  BY DEF Loose, Kept, With, Plan
<1>4. Turns(s, p, t, Kept(p)) /\ Base(t) /\ InText(t)
  BY <1>1, <1>3, ConsumeTurns
<1> HIDE DEF t
<1>5. Turns(t, Kept(p), u, Kept(p))
  BY <1>3, <1>4, ConsumeTurns
<1>6. Turns(s, p, u, Kept(p))
  BY <1>1, <1>4, <1>5, TurnsTransitive
<1>7. b \in CallType /\ b.do = "block"
  BY StatementCallFacts, CallKinds, CallNames
<1> HIDE DEF u, b
<1>8. Goes(u.functions, Kept(p), b, q)
  BY <1>2, <1>7, DeclaringStays, GoesDeclaring DEF Declaring
<1>9. Goal(Then(u, <<b>>))
  BY <1>1, <1>6, <1>7, <1>8, Hands1
<1> QED
  BY <1>9 DEF RunFunctionBody, t, u, b

(* A declaration is one of the block's, and what follows it. *)
LEMMA DeclaredThen ==
  ASSUME NEW s, Base(s), NEW p, Typed(s, p), NEW q, Fits(s.functions, q, s.work),
         NEW t, NEW r, Turns(s, p, t, r), Moves(r, q), r.temps = 0, q.temps = 0,
         Clear(r, r.open), Clear(r, q.marks), Clear(q, q.open), Clear(q, q.marks), Moves(q, q),
         NEW a, a \in CallType, NEW b, b \in CallType,
         a.do \in {"declaration", "var_declaration", "function_declaration", "statement"}, b.do \in {"block", "synchronize"}
  PROVE  Goal(Then(t, <<a, b>>))
<1>1. Goes(t.functions, r, a, q)
  <2>1. CASE a.do = "statement"
    BY <2>1, GoesSteady DEF SteadyStatement
  <2>2. CASE a.do # "statement"
    BY <2>2, GoesDeclaring DEF Declaring
  <2> QED
    BY <2>1, <2>2
<1>2. Goes(t.functions, q, b, q)
  <2>1. CASE b.do = "block"
    BY <2>1, GoesDeclaring DEF Declaring
  <2>2. CASE b.do = "synchronize"
    BY <2>2, GoesReading
  <2> QED
    BY <2>1, <2>2
<1> QED
  BY <1>1, <1>2, Hands2

(* `block' *)
LEMMA BlockGoal ==
  ASSUME TokensOk, NEW s, NEW c, NEW p, NEW q, Stands(s, c, p, q), c.do = "block"
  PROVE  Goal(RunBlock(s, c))
<1>1. Base(s) /\ Typed(s, p) /\ Goes(s.functions, p, c, q) /\ Fits(s.functions, q, s.work) /\ InText(s)
  BY StandsFacts
<1>2. Moves(p, q) /\ p.temps = 0 /\ q.temps = 0 /\ Clear(p, p.open) /\ Clear(p, q.marks)
  BY <1>1, GoesDeclaring DEF Declaring
<1>3. CASE Current(s).type \in {"RIGHT_BRACE", "LOX_EOF"}
  <2>1. Loose(p, Kept(p)) /\ Loose(Kept(p), q)
    BY <1>2, LooseKept DEF Loose, Kept, With, Plan
  <2>2. Turns(s, p, Consume(s, "RIGHT_BRACE"), Kept(p))
    BY <1>1, <2>1, ConsumeTurns
  <2>3. Goal(Consume(s, "RIGHT_BRACE"))
    BY <1>1, <2>1, <2>2, Hands0
  <2> QED
    BY <1>3, <2>3 DEF RunBlock
<1>4. CASE Current(s).type \notin {"RIGHT_BRACE", "LOX_EOF"}
  <2> DEFINE a == Call("declaration")
             b == Call("block")
  <2>1. a \in CallType /\ b \in CallType /\ a.do = "declaration" /\ b.do = "block"
    BY StatementCallFacts, CallKinds, CallNames
  <2>2. RunBlock(s, c) = Then(s, <<a, b>>)
    BY <1>4 DEF RunBlock
  <2> HIDE DEF a, b
  <2>3. Turns(s, p, s, Kept(p))
    BY <1>1, KeptTurns
  <2>4. Goal(Then(s, <<a, b>>))
    BY <1>1, <1>2, <2>1, <2>3, DeclaringStays, DeclaredThen
  <2> QED
    BY <2>2, <2>4
<1> QED
  BY <1>3, <1>4

(* `declaration' *)
LEMMA DeclarationGoal ==
  ASSUME TokensOk, NEW s, NEW c, NEW p, NEW q, Stands(s, c, p, q), c.do = "declaration"
  PROVE  Goal(RunDeclaration(s, c))
<1>1. Base(s) /\ Typed(s, p) /\ Goes(s.functions, p, c, q) /\ Fits(s.functions, q, s.work) /\ InText(s)
  BY StandsFacts
<1>2. Moves(p, q) /\ p.temps = 0 /\ q.temps = 0 /\ Clear(p, p.open) /\ Clear(p, q.marks)
  BY <1>1, GoesDeclaring DEF Declaring
<1>3. /\ Moves(Kept(p), q) /\ Moves(q, q) /\ Clear(Kept(p), Kept(p).open)
      /\ Clear(Kept(p), q.marks) /\ Clear(q, q.open) /\ Clear(q, q.marks) /\ Kept(p).temps = 0
  BY <1>2, DeclaringStays
<1> DEFINE var == Call("var_declaration")
           fun == Call("function_declaration")
           stm == Call("statement")
           sync == [do |-> "synchronize", from |-> This(s).current]
<1>4. /\ var \in CallType /\ var.do = "var_declaration" /\ stm \in CallType /\ stm.do = "statement"
      /\ fun \in CallType /\ fun.do = "function_declaration"
  BY StatementCallFacts, CallKinds, CallNames DEF CallType
<1>5. sync \in CallType /\ sync.do = "synchronize"
  <2>1. This(s).current \in Nat
    BY <1>1 DEF InText
  <2> QED
    BY <2>1, StatementCallFacts, CallKinds
<1>6. RunDeclaration(s, c) = IF Check(s, "VAR") THEN Then(Advance(s), <<var, sync>>)
                             ELSE IF Check(s, "FUN") THEN Then(Advance(s), <<fun, sync>>)
                             ELSE Then(s, <<stm, sync>>)
  BY DEF RunDeclaration, Check
<1> HIDE DEF var, fun, stm, sync
<1>7. Loose(p, Kept(p))
  BY DEF Loose, Kept, With, Plan
<1>8. ~Check(s, "LOX_EOF") => Turns(s, p, Advance(s), Kept(p))
  BY <1>1, <1>7, AdvanceTurns
<1>9. CASE Check(s, "VAR")
  <2>1. ~Check(s, "LOX_EOF")
    BY <1>9 DEF Check
  <2>2. Goal(Then(Advance(s), <<var, sync>>))
    BY <1>1, <1>2, <1>3, <1>4, <1>5, <1>8, <2>1, DeclaredThen
  <2> QED
    BY <1>6, <1>9, <2>2
<1>10. CASE ~Check(s, "VAR") /\ Check(s, "FUN")
  <2>1. ~Check(s, "LOX_EOF")
    BY <1>10 DEF Check
  <2>2. Goal(Then(Advance(s), <<fun, sync>>))
    BY <1>1, <1>2, <1>3, <1>4, <1>5, <1>8, <2>1, DeclaredThen
  <2> QED
    BY <1>6, <1>10, <2>2
<1>11. CASE ~Check(s, "VAR") /\ ~Check(s, "FUN")
  <2>1. Turns(s, p, s, Kept(p))
    BY <1>1, KeptTurns
  <2>2. Goal(Then(s, <<stm, sync>>))
    BY <1>1, <1>2, <1>3, <1>4, <1>5, <2>1, DeclaredThen
  <2> QED
    BY <1>6, <1>11, <2>2
<1> QED
  BY <1>9, <1>10, <1>11

(* `if_then' *)
LEMMA IfThenGoal ==
  ASSUME NEW s, NEW c, NEW p, NEW q, Stands(s, c, p, q), c.do = "if_then"
  PROVE  Goal(RunIfThen(s, c))
<1>1. Base(s) /\ Typed(s, p) /\ Goes(s.functions, p, c, q) /\ Fits(s.functions, q, s.work)
  BY StandsFacts
<1>2. Moves(p, q) /\ p.temps = 1 /\ q.temps = 0
  BY <1>1, GoesIfThen
<1> DEFINE e == Entry(s, CodeSize(s), p.temps)
           t == Emit(EmitJump(s, "OP_JUMP_IF_FALSE"), "OP_POP")
           r == With(p, p.open \cup {e}, p.marks, p.temps - 1)
           a == Call("statement")
           b == [do |-> "if_else", jump |-> JumpAddress(s)]
<1>3. Turns(s, p, t, r)
  BY <1>1, <1>2, ConditionTurns
<1>4. r.levels = p.levels /\ r.open = p.open \cup {e} /\ r.marks = p.marks /\ r.temps = 0 /\ Moves(r, r)
  BY <1>2 DEF Moves, With, Plan
<1>5. Leaves(r, r.open, 1, JumpAddress(s), p.open)
  BY <1>1, <1>2, <1>4, JumpLeaves
<1>6. a \in CallType /\ b \in CallType /\ a.do = "statement" /\ b.do = "if_else" /\ b.jump = JumpAddress(s)
  BY <1>1, CodeSizeFacts, StatementCallFacts, CallKinds, CallNames
<1>7. RunIfThen(s, c) = Then(t, <<a, b>>)
  BY DEF RunIfThen
<1> HIDE DEF e, t, r, a, b
<1>8. Goes(t.functions, r, a, r)
  BY <1>4, <1>6, GoesSteady DEF SteadyStatement
<1>9. Goes(t.functions, r, b, q)
  <2>1. q.levels = r.levels /\ q.open = p.open /\ q.marks \subseteq r.marks /\ q.fresh = FALSE
    BY <1>2, <1>4 DEF Moves
  <2> QED
    BY <1>2, <1>4, <1>5, <1>6, <2>1, GoesIfElse
<1> QED
  BY <1>1, <1>3, <1>6, <1>7, <1>8, <1>9, Hands2

(* The jump over the other branch comes before the place that the first one leads to. *)
LEMMA ElseTurns ==
  ASSUME NEW s, Base(s), NEW p, Typed(s, p), p.temps = 0, NEW jump, jump \in Nat,
         NEW open, Leaves(p, p.open, 1, jump, open), NEW e, e = Entry(s, CodeSize(s), 0)
  PROVE  /\ Turns(s, p, Emit(PatchJump(EmitJump(s, "OP_JUMP"), jump), "OP_POP"),
                  With(p, open \cup {e}, p.marks, 0))
         /\ \A m : m.levels = p.levels => Leaves(m, open \cup {e}, 0, JumpAddress(s), open)
<1> DEFINE t == EmitJump(s, "OP_JUMP")
           u == PatchJump(t, jump)
           r1 == With(p, p.open \cup {e}, p.marks, 1)
           r2 == With(p, open \cup {e}, p.marks, 1)
<1>1. Turns(s, p, t, r1)
  BY JumpTurns
<1>2. e \notin p.open /\ Here(p, e) /\ e.temps = 0 /\ AsUint16(e.at) = JumpAddress(s)
  BY JumpIsNew
<1>3. r1.levels = p.levels /\ r1.open = p.open \cup {e} /\ r1.marks = p.marks /\ r1.temps = 1
      /\ r2.open = open \cup {e} /\ r2.marks = p.marks /\ r2.temps = 1
      /\ With(r1, open \cup {e}, r1.marks, r1.temps) = r2
      /\ With(r2, r2.open, r2.marks, 0) = With(p, open \cup {e}, p.marks, 0)
  BY DEF With, Plan
<1>4. PICK d \in p.open : Here(p, d) /\ d.temps = 1 /\ AsUint16(d.at) = jump /\ open = p.open \ {d}
  BY DEF Leaves
<1> HIDE DEF r1, r2
<1>5. Leaves(r1, r1.open, r1.temps, jump, open \cup {e})
  <2>1. Here(r1, d)
    BY <1>3, <1>4 DEF Here, Top
  <2>2. open \cup {e} = r1.open \ {d} /\ d \in r1.open
    BY <1>2, <1>3, <1>4
  <2> QED
    BY <1>3, <1>4, <2>1, <2>2 DEF Leaves
<1>6. Base(t)
  BY <1>1 DEF Turns
<1> HIDE DEF t
<1>7. Turns(t, r1, u, r2)
  BY <1>3, <1>5, <1>6, PatchTurns
<1>8. Turns(s, p, u, r2) /\ Base(u)
  BY <1>1, <1>7, TurnsTransitive DEF Turns
<1> HIDE DEF u
<1>9. Turns(u, r2, Emit(u, "OP_POP"), With(r2, r2.open, r2.marks, 0))
  BY <1>3, <1>8, PopOneTurns
<1>10. Turns(s, p, Emit(u, "OP_POP"), With(p, open \cup {e}, p.marks, 0))
  BY <1>3, <1>8, <1>9, TurnsTransitive
<1>11. ASSUME NEW m, m.levels = p.levels
       PROVE  Leaves(m, open \cup {e}, 0, JumpAddress(s), open)
  <2>1. Here(m, e)
    BY <1>2, <1>11 DEF Here, Top
  <2>2. open = (open \cup {e}) \ {e}
    BY <1>2, <1>4
  <2> QED
    BY <1>2, <2>1, <2>2 DEF Leaves
<1> QED
  BY <1>10, <1>11 DEF t, u

(* `if_else' *)
LEMMA IfElseGoal ==
  ASSUME TokensOk, NEW s, NEW c, NEW p, NEW q, Stands(s, c, p, q), c.do = "if_else"
  PROVE  Goal(RunIfElse(s, c))
<1>1. Base(s) /\ Typed(s, p) /\ Goes(s.functions, p, c, q) /\ Fits(s.functions, q, s.work) /\ InText(s)
      /\ c \in CallType
  BY StandsFacts
<1>2. /\ q.levels = p.levels /\ q.marks \subseteq p.marks /\ q.fresh = FALSE
      /\ p.temps = 0 /\ q.temps = 0 /\ Leaves(p, p.open, 1, c.jump, q.open)
  BY <1>1, GoesIfElse
<1>3. c.jump \in Nat
  BY <1>1, ShapeFacts
<1> DEFINE e == Entry(s, CodeSize(s), 0)
           t == Emit(PatchJump(EmitJump(s, "OP_JUMP"), c.jump), "OP_POP")
           r == With(p, q.open \cup {e}, p.marks, 0)
           a == Call("statement")
           b == Patching(JumpAddress(s))
<1>4. /\ Turns(s, p, t, r)
      /\ \A m : m.levels = p.levels => Leaves(m, q.open \cup {e}, 0, JumpAddress(s), q.open)
  BY <1>1, <1>2, <1>3, ElseTurns
<1>5. r.levels = p.levels /\ r.open = q.open \cup {e} /\ r.marks = p.marks /\ r.temps = 0 /\ Moves(r, r)
      /\ Loose(r, r)
  BY DEF Moves, Loose, With, Plan
<1>6. a \in CallType /\ b \in CallType /\ a.do = "statement" /\ b.do = "patch_jump" /\ b.jump = JumpAddress(s)
  BY <1>1, CodeSizeFacts, PartCalls, StatementCallFacts, CallKinds, CallNames
<1>7. RunIfElse(s, c) = IF Check(t, "ELSE") THEN Then(Advance(t), <<a, b>>) ELSE Then(t, <<b>>)
  BY DEF RunIfElse
<1> HIDE DEF e, t, r, a, b
<1>8. \A fs : Goes(fs, r, a, r)
  BY <1>5, <1>6, GoesSteady DEF SteadyStatement
<1>9. \A fs : Goes(fs, r, b, q)
  <2>1. Leaves(r, r.open, r.temps, b.jump, q.open)
    BY <1>4, <1>5, <1>6
  <2>2. q.levels = r.levels /\ q.marks \subseteq r.marks /\ q.temps = r.temps
    BY <1>2, <1>5
  <2> QED
    BY <1>2, <1>6, <2>1, <2>2, GoesPatching
<1>10. Base(t) /\ InText(t)
  BY <1>1, <1>4 DEF Turns
<1>11. CASE Check(t, "ELSE")
  <2>1. ~Check(t, "LOX_EOF")
    BY <1>11 DEF Check
  <2>2. Turns(t, r, Advance(t), r)
    BY <1>5, <1>10, <2>1, AdvanceTurns
  <2>3. Turns(s, p, Advance(t), r)
    BY <1>1, <1>4, <2>2, TurnsTransitive
  <2>4. Goal(Then(Advance(t), <<a, b>>))
    BY <1>1, <1>6, <1>8, <1>9, <2>3, Hands2
  <2> QED
    BY <1>7, <1>11, <2>4
<1>12. CASE ~Check(t, "ELSE")
  <2>1. Goal(Then(t, <<b>>))
    BY <1>1, <1>4, <1>6, <1>9, Hands1
  <2> QED
    BY <1>7, <1>12, <2>1
<1> QED
  BY <1>11, <1>12

(* `while_body' *)
LEMMA WhileBodyGoal ==
  ASSUME NEW s, NEW c, NEW p, NEW q, Stands(s, c, p, q), c.do = "while_body"
  PROVE  Goal(RunWhileBody(s, c))
<1>1. Base(s) /\ Typed(s, p) /\ Goes(s.functions, p, c, q) /\ Fits(s.functions, q, s.work) /\ c \in CallType
  BY StandsFacts
<1>2. Moves(p, q) /\ p.temps = 1 /\ q.temps = 0 /\ LoopsTo(p, c.start)
  BY <1>1, GoesWhileBody
<1> DEFINE e == Entry(s, CodeSize(s), p.temps)
           t == Emit(EmitJump(s, "OP_JUMP_IF_FALSE"), "OP_POP")
           r == With(p, p.open \cup {e}, p.marks, p.temps - 1)
           a == Call("statement")
           b == [do |-> "end_loop", start |-> c.start, exit |-> <<JumpAddress(s)>>]
<1>3. Turns(s, p, t, r)
  BY <1>1, <1>2, ConditionTurns
<1>4. r.levels = p.levels /\ r.open = p.open \cup {e} /\ r.marks = p.marks /\ r.temps = 0 /\ Moves(r, r)
  BY <1>2 DEF Moves, With, Plan
<1>5. Leaves(r, r.open, 1, JumpAddress(s), p.open)
  BY <1>1, <1>2, <1>4, JumpLeaves
<1>6. a \in CallType /\ b \in CallType /\ a.do = "statement" /\ b.do = "end_loop"
      /\ b.start = c.start /\ b.exit # <<>> /\ b.exit[1] = JumpAddress(s)
  <2>1. c.start \in Nat /\ JumpAddress(s) \in Nat
    BY <1>1, ShapeFacts, CodeSizeFacts
  <2>2. <<JumpAddress(s)>> \in Exits
    BY <2>1, ExitFacts
  <2> QED
    BY <2>1, <2>2, StatementCallFacts, CallKinds, CallNames
<1>7. RunWhileBody(s, c) = Then(t, <<a, b>>)
  BY DEF RunWhileBody
<1> HIDE DEF e, t, r, a, b
<1>8. Goes(t.functions, r, a, r)
  BY <1>4, <1>6, GoesSteady DEF SteadyStatement
<1>9. Goes(t.functions, r, b, q)
  <2>1. q.levels = r.levels /\ q.open = p.open /\ q.marks \subseteq r.marks /\ q.fresh = FALSE
    BY <1>2, <1>4 DEF Moves
  <2>2. LoopsTo(r, b.start)
    BY <1>2, <1>4, <1>6 DEF LoopsTo, Here, Top
  <2>3. LeavesBy(r, r.open, b.exit, q.open)
    BY <1>5, <1>6, <2>1 DEF LeavesBy
  <2> QED
    BY <1>2, <1>4, <1>6, <2>1, <2>2, <2>3, GoesEndLoop
<1> QED
  BY <1>1, <1>3, <1>6, <1>7, <1>8, <1>9, Hands2

(* A loop jumps back, and the jump out of it leads behind that. *)
LEMMA ExitTurns ==
  ASSUME NEW s, Base(s), NEW p, Typed(s, p), p.temps = 0, NEW start, start \in Nat, LoopsTo(p, start),
         NEW jump, jump \in Nat, NEW open, Leaves(p, p.open, 1, jump, open)
  PROVE  Turns(s, p, Emit(PatchJump(EmitLoop(s, start), jump), "OP_POP"), With(p, open, p.marks, 0))
<1> DEFINE t == EmitLoop(s, start)
           u == PatchJump(t, jump)
           r1 == With(p, p.open, p.marks, 1)
           r2 == With(p, open, p.marks, 1)
<1>1. Turns(s, p, t, r1)
  BY LoopTurns
<1>2. r1.levels = p.levels /\ r1.open = p.open /\ r1.marks = p.marks /\ r1.temps = 1
      /\ r2.open = open /\ r2.marks = p.marks /\ r2.temps = 1
      /\ With(r1, open, r1.marks, r1.temps) = r2
      /\ With(r2, r2.open, r2.marks, 0) = With(p, open, p.marks, 0)
  BY DEF With, Plan
<1> HIDE DEF r1, r2
<1>3. Leaves(r1, r1.open, r1.temps, jump, open)
  BY <1>2 DEF Leaves, Here, Top
<1>4. Base(t)
  BY <1>1 DEF Turns
<1> HIDE DEF t
<1>5. Turns(t, r1, u, r2)
  BY <1>2, <1>3, <1>4, PatchTurns
<1>6. Turns(s, p, u, r2) /\ Base(u)
  BY <1>1, <1>5, TurnsTransitive DEF Turns
<1> HIDE DEF u
<1>7. Turns(u, r2, Emit(u, "OP_POP"), With(r2, r2.open, r2.marks, 0))
  BY <1>2, <1>6, PopOneTurns
<1>8. Turns(s, p, Emit(u, "OP_POP"), With(p, open, p.marks, 0))
  BY <1>2, <1>6, <1>7, TurnsTransitive
<1> QED
  BY <1>8 DEF t, u

(* `end_loop' *)
LEMMA EndLoopGoal ==
  ASSUME NEW s, NEW c, NEW p, NEW q, Stands(s, c, p, q), c.do = "end_loop"
  PROVE  Goal(RunEndLoop(s, c))
<1>1. Base(s) /\ Typed(s, p) /\ Goes(s.functions, p, c, q) /\ Fits(s.functions, q, s.work) /\ c \in CallType
  BY StandsFacts
<1>2. /\ q.levels = p.levels /\ q.marks \subseteq p.marks /\ q.fresh = FALSE
      /\ p.temps = 0 /\ q.temps = 0
      /\ LoopsTo(p, c.start) /\ LeavesBy(p, p.open, c.exit, q.open)
  BY <1>1, GoesEndLoop
<1>3. c.start \in Nat /\ (c.exit = <<>> \/ c.exit[1] \in Nat)
  BY <1>1, ShapeFacts, ExitFacts
<1> DEFINE r == With(p, q.open, p.marks, 0)
<1>4. Loose(r, q)
  BY <1>2 DEF Loose, With, Plan
<1>5. CASE c.exit = <<>>
  <2>1. q.open = p.open
    BY <1>2, <1>5 DEF LeavesBy
  <2>2. Turns(s, p, EmitLoop(s, c.start), r)
    BY <1>1, <1>2, <1>3, <2>1, LoopTurns
  <2>3. Goal(EmitLoop(s, c.start))
    BY <1>1, <1>4, <2>2, Hands0
  <2> QED
    BY <1>5, <2>3 DEF RunEndLoop
<1>6. CASE c.exit # <<>>
  <2> DEFINE t == Emit(PatchJump(EmitLoop(s, c.start), c.exit[1]), "OP_POP")
  <2>1. Leaves(p, p.open, 1, c.exit[1], q.open)
    BY <1>2, <1>6 DEF LeavesBy
  <2>2. Turns(s, p, t, r)
    BY <1>1, <1>2, <1>3, <1>6, <2>1, ExitTurns
  <2>3. RunEndLoop(s, c) = t
    BY <1>6 DEF RunEndLoop
  <2> HIDE DEF t, r
  <2>4. Goal(t)
    BY <1>1, <1>4, <2>2, Hands0
  <2> QED
    BY <2>3, <2>4
<1> QED
  BY <1>5, <1>6

-----------------------------------------------------------------------------
(* Scopes are entered. *)

(* Only the innermost compiler changes, and no function. *)
Scopes(s, t) ==
  /\ Base(s) /\ Base(t) /\ t.functions = s.functions /\ Len(t.compilers) = Len(s.compilers)
  /\ \A j \in DOMAIN s.compilers \ {Me(s)} : Same(s.compilers[j], t.compilers[j])
  /\ This(t).function = This(s).function /\ This(t).upvalues = This(s).upvalues

(* Where only the scope of the innermost compiler changes, its row is all that has to be shown. *)
LEMMA ScopeTyping ==
  ASSUME NEW s, NEW t, Scopes(s, t), NEW p, Typed(s, p), NEW q,
         q.levels = [p.levels EXCEPT ![Len(p.levels)] = LevelOf(This(t))],
         q.open = p.open, q.marks \subseteq p.marks, q.temps \in Nat, q.fresh => p.fresh,
         Row(s.functions, This(t), TRUE, q.temps, q.open, q.marks)
  PROVE  Typed(t, q) /\ More(s.functions, t.functions)
<1>1. Base(s) /\ Base(t) /\ t.functions = s.functions /\ Me(t) = Me(s)
      /\ This(t).function = This(s).function /\ This(t).upvalues = This(s).upvalues
  BY DEF Scopes, Me
<1>2. /\ DOMAIN s.compilers = 1 .. Me(s) /\ Me(s) = Len(s.compilers) /\ Me(s) \in Nat \ {0}
      /\ This(s) = s.compilers[Me(s)] /\ Function(s) = s.functions[This(s).function]
      /\ This(s).function \in DOMAIN s.functions
  BY <1>1, BaseChain
<1>3. /\ DOMAIN t.compilers = 1 .. Me(s)
      /\ This(t) = t.compilers[Me(s)] /\ Function(t) = t.functions[This(s).function]
  BY <1>1, BaseChain
<1>4. /\ PlanOk(s.functions, s.compilers, p) /\ Len(p.levels) = Me(s)
      /\ Outside(Function(s), Chain(s.compilers))
  BY <1>1, <1>2, TopRow
<1>5. AtTop(s, t)
  <2>1. Function(t) = Function(s)
    BY <1>1, <1>2, <1>3
  <2>2. Extends(Function(s), Function(t))
    <3>1. IsProgram(s.functions)
      BY <1>1, BaseProgram
    <3>2. Extends(s.functions[This(s).function], s.functions[This(s).function])
      BY <1>2, <3>1, ExtendsReflexive
    <3> QED
      BY <1>2, <2>1, <3>2
  <2>3. \A j \in DOMAIN s.compilers : t.compilers[j].function = s.compilers[j].function
    <3> SUFFICES ASSUME NEW j \in DOMAIN s.compilers PROVE t.compilers[j].function = s.compilers[j].function
      OBVIOUS
    <3>1. CASE j = Me(s)
      BY <1>1, <1>2, <1>3, <3>1
    <3>2. CASE j # Me(s)
      BY <3>2 DEF Scopes, Same
    <3> QED
      BY <3>1, <3>2
  <2>4. \A j \in DOMAIN s.compilers \ {Me(s)} : Same(s.compilers[j], t.compilers[j])
    BY DEF Scopes
  <2> QED
    BY <1>1, <2>1, <2>2, <2>3, <2>4 DEF AtTop
<1>6. PlanOk(t.functions, t.compilers, q)
  <2>1. q.levels = Levels(t.compilers)
    <3>1. p.levels = Levels(s.compilers)
      BY <1>4 DEF PlanOk
    <3>2. \A j \in 1 .. Me(s) : q.levels[j] = LevelOf(t.compilers[j])
      <4> SUFFICES ASSUME NEW j \in 1 .. Me(s) PROVE q.levels[j] = LevelOf(t.compilers[j])
        OBVIOUS
      <4>1. CASE j = Me(s)
        BY <1>2, <1>3, <1>4, <3>1, <4>1 DEF Levels
      <4>2. CASE j # Me(s)
        <5>1. Same(s.compilers[j], t.compilers[j])
          BY <1>2, <4>2 DEF Scopes
        <5>2. LevelOf(t.compilers[j]) = LevelOf(s.compilers[j])
          BY <5>1 DEF Same, LevelOf, Waits
        <5> QED
          BY <1>2, <1>4, <3>1, <4>2, <5>2 DEF Levels
      <4> QED
        BY <4>1, <4>2
    <3>3. q.levels = [j \in 1 .. Me(s) |-> q.levels[j]]
      BY <1>2, <3>1 DEF Levels
    <3>4. [j \in 1 .. Me(s) |-> q.levels[j]] = [j \in 1 .. Me(s) |-> LevelOf(t.compilers[j])]
      BY <3>2
    <3> QED
      BY <1>3, <3>3, <3>4 DEF Levels
  <2>2. q.open \subseteq EntryType /\ q.marks \subseteq EntryType /\ \A e \in q.open \cup q.marks : e.fun \in DOMAIN t.functions
    BY <1>1, <1>4 DEF PlanOk
  <2>3. q.fresh => t.functions[t.compilers[Len(t.compilers)].function].code = <<>>
    <3>1. p.fresh => s.functions[This(s).function].code = <<>>
      BY <1>2, <1>4 DEF PlanOk
    <3>2. Len(t.compilers) = Me(s)
      BY <1>1 DEF Me
    <3> QED
      BY <1>1, <1>3, <3>1, <3>2
  <2> QED
    BY <1>4, <2>1, <2>2, <2>3 DEF PlanOk
<1>7. \A f : f # This(s).function => Agree(f, p, q)
  BY DEF Agree
<1>8. Function(t) = Function(s)
  BY <1>1, <1>2, <1>3
<1>9. Row(t.functions, This(t), TRUE, q.temps, q.open, q.marks)
  BY <1>1
<1>10. Outside(Function(t), Chain(s.compilers))
  BY <1>4, <1>8
<1> QED
  BY <1>1, <1>5, <1>6, <1>7, <1>8, <1>9, <1>10, TopTyping

(* A scope more is open. *)
Deeper(p) ==
  Plan([p.levels EXCEPT ![Len(p.levels)] = Level(Top(p).fun, Top(p).depth + 1, FALSE)],
       p.open, p.marks, p.temps, FALSE)

(* The new scope is empty: no jump waits in it, and it has no address. *)
LEMMA DeeperFacts ==
  ASSUME NEW s, Base(s), NEW p, Typed(s, p), Top(p).waits = FALSE
  PROVE  /\ Deeper(p).open = p.open /\ Deeper(p).marks = p.marks /\ Deeper(p).temps = p.temps
         /\ Deeper(p).fresh = FALSE
         /\ Top(Deeper(p)) = Level(Top(p).fun, Top(p).depth + 1, FALSE)
         /\ Top(Deeper(p)).depth >= 1
         /\ Clear(Deeper(p), p.open) /\ Clear(Deeper(p), p.marks)
         /\ p.levels = [Deeper(p).levels EXCEPT ![Len(Deeper(p).levels)]
                         = Level(Top(Deeper(p)).fun, Top(Deeper(p)).depth - 1, FALSE)]
<1> DEFINE n == Len(p.levels)
           r == Deeper(p)
<1>1. /\ n = Me(s) /\ Me(s) \in Nat \ {0} /\ DOMAIN s.compilers = 1 .. Me(s)
      /\ Top(p) = LevelOf(This(s)) /\ p.levels = Levels(s.compilers)
      /\ Row(s.functions, This(s), TRUE, p.temps, p.open, p.marks)
      /\ This(s).scope_depth \in Nat
  BY TopRow, BaseChain, OwnFacts DEF PlanOk
<1>2. p.levels = [k \in 1 .. n |-> p.levels[k]]
  BY <1>1 DEF Levels
<1>3. r.levels = [p.levels EXCEPT ![n] = Level(Top(p).fun, Top(p).depth + 1, FALSE)]
      /\ r.open = p.open /\ r.marks = p.marks /\ r.temps = p.temps /\ r.fresh = FALSE
  BY DEF Deeper, Plan
<1>4. Top(p).depth = This(s).scope_depth /\ Top(p).fun = This(s).function
  BY <1>1 DEF LevelOf, Level
<1> HIDE DEF r, n
<1>5. Len(r.levels) = n
  <2>1. n \in Nat /\ n \in 1 .. n
    BY <1>1
  <2>2. IsSeq(p.levels) /\ Len(p.levels) = n
    BY <1>2, <2>1, FunctionIsSeq
  <2> QED
    BY <1>3, <2>1, <2>2, ExceptFacts
<1>6. Top(r) = Level(Top(p).fun, Top(p).depth + 1, FALSE)
  <2>1. n \in 1 .. n
    BY <1>1
  <2>2. r.levels[n] = Level(Top(p).fun, Top(p).depth + 1, FALSE)
    BY <1>2, <1>3, <2>1
  <2> QED
    BY <1>5, <2>2 DEF Top
<1>7. Top(r).depth = Top(p).depth + 1 /\ Top(r).fun = Top(p).fun
  BY <1>6 DEF Level
<1>8. \A e \in p.open \cup p.marks : e.fun = This(s).function => e.depth <= This(s).scope_depth
  BY <1>1 DEF Row, CountedBy
<1>9. \A e \in p.open \cup p.marks : ~Here(r, e)
  <2> SUFFICES ASSUME NEW e \in p.open \cup p.marks, e.fun = This(s).function, e.depth = This(s).scope_depth + 1
               PROVE  FALSE
    BY <1>4, <1>7 DEF Here
  <2> QED
    BY <1>1, <1>8
<1>10. p.levels = [r.levels EXCEPT ![n] = Level(Top(r).fun, Top(r).depth - 1, FALSE)]
  <2>1. Level(Top(r).fun, Top(r).depth - 1, FALSE) = p.levels[n]
    <3>1. Top(r).depth - 1 = Top(p).depth
      BY <1>1, <1>4, <1>7
    <3>2. Top(p) = Level(This(s).function, This(s).scope_depth, Waits(This(s)))
      BY <1>1 DEF LevelOf
    <3>3. Top(p) = Level(Top(p).fun, Top(p).depth, Top(p).waits)
      BY <3>2 DEF Level
    <3>4. Top(p) = p.levels[n]
      BY DEF Top, n
    <3> QED
      BY <1>7, <3>1, <3>3, <3>4
  <2> QED
    BY <1>2, <1>3, <2>1
<1>11. Clear(r, p.open) /\ Clear(r, p.marks)
  BY <1>9 DEF Clear
<1>12. Top(r).depth >= 1
  BY <1>1, <1>4, <1>7
<1>13. p.levels = [r.levels EXCEPT ![Len(r.levels)] = Level(Top(r).fun, Top(r).depth - 1, FALSE)]
  BY <1>5, <1>10
<1>14. r = Deeper(p)
  BY DEF r
<1> QED
  BY <1>3, <1>6, <1>11, <1>12, <1>13, <1>14

(* begin_scope *)
LEMMA BeginTurns ==
  ASSUME NEW s, Base(s), NEW p, Typed(s, p) => Top(p).waits = FALSE
  PROVE  Turns(s, p, BeginScope(s), Deeper(p))
<1> DEFINE t == BeginScope(s)
           q == Deeper(p)
           d == This(s).scope_depth + 1
<1>1. Base(t) /\ t.work = s.work /\ t.functions = s.functions /\ Len(t.compilers) = Len(s.compilers)
      /\ (InText(s) => InText(t))
  BY BeginScopeFacts
<1>2. t.errors = s.errors
  BY DEF BeginScope
<1> SUFFICES ASSUME Typed(s, p) PROVE Typed(t, q) /\ More(s.functions, t.functions)
  BY <1>1, <1>2 DEF Turns
<1>3. /\ DOMAIN s.compilers = 1 .. Me(s) /\ Me(s) = Len(s.compilers) /\ Me(s) \in Nat \ {0}
      /\ This(s) = s.compilers[Me(s)] /\ This(s).scope_depth \in Nat
  BY BaseChain, OwnFacts
<1>4. Me(t) = Me(s) /\ This(t) = t.compilers[Me(s)]
  BY <1>1, <1>3, BaseChain
<1>5. /\ IsState(s) /\ s.compilers \in Seq(CompilerType) /\ This(s) \in CompilerType
  BY <1>3, BaseFacts DEF Base, IsState
<1>6. t.compilers = [s.compilers EXCEPT ![Me(s)] = [@ EXCEPT !.scope_depth = d]]
  BY <1>3, <1>5 DEF BeginScope, IsState
<1>7. This(t) = [This(s) EXCEPT !.scope_depth = d] /\ \A j \in 1 .. Me(s) : j # Me(s) => t.compilers[j] = s.compilers[j]
  BY <1>3, <1>4, <1>5, <1>6
<1>8. /\ This(t).scope_depth = d /\ This(t).function = This(s).function
      /\ This(t).locals = This(s).locals /\ This(t).upvalues = This(s).upvalues
  BY <1>5, <1>7 DEF CompilerType
<1>9. Scopes(s, t)
  <2>1. \A j \in DOMAIN s.compilers \ {Me(s)} : Same(s.compilers[j], t.compilers[j])
    BY <1>3, <1>7, SameReflexive
  <2> QED
    BY <1>1, <1>8, <2>1 DEF Scopes
<1>10. /\ Row(s.functions, This(s), TRUE, p.temps, p.open, p.marks) /\ p.temps \in Nat
       /\ Top(p) = LevelOf(This(s))
  BY TopRow
<1> HIDE DEF t
<1>11. LevelOf(This(t)) = Level(Top(p).fun, Top(p).depth + 1, FALSE)
  <2>1. Top(p).waits = Waits(This(s)) /\ Top(p).fun = This(s).function /\ Top(p).depth = This(s).scope_depth
    BY <1>10 DEF LevelOf, Level
  <2>2. Waits(This(t)) = FALSE
    BY <1>8, <2>1 DEF Waits
  <2> QED
    BY <1>8, <2>1, <2>2 DEF LevelOf
<1>12. /\ q.levels = [p.levels EXCEPT ![Len(p.levels)] = LevelOf(This(t))]
       /\ q.open = p.open /\ q.marks = p.marks /\ q.temps = p.temps /\ q.fresh = FALSE
  BY <1>11 DEF Deeper, Plan
<1>13. Row(s.functions, This(t), TRUE, p.temps, p.open, p.marks)
  <2>1. OnStack(This(t), TRUE) = OnStack(This(s), TRUE)
    BY <1>8 DEF OnStack
  <2>2. \E y : FrameOk(s.functions, This(t).function, This(t).locals, y, OnStack(This(t), TRUE), p.temps, p.open, p.marks)
    BY <1>8, <1>10, <2>1 DEF Row
  <2>3. LocalsOk(This(t), TRUE)
    <3>1. LocalsOk(This(s), TRUE)
      BY <1>10 DEF Row
    <3>2. \A i \in 1 .. Len(This(s).locals) : This(s).locals[i].depth <= d
      <4> DEFINE locals == This(s).locals
      <4> SUFFICES ASSUME NEW i \in 1 .. Len(locals) PROVE locals[i].depth <= d
        OBVIOUS
      <4>1. locals \in Seq(LocalType)
        BY OwnFacts
      <4>2. locals[i].depth <= This(s).scope_depth
        BY <3>1 DEF LocalsOk
      <4> HIDE DEF locals
      <4>3. locals[i] \in LocalType
        BY <4>1
      <4>4. locals[i].depth \in Int
        BY <4>3 DEF LocalType
      <4> QED
        BY <1>3, <4>2, <4>4
    <3> QED
      BY <1>8, <3>1, <3>2 DEF LocalsOk
  <2>4. \A e \in p.open \cup p.marks : e.fun = This(t).function => CountedBy(This(t), e)
    <3> SUFFICES ASSUME NEW e \in p.open \cup p.marks, e.fun = This(s).function
                 PROVE  CountedBy(This(t), e)
      BY <1>8
    <3>1. CountedBy(This(s), e)
      BY <1>10 DEF Row
    <3>2. e.depth \in Nat
      <4>1. p.open \subseteq EntryType /\ p.marks \subseteq EntryType
        BY TopRow
      <4>2. e \in EntryType
        BY <4>1
      <4> QED
        BY ONLY <4>2 DEF EntryType
    <3>3. e.depth <= d
      BY <1>3, <3>1, <3>2 DEF CountedBy
    <3> QED
      BY <1>8, <3>1, <3>3 DEF CountedBy
  <2>5. \A i \in DOMAIN This(t).upvalues : This(t).upvalues[i].is_local => This(t).upvalues[i].index >= 1
    BY <1>8, <1>10 DEF Row
  <2> QED
    BY <2>2, <2>3, <2>4, <2>5 DEF Row
<1> HIDE DEF q
<1>14. Row(s.functions, This(t), TRUE, q.temps, q.open, q.marks) /\ q.temps \in Nat
  BY <1>10, <1>12, <1>13
<1> QED
  BY <1>9, <1>12, <1>14, ScopeTyping

(* `synchronize': no error is known, and so there is nothing to skip. *)
LEMMA SynchronizeGoal ==
  ASSUME NEW s, NEW c, NEW p, NEW q, Stands(s, c, p, q), c.do = "synchronize"
  PROVE  Goal(RunSynchronize(s, c))
<1>1. /\ Base(s) /\ Typed(s, p) /\ Goes(s.functions, p, c, q) /\ Fits(s.functions, q, s.work)
      /\ s.errors = {}
  BY StandsFacts
<1>2. Moves(p, q) /\ q.temps = p.temps
  BY <1>1, GoesReading
<1>3. Loose(Kept(p), q)
  BY <1>2, LooseKept
<1>4. Turns(s, p, s, Kept(p))
  BY <1>1, KeptTurns
<1>5. ~This(s).panic_mode
  BY <1>1, OwnFacts
<1>6. Goal(s)
  BY <1>1, <1>3, <1>4, Hands0
<1> QED
  BY <1>5, <1>6 DEF RunSynchronize

(* emit_return, in a function: it returns nil. *)
LEMMA ReturnNilTurns ==
  ASSUME NEW s, Base(s), NEW p, Typed(s, p) => Top(p).fun # 1, NEW later, later \in Nat
  PROVE  Turns(s, p, EmitReturn(s), With(p, p.open, p.marks, later))
<1> DEFINE t == Emit(s, "OP_NIL")
           r == With(p, p.open, p.marks, p.temps + 1)
           u == Emit(t, "OP_RETURN")
<1>1. EmitReturn(s) = u
  <2>1. {"OP_NIL", "OP_RETURN"} \subseteq OpCode
    BY OpcodeNames
  <2>2. Code["OP_NIL"] \in Byte /\ Code["OP_RETURN"] \in Byte
    BY <2>1, ByteFacts
  <2> DEFINE ops == <<"OP_NIL", "OP_RETURN">>
  <2>3. [i \in DOMAIN ops |-> Code[ops[i]]] = <<Code["OP_NIL"], Code["OP_RETURN"]>>
    OBVIOUS
  <2>4. EmitBytes(EmitBytes(s, <<Code["OP_NIL"]>>), <<Code["OP_RETURN"]>>)
          = EmitBytes(s, <<Code["OP_NIL"], Code["OP_RETURN"]>>)
    BY <2>2, EmitTwice
  <2> QED
    BY <2>3, <2>4 DEF EmitReturn, EmitAll, Emit
<1>2. Turns(s, p, t, r) /\ Base(t)
  BY PushTurns DEF PushOps, Turns
<1>3. r.levels = p.levels /\ r.open = p.open /\ r.marks = p.marks /\ r.temps = p.temps + 1
      /\ Top(r) = Top(p) /\ With(r, r.open, r.marks, later) = With(p, p.open, p.marks, later)
  BY DEF With, Plan, Top
<1> SUFFICES ASSUME Typed(s, p) PROVE Turns(s, p, u, With(p, p.open, p.marks, later))
  <2>1. Turns(t, r, u, With(p, p.open, p.marks, later)) => Base(u) /\ u.work = t.work
    BY DEF Turns
  <2>2. Base(u) /\ u.work = s.work /\ (InText(s) => InText(u)) /\ u.errors = s.errors
    <3>1. Keeps(s, EmitReturn(s))
      BY EmitReturnFacts
    <3>2. EmitReturn(s).errors = s.errors
      BY EmitBytesStays DEF EmitReturn, EmitAll
    <3> QED
      BY <1>1, <3>1, <3>2 DEF Keeps
  <2> QED
    BY <1>1, <2>2 DEF Turns
<1>4. p.temps \in Nat
  BY TopRow
<1> HIDE DEF t, r, u
<1>5. Turns(t, r, Emit(t, "OP_RETURN"), With(r, r.open, r.marks, later))
  BY <1>2, <1>3, <1>4, ReturnTurns
<1>6. Turns(t, r, u, With(p, p.open, p.marks, later))
  BY <1>3, <1>5 DEF u
<1> QED
  BY <1>2, <1>6, TurnsTransitive

(* The only function that is called "script" is the first. *)
LEMMA ScriptName ==
  ASSUME NEW s, Base(s), NEW p, Typed(s, p), Function(s).name # "script"
  PROVE  Top(p).fun # 1
<1>1. s.compilers[1].function = 1 /\ s.functions[1].name = "script"
  BY DEF Typed, Typing, ScriptOk
<1>2. Top(p).fun = This(s).function /\ Function(s) = s.functions[This(s).function]
  BY TopRow, BaseChain
<1> QED
  BY <1>1, <1>2

(* `return_statement' *)
LEMMA ReturnStatementGoal ==
  ASSUME TokensOk, NEW s, NEW c, NEW p, NEW q, Stands(s, c, p, q), c.do = "return_statement"
  PROVE  Goal(RunReturnStatement(s, c))
<1>1. Base(s) /\ Typed(s, p) /\ Goes(s.functions, p, c, q) /\ Fits(s.functions, q, s.work) /\ InText(s)
  BY StandsFacts
<1>2. Moves(p, q) /\ p.temps = 0 /\ q.temps = 0
  BY <1>1, GoesSteady DEF SteadyStatement
<1> DEFINE msg == "Cannot return from top-level code."
           t   == IF Function(s).name = "script" THEN ErrorAtPrevious(s, msg) ELSE s
           end == <<Expression, Expect("SEMICOLON"), Emitting(<<"OP_RETURN">>)>>
           r   == RunReturnStatement(s, c)
<1>3. CASE Function(s).name = "script"
  <2>1. Base(t) /\ t.errors # {} /\ t = ErrorAtPrevious(s, msg)
    BY <1>1, <1>3, ErrorFacts DEF Keeps
  <2> HIDE DEF t
  <2>2. Check(t, "SEMICOLON") => EmitReturn(Advance(t)).errors = t.errors
    <3>1. Check(t, "SEMICOLON") => Base(Advance(t))
      <4>1. ~Check(t, "LOX_EOF") \/ ~Check(t, "SEMICOLON")
        BY DEF Check
      <4>2. InText(t)
        BY <1>1, <2>1, ErrorFacts DEF Keeps
      <4> QED
        BY <2>1, <4>1, <4>2, AdvanceTurns, LooseKept DEF Turns, Loose
    <3>2. Advance(t).errors = t.errors
      BY DEF Advance
    <3> QED
      BY <3>1, <3>2, EmitBytesStays DEF EmitReturn, EmitAll
  <2>3. Then(t, end).errors = t.errors
    BY DEF Then
  <2>4. r.errors # {}
    BY <1>3, <2>1, <2>2, <2>3 DEF RunReturnStatement, t
  <2> QED
    BY <2>4 DEF Goal
<1>4. CASE Function(s).name # "script"
  <2>1. Top(p).fun # 1
    BY <1>1, <1>4, ScriptName
  <2>2. r = IF Check(s, "SEMICOLON") THEN EmitReturn(Advance(s)) ELSE Then(s, end)
    BY <1>4 DEF RunReturnStatement
  <2>3. CASE Check(s, "SEMICOLON")
    <3>1. ~Check(s, "LOX_EOF")
      BY <2>3 DEF Check
    <3>2. Loose(p, Kept(p)) /\ Top(Kept(p)).fun # 1 /\ With(Kept(p), Kept(p).open, Kept(p).marks, 0) = Kept(p)
      BY <1>2, <2>1 DEF Loose, Kept, With, Plan, Top
    <3>3. Turns(s, p, Advance(s), Kept(p)) /\ Base(Advance(s))
      BY <1>1, <3>1, <3>2, AdvanceTurns DEF Turns
    <3>4. Turns(Advance(s), Kept(p), EmitReturn(Advance(s)), With(Kept(p), Kept(p).open, Kept(p).marks, 0))
      BY <3>2, <3>3, ReturnNilTurns
    <3>5. Turns(s, p, EmitReturn(Advance(s)), Kept(p))
      BY <1>1, <3>2, <3>3, <3>4, TurnsTransitive
    <3>6. Loose(Kept(p), q)
      BY <1>2, LooseKept
    <3>7. Goal(EmitReturn(Advance(s)))
      BY <1>1, <3>5, <3>6, Hands0
    <3> QED
      BY <2>2, <2>3, <3>7
  <2>4. CASE ~Check(s, "SEMICOLON")
    <3>1. Turns(s, p, s, Kept(p))
      BY <1>1, KeptTurns
    <3>2. Moves(Kept(p), q) /\ Kept(p).temps = 0 /\ Top(Kept(p)).fun # 1
      BY <1>2, <2>1 DEF Moves, Kept, With, Plan, Top
    <3>3. Goal(Then(s, end))
      BY <1>1, <1>2, <3>1, <3>2, UseGoal
    <3> QED
      BY <2>2, <2>4, <3>3
  <2> QED
    BY <2>3, <2>4
<1> QED
  BY <1>3, <1>4

(* The innermost scope is left, and nothing else changes. *)
Finishes(p, q) == Ends(p, q) /\ q.open = p.open /\ q.marks \subseteq p.marks /\ q.fresh = FALSE

(* A scope that has been entered can be left again. *)
LEMMA DeeperEnds ==
  ASSUME NEW s, Base(s), NEW p, Typed(s, p), Top(p).waits = FALSE, NEW q, Moves(p, q),
         p.temps = 0, q.temps = 0, NEW r, r = Deeper(p)
  PROVE  /\ Finishes(r, q) /\ Moves(r, r) /\ r.temps = 0 /\ Clear(r, r.open) /\ Clear(r, r.marks)
<1>1. /\ r.open = p.open /\ r.marks = p.marks /\ r.temps = p.temps /\ r.fresh = FALSE
      /\ Top(r).depth >= 1 /\ Clear(r, p.open) /\ Clear(r, p.marks)
      /\ p.levels = [r.levels EXCEPT ![Len(r.levels)] = Level(Top(r).fun, Top(r).depth - 1, FALSE)]
  BY DeeperFacts
<1>2. q.levels = p.levels /\ q.open = p.open /\ q.marks \subseteq p.marks /\ q.fresh = FALSE
  BY DEF Moves
<1>3. Clear(r, q.marks)
  BY <1>1, <1>2 DEF Clear
<1> QED
  BY <1>1, <1>2, <1>3 DEF Ends, Moves, Finishes

(* A block in it, and what follows the declarations of a for loop. *)
LEMMA GoesScope ==
  ASSUME NEW fs, NEW p, NEW c, NEW q, c.do \in {"end_scope", "for_condition"}
  PROVE  Goes(fs, p, c, q) <=> Finishes(p, q) /\ p.temps = 0
<1>1. c.do \in ClosingName
  BY DEF ClosingName
<1>2. GoesClosing(p, c, q) <=> Ends(p, q) /\ p.temps = 0 /\ q.open = p.open
  BY DEF GoesClosing
<1> QED
  BY <1>1, <1>2, GoesEnding DEF Finishes

(* A condition in parentheses. *)
LEMMA ConditionGoal ==
  ASSUME NEW s, Base(s), NEW p, Typed(s, p), NEW q, Fits(s.functions, q, s.work),
         NEW t, NEW r, Turns(s, p, t, r), Moves(r, q), r.temps = 0, q.temps = 0,
         NEW b, b \in CallType, b.do = "if_then" \/ (b.do = "while_body" /\ LoopsTo(r, b.start))
  PROVE  Goal(Then(t, <<Expect("LEFT_PAREN"), Expression, Expect("RIGHT_PAREN"), b>>))
<1> DEFINE m == With(r, r.open, r.marks, 1)
<1>1. Moves(r, m) /\ Moves(m, m) /\ Moves(m, q) /\ m.temps = 1 /\ Top(m) = Top(r) /\ m.marks = r.marks
  BY MovesThrough
<1>2. Kept(r).temps = 0 /\ Moves(r, Kept(r)) /\ Moves(Kept(r), m)
  BY <1>1 DEF Moves, Kept, With, Plan
<1> HIDE DEF m
<1>3. Goes(t.functions, r, Expect("LEFT_PAREN"), Kept(r))
  BY <1>2, GoesReading, CallNames
<1>4. Goes(t.functions, Kept(r), Expression, m)
  BY <1>1, <1>2, GoesParsing, CallNames
<1>5. Goes(t.functions, m, Expect("RIGHT_PAREN"), m)
  BY <1>1, GoesReading, CallNames
<1>6. Goes(t.functions, m, b, q)
  <2>1. CASE b.do = "if_then"
    BY <1>1, <2>1, GoesIfThen
  <2>2. CASE b.do = "while_body" /\ LoopsTo(r, b.start)
    <3>1. LoopsTo(m, b.start)
      BY <1>1, <2>2 DEF LoopsTo, Here
    <3> QED
      BY <1>1, <2>2, <3>1, GoesWhileBody
  <2> QED
    BY <2>1, <2>2
<1>7. Expect("LEFT_PAREN") \in CallType /\ Expect("RIGHT_PAREN") \in CallType /\ Expression \in CallType
  BY PartCalls
<1> QED
  BY <1>3, <1>4, <1>5, <1>6, <1>7, Hands4

(* The place that the code has got to can be jumped back to. *)
LEMMA StartLoops ==
  ASSUME NEW s, Base(s), NEW p, Typed(s, p), p.temps = 0, NEW e, e = Entry(s, CodeSize(s), 0),
         NEW r, r = With(p, p.open, p.marks \cup {e}, 0)
  PROVE  /\ Turns(s, p, s, r) /\ LoopsTo(r, CodeSize(s)) /\ LoopsTo(r, AsUint16(CodeSize(s)))
         /\ r.temps = 0 /\ Loose(r, r) /\ \A q : Moves(p, q) => Moves(r, q)
<1>1. Turns(s, p, s, r)
  <2>1. e.temps = 0
    BY EntryTemps
  <2>2. e = Entry(s, CodeSize(s), p.temps) /\ r = With(p, p.open, p.marks \cup {e}, p.temps)
    OBVIOUS
  <2> QED
    BY <2>1, <2>2, MarkTurns
<1>2. r.levels = p.levels /\ r.open = p.open /\ r.marks = p.marks \cup {e} /\ r.temps = 0 /\ r.fresh = FALSE
  BY DEF With, Plan
<1>3. e.at = CodeSize(s) /\ e.temps = 0 /\ e.fun = This(s).function /\ e.depth = This(s).scope_depth
  BY EntryAt, EntryTemps, EntryFun, EntryDepth
<1>4. Here(r, e)
  <2>1. Top(r) = Top(p)
    BY <1>2 DEF Top
  <2>2. Top(p).fun = This(s).function /\ Top(p).depth = This(s).scope_depth
    BY TopRow
  <2> QED
    BY <1>3, <2>1, <2>2 DEF Here
<1>5. e.at # -1
  BY <1>3, CodeSizeFacts
<1> QED
  BY <1>1, <1>2, <1>3, <1>4, <1>5 DEF LoopsTo, Loose, Moves

(* `statement' *)
LEMMA StatementGoal ==
  ASSUME TokensOk, NEW s, NEW c, NEW p, NEW q, Stands(s, c, p, q), c.do = "statement"
  PROVE  Goal(RunStatement(s, c))
<1>1. Base(s) /\ Typed(s, p) /\ Goes(s.functions, p, c, q) /\ Fits(s.functions, q, s.work) /\ InText(s)
  BY StandsFacts
<1>2. Moves(p, q) /\ p.temps = 0 /\ q.temps = 0
  BY <1>1, GoesSteady DEF SteadyStatement
<1>3. Moves(Kept(p), q) /\ Kept(p).temps = 0 /\ Loose(p, Kept(p)) /\ Loose(p, p)
  BY <1>2 DEF Moves, Loose, Kept, With, Plan
<1> DEFINE t == Advance(s)
<1>4. ~Check(s, "LOX_EOF") => /\ Turns(s, p, t, Kept(p)) /\ Turns(s, p, t, p) /\ Base(t) /\ InText(t)
                              /\ CodeSize(t) = CodeSize(s)
  BY <1>1, <1>3, AdvanceTurns DEF Turns
<1>5. \A type : Check(s, type) /\ type # "LOX_EOF" => ~Check(s, "LOX_EOF")
  BY DEF Check
<1> HIDE DEF t
<1>6. CASE Check(s, "PRINT")
  <2>1. Goal(Then(t, <<Expression, Expect("SEMICOLON"), Emitting(<<"OP_PRINT">>)>>))
    BY <1>1, <1>2, <1>3, <1>4, <1>5, <1>6, UseGoal
  <2> QED
    BY <1>6, <2>1 DEF RunStatement, t, Check
<1>7. CASE Check(s, "LEFT_BRACE")
  <2> DEFINE u == BeginScope(t)
             r == Deeper(p)
             a == Call("block")
             b == Call("end_scope")
  <2>1. Turns(s, p, t, p) /\ Base(t)
    BY <1>4, <1>5, <1>7
  <2>2. Top(p).waits = FALSE
    BY StandsSettled DEF StatementName
  <2>3. Turns(t, p, u, r)
    BY <2>1, <2>2, BeginTurns
  <2>4. Turns(s, p, u, r)
    BY <1>1, <2>1, <2>3, TurnsTransitive
  <2>5. a \in CallType /\ b \in CallType /\ a.do = "block" /\ b.do = "end_scope"
    BY StatementCallFacts, CallKinds, CallNames
  <2>6. RunStatement(s, c) = Then(u, <<a, b>>)
    BY <1>7 DEF RunStatement, t, Check
  <2> HIDE DEF u, r, a, b
  <2>7. /\ Finishes(r, q) /\ Moves(r, r) /\ r.temps = 0 /\ Clear(r, r.open) /\ Clear(r, r.marks)
    BY <1>1, <1>2, <2>2, DeeperEnds DEF r
  <2>8. Goes(u.functions, r, a, r)
    BY <2>5, <2>7, GoesDeclaring DEF Declaring
  <2>9. Goes(u.functions, r, b, q)
    <3>1. b.do \in {"end_scope", "for_condition"}
      BY <2>5
    <3> QED
      BY <2>7, <3>1, GoesScope
  <2> QED
    BY <1>1, <2>4, <2>5, <2>6, <2>8, <2>9, Hands2
<1>8. CASE Check(s, "IF")
  <2> DEFINE b == Call("if_then")
  <2>1. b \in CallType /\ b.do = "if_then"
    BY StatementCallFacts, CallKinds, CallNames
  <2>2. RunStatement(s, c) = Then(t, <<Expect("LEFT_PAREN"), Expression, Expect("RIGHT_PAREN"), b>>)
    BY <1>8 DEF RunStatement, t, Check
  <2> HIDE DEF b
  <2>3. Turns(s, p, t, Kept(p))
    BY <1>4, <1>5, <1>8
  <2> DEFINE r == Kept(p)
  <2>5. Turns(s, p, t, r) /\ Moves(r, q) /\ r.temps = 0
    BY <1>3, <2>3
  <2> HIDE DEF r
  <2>4. Goal(Then(t, <<Expect("LEFT_PAREN"), Expression, Expect("RIGHT_PAREN"), b>>))
    <3>1. b.do = "if_then" \/ (b.do = "while_body" /\ LoopsTo(r, b.start))
      BY <2>1
    <3> QED
      BY ONLY <1>1, <1>2, <2>1, <2>5, <3>1, ConditionGoal
  <2> QED
    BY <2>2, <2>4
<1>9. CASE Check(s, "WHILE")
  <2> DEFINE b == [do |-> "while_body", start |-> CodeSize(s)]
             e == Entry(s, CodeSize(s), 0)
             r == With(p, p.open, p.marks \cup {e}, 0)
  <2>1. b \in CallType /\ b.do = "while_body" /\ b.start = CodeSize(s)
    BY <1>1, CodeSizeFacts, StatementCallFacts, CallKinds
  <2>2. RunStatement(s, c) = Then(t, <<Expect("LEFT_PAREN"), Expression, Expect("RIGHT_PAREN"), b>>)
    BY <1>9 DEF RunStatement, t, Check
  <2> HIDE DEF b
  <2>8. e = Entry(s, CodeSize(s), 0) /\ r = With(p, p.open, p.marks \cup {e}, 0)
    OBVIOUS
  <2> HIDE DEF e, r
  <2>3. Turns(s, p, s, r) /\ LoopsTo(r, CodeSize(s)) /\ r.temps = 0 /\ Loose(r, r) /\ Moves(r, q)
    BY <1>1, <1>2, <2>8, StartLoops
  <2>4. Moves(r, q) /\ Loose(r, r)
    BY <2>3
  <2>5. Turns(s, r, t, r)
    BY <1>1, <1>5, <1>9, <2>4, AdvanceTurns DEF t
  <2>6. Turns(s, p, t, r)
    BY <1>1, <2>3, <2>5, TurnsTransitive
  <2>7. Goal(Then(t, <<Expect("LEFT_PAREN"), Expression, Expect("RIGHT_PAREN"), b>>))
    BY <1>1, <1>2, <2>1, <2>3, <2>4, <2>6, ConditionGoal
  <2> QED
    BY <2>2, <2>7
<1>10. CASE Check(s, "FOR") \/ Check(s, "RETURN")
  <2> DEFINE b == IF Check(s, "FOR") THEN Call("for_statement") ELSE Call("return_statement")
  <2>1. b \in CallType /\ b.do \in SteadyStatement
    BY StatementCallFacts, CallKinds, CallNames DEF SteadyStatement
  <2>2. RunStatement(s, c) = Then(t, <<b>>)
    BY <1>10 DEF RunStatement, t, Check
  <2> HIDE DEF b
  <2>3. \A fs : Goes(fs, Kept(p), b, q)
    BY <1>2, <1>3, <2>1, GoesSteady
  <2>4. Turns(s, p, t, Kept(p))
    BY <1>4, <1>5, <1>10
  <2> QED
    BY <1>1, <2>1, <2>2, <2>3, <2>4, Hands1
<1>11. CASE \A type \in {"PRINT", "LEFT_BRACE", "IF", "WHILE", "FOR", "RETURN"} : ~Check(s, type)
  <2> DEFINE b == Call("expression_statement")
  <2>1. b \in CallType /\ b.do \in SteadyStatement
    BY StatementCallFacts, CallKinds, CallNames DEF SteadyStatement
  <2>2. RunStatement(s, c) = Then(s, <<b>>)
    BY <1>11 DEF RunStatement
  <2> HIDE DEF b
  <2>3. \A fs : Goes(fs, Kept(p), b, q)
    BY <1>2, <1>3, <2>1, GoesSteady
  <2>4. Turns(s, p, s, Kept(p))
    BY <1>1, KeptTurns
  <2> QED
    BY <1>1, <2>1, <2>2, <2>3, <2>4, Hands1
<1> QED
  BY <1>6, <1>7, <1>8, <1>9, <1>10, <1>11

(* The innermost scope is left at some point. *)
Leaving(p, q) == Ends(p, q) /\ q.marks \subseteq p.marks /\ q.fresh = FALSE

(* Only the compilers matter to that, and to the addresses and jumps of a loop. *)
LEMMA LeavingStays ==
  ASSUME NEW p, NEW r, r.levels = p.levels, p.marks \subseteq r.marks
  PROVE  /\ \A q : Leaving(p, q) => Leaving(r, q)
         /\ \A start : LoopsTo(p, start) => LoopsTo(r, start)
         /\ \A o, n, jump, later : Leaves(p, o, n, jump, later) => Leaves(r, o, n, jump, later)
         /\ \A o, exit, later : LeavesBy(p, o, exit, later) => LeavesBy(r, o, exit, later)
<1>1. Top(r) = Top(p)
  BY DEF Top
<1>2. \A e : Here(p, e) <=> Here(r, e)
  BY <1>1 DEF Here
<1>3. \A entries : Clear(p, entries) => Clear(r, entries)
  BY <1>2 DEF Clear
<1>4. \A q : Leaving(p, q) => Leaving(r, q)
  BY <1>1, <1>3 DEF Leaving, Ends
<1>5. \A start : LoopsTo(p, start) => LoopsTo(r, start)
  BY <1>2 DEF LoopsTo
<1>6. \A o, n, jump, later : Leaves(p, o, n, jump, later) => Leaves(r, o, n, jump, later)
  BY <1>2 DEF Leaves
<1>7. \A o, exit, later : LeavesBy(p, o, exit, later) => LeavesBy(r, o, exit, later)
  BY <1>6 DEF LeavesBy
<1> QED
  BY <1>4, <1>5, <1>6, <1>7

(* To leave the scope at once is to leave it with the jumps that wait. *)
LEMMA FinishesLeaving ==
  ASSUME NEW p, NEW q
  PROVE  Finishes(p, q) <=> Leaving(p, q) /\ q.open = p.open
BY DEF Finishes, Leaving

(* The parts of a for statement. *)
LEMMA GoesForExit ==
  ASSUME NEW fs, NEW p, NEW c, NEW q, c.do = "for_exit"
  PROVE  Goes(fs, p, c, q) <=> Leaving(p, q) /\ p.temps = 1 /\ q.open = p.open /\ LoopsTo(p, c.start)
<1>1. c.do \in ClosingName
  BY DEF ClosingName
<1>2. GoesClosing(p, c, q) <=> Ends(p, q) /\ p.temps = 1 /\ q.open = p.open /\ LoopsTo(p, c.start)
  BY DEF GoesClosing
<1> QED
  BY <1>1, <1>2, GoesEnding DEF Leaving

(* The parts of a for statement: the increment clause and the body, *)
LEMMA GoesForPart ==
  ASSUME NEW fs, NEW p, NEW c, NEW q, c.do \in {"for_increment", "for_body"}
  PROVE  Goes(fs, p, c, q) <=> /\ Leaving(p, q) /\ p.temps = 0
                               /\ LoopsTo(p, c.start) /\ LeavesBy(p, p.open, c.exit, q.open)
<1>1. c.do \in ClosingName
  BY DEF ClosingName
<1>2. GoesClosing(p, c, q) <=> /\ Ends(p, q) /\ p.temps = 0
                               /\ LoopsTo(p, c.start) /\ LeavesBy(p, p.open, c.exit, q.open)
  BY DEF GoesClosing
<1> QED
  BY <1>1, <1>2, GoesEnding DEF Leaving

(* and what comes between them. *)
LEMMA GoesForResume ==
  ASSUME NEW fs, NEW p, NEW c, NEW q, c.do = "for_resume"
  PROVE  Goes(fs, p, c, q) <=>
           /\ Leaving(p, q) /\ p.temps = 0 /\ LoopsTo(p, c.start) /\ LoopsTo(p, c.increment)
           /\ \E open : Leaves(p, p.open, 0, c.jump, open) /\ LeavesBy(p, open, c.exit, q.open)
<1>1. c.do \in ClosingName
  BY DEF ClosingName
<1>2. GoesClosing(p, c, q) <=>
        /\ Ends(p, q) /\ p.temps = 0 /\ LoopsTo(p, c.start) /\ LoopsTo(p, c.increment)
        /\ \E open : Leaves(p, p.open, 0, c.jump, open) /\ LeavesBy(p, open, c.exit, q.open)
  BY DEF GoesClosing
<1> QED
  BY <1>1, <1>2, GoesEnding DEF Leaving

(* `for_statement' *)
LEMMA ForStatementGoal ==
  ASSUME TokensOk, NEW s, NEW c, NEW p, NEW q, Stands(s, c, p, q), c.do = "for_statement"
  PROVE  Goal(RunForStatement(s, c))
<1>1. Base(s) /\ Typed(s, p) /\ Goes(s.functions, p, c, q) /\ Fits(s.functions, q, s.work) /\ InText(s)
  BY StandsFacts
<1>2. Moves(p, q) /\ p.temps = 0 /\ q.temps = 0
  BY <1>1, GoesSteady DEF SteadyStatement
<1>3. Top(p).waits = FALSE
  BY StandsSettled DEF StatementName
<1> DEFINE u == BeginScope(s)
           t == Consume(u, "LEFT_PAREN")
           r == Deeper(p)
           b == Call("for_condition")
           var == Call("var_declaration")
           stm == Call("expression_statement")
<1>4. Turns(s, p, u, r) /\ Base(u) /\ InText(u)
  BY <1>1, <1>3, BeginTurns DEF Turns
<1>5. /\ Finishes(r, q) /\ Moves(r, r) /\ r.temps = 0 /\ Clear(r, r.open) /\ Clear(r, r.marks)
  BY <1>1, <1>2, <1>3, DeeperEnds
<1>6. b \in CallType /\ b.do = "for_condition" /\ var \in CallType /\ var.do = "var_declaration"
      /\ stm \in CallType /\ stm.do = "expression_statement"
  BY StatementCallFacts, CallKinds, CallNames
<1>7. RunForStatement(s, c) = IF Check(t, "VAR") THEN Then(Advance(t), <<var, b>>)
                              ELSE IF Check(t, "SEMICOLON") THEN Then(Advance(t), <<b>>)
                              ELSE Then(t, <<stm, b>>)
  BY DEF RunForStatement, Check
<1> HIDE DEF u, r, b, var, stm
<1>8. Loose(r, r)
  BY <1>5 DEF Loose, Moves
<1>9. Turns(u, r, t, r) /\ Base(t) /\ InText(t)
  BY <1>4, <1>8, ConsumeTurns
<1> HIDE DEF t
<1>10. Turns(s, p, t, r)
  BY <1>1, <1>4, <1>9, TurnsTransitive
<1>11. ~Check(t, "LOX_EOF") => Turns(s, p, Advance(t), r)
  <2> SUFFICES ASSUME ~Check(t, "LOX_EOF") PROVE Turns(s, p, Advance(t), r)
    OBVIOUS
  <2>1. Turns(t, r, Advance(t), r)
    BY <1>8, <1>9, AdvanceTurns
  <2> QED
    BY <1>1, <1>10, <2>1, TurnsTransitive
<1>12. \A fs : Goes(fs, r, b, q)
  <2>1. b.do \in {"end_scope", "for_condition"}
    BY <1>6
  <2> QED
    BY <1>5, <2>1, GoesScope
<1>13. \A fs : Goes(fs, r, var, r) /\ Goes(fs, r, stm, r)
  BY <1>5, <1>6, GoesDeclaring, GoesSteady DEF Declaring, SteadyStatement
<1>14. CASE Check(t, "VAR")
  <2>1. ~Check(t, "LOX_EOF")
    BY <1>14 DEF Check
  <2>2. Goal(Then(Advance(t), <<var, b>>))
    BY <1>1, <1>6, <1>11, <1>12, <1>13, <2>1, Hands2
  <2> QED
    BY <1>7, <1>14, <2>2
<1>15. CASE ~Check(t, "VAR") /\ Check(t, "SEMICOLON")
  <2>1. ~Check(t, "LOX_EOF")
    BY <1>15 DEF Check
  <2>2. Goal(Then(Advance(t), <<b>>))
    BY <1>1, <1>6, <1>11, <1>12, <2>1, Hands1
  <2> QED
    BY <1>7, <1>15, <2>2
<1>16. CASE ~Check(t, "VAR") /\ ~Check(t, "SEMICOLON")
  <2>2. Goal(Then(t, <<stm, b>>))
    BY <1>1, <1>6, <1>10, <1>12, <1>13, Hands2
  <2> QED
    BY <1>7, <1>16, <2>2
<1> QED
  BY <1>14, <1>15, <1>16

(* `for_condition' *)
LEMMA ForConditionGoal ==
  ASSUME NEW s, NEW c, NEW p, NEW q, Stands(s, c, p, q), c.do = "for_condition"
  PROVE  Goal(RunForCondition(s, c))
<1>1. Base(s) /\ Typed(s, p) /\ Goes(s.functions, p, c, q) /\ Fits(s.functions, q, s.work)
  BY StandsFacts
<1>2. Finishes(p, q) /\ p.temps = 0
  <2>1. c.do \in {"end_scope", "for_condition"}
    OBVIOUS
  <2> QED
    BY <1>1, <2>1, GoesScope
<1> DEFINE start == CodeSize(s)
           e == Entry(s, start, 0)
           r == With(p, p.open, p.marks \cup {e}, 0)
           m == With(p, p.open, p.marks \cup {e}, 1)
           a == [do |-> "for_increment", start |-> start, exit |-> <<>>]
           b == [do |-> "for_exit", start |-> start]
<1>3. start \in Nat
  BY <1>1, CodeSizeFacts
<1>4. /\ a \in CallType /\ a.do = "for_increment" /\ a.start = start /\ a.exit = <<>>
      /\ b \in CallType /\ b.do = "for_exit" /\ b.start = start
  BY <1>3, ExitFacts, StatementCallFacts, CallKinds
<1>5. RunForCondition(s, c) = IF Check(s, "SEMICOLON") THEN Then(s, <<a>>) ELSE Then(s, <<Expression, b>>)
  BY DEF RunForCondition
<1>6. /\ r.levels = p.levels /\ r.open = p.open /\ p.marks \subseteq r.marks
      /\ m.levels = p.levels /\ m.open = p.open /\ p.marks \subseteq m.marks /\ m.temps = 1 /\ m.marks = r.marks
      /\ Moves(r, m)
  BY DEF With, Plan, Moves
<1>7. e = Entry(s, CodeSize(s), 0) /\ r = With(p, p.open, p.marks \cup {e}, 0)
  OBVIOUS
<1> HIDE DEF start, e, r, m, a, b
<1>8. Turns(s, p, s, r) /\ LoopsTo(r, CodeSize(s)) /\ r.temps = 0
  BY <1>1, <1>2, <1>7, StartLoops
<1>9. Leaving(p, q) /\ q.open = p.open
  BY <1>2, FinishesLeaving
<1>10. CASE Check(s, "SEMICOLON")
  <2>1. Leaving(r, q)
    BY <1>6, <1>9, LeavingStays
  <2>2. LeavesBy(r, r.open, a.exit, q.open)
    BY <1>4, <1>6, <1>9 DEF LeavesBy
  <2>3. LoopsTo(r, a.start)
    BY <1>4, <1>8 DEF start
  <2>4. Goes(s.functions, r, a, q)
    BY <1>4, <1>8, <2>1, <2>2, <2>3, GoesForPart
  <2>5. Goal(Then(s, <<a>>))
    BY <1>1, <1>4, <1>8, <2>4, Hands1
  <2> QED
    BY <1>5, <1>10, <2>5
<1>11. CASE ~Check(s, "SEMICOLON")
  <2>1. Goes(s.functions, r, Expression, m)
    BY <1>6, <1>8, GoesParsing, CallNames
  <2>2. Leaving(m, q)
    BY <1>6, <1>9, LeavingStays
  <2>3. LoopsTo(m, b.start)
    <3>1. LoopsTo(m, CodeSize(s))
      BY <1>6, <1>8, LeavingStays
    <3> QED
      BY <1>4, <3>1 DEF start
  <2>4. Goes(s.functions, m, b, q)
    BY <1>4, <1>6, <1>9, <2>2, <2>3, GoesForExit
  <2>5. Expression \in CallType
    BY PartCalls
  <2>6. Goal(Then(s, <<Expression, b>>))
    BY <1>1, <1>4, <1>8, <2>1, <2>4, <2>5, Hands2
  <2> QED
    BY <1>5, <1>11, <2>6
<1> QED
  BY <1>10, <1>11

(* `for_exit' *)
LEMMA ForExitGoal ==
  ASSUME NEW s, NEW c, NEW p, NEW q, Stands(s, c, p, q), c.do = "for_exit"
  PROVE  Goal(RunForExit(s, c))
<1>1. Base(s) /\ Typed(s, p) /\ Goes(s.functions, p, c, q) /\ Fits(s.functions, q, s.work) /\ c \in CallType
  BY StandsFacts
<1>2. Leaving(p, q) /\ p.temps = 1 /\ q.open = p.open /\ LoopsTo(p, c.start)
  BY <1>1, GoesForExit
<1> DEFINE e == Entry(s, CodeSize(s), p.temps)
           t == Emit(EmitJump(s, "OP_JUMP_IF_FALSE"), "OP_POP")
           r == With(p, p.open \cup {e}, p.marks, p.temps - 1)
           b == [do |-> "for_increment", start |-> c.start, exit |-> <<JumpAddress(s)>>]
<1>3. Turns(s, p, t, r)
  BY <1>1, <1>2, ConditionTurns
<1>4. r.levels = p.levels /\ r.open = p.open \cup {e} /\ r.marks = p.marks /\ r.temps = 0
  BY <1>2 DEF With, Plan
<1>5. Leaves(r, r.open, 1, JumpAddress(s), p.open)
  BY <1>1, <1>2, <1>4, JumpLeaves
<1>6. b \in CallType /\ b.do = "for_increment" /\ b.start = c.start /\ b.exit # <<>> /\ b.exit[1] = JumpAddress(s)
  <2>1. c.start \in Nat /\ JumpAddress(s) \in Nat
    BY <1>1, ShapeFacts, CodeSizeFacts
  <2>2. <<JumpAddress(s)>> \in Exits
    BY <2>1, ExitFacts
  <2> QED
    BY <2>1, <2>2, StatementCallFacts, CallKinds
<1>7. RunForExit(s, c) = Then(t, <<b>>)
  BY DEF RunForExit
<1> HIDE DEF e, t, r, b
<1>8. Goes(t.functions, r, b, q)
  <2>1. Leaving(r, q) /\ LoopsTo(r, b.start)
    BY <1>2, <1>4, <1>6, LeavingStays
  <2>2. LeavesBy(r, r.open, b.exit, q.open)
    BY <1>2, <1>5, <1>6 DEF LeavesBy
  <2>3. b.do \in {"for_increment", "for_body"}
    BY <1>6
  <2>4. r.temps = 0
    BY <1>4
  <2> QED
    BY <2>1, <2>2, <2>3, <2>4, GoesForPart
<1> QED
  BY <1>1, <1>3, <1>6, <1>7, <1>8, Hands1

(* The clause that follows the condition: the jump over it, and the place to come back to. *)
LEMMA IncrementTurns ==
  ASSUME NEW s, Base(s), NEW p, Typed(s, p), p.temps = 0, NEW u, u = EmitJump(s, "OP_JUMP"), u.errors = {},
         NEW e, e = Entry(s, CodeSize(s), 0), NEW i, i = Entry(u, CodeSize(u), 0),
         NEW r, r = With(p, p.open \cup {e}, p.marks \cup {i}, 0)
  PROVE  /\ Turns(s, p, u, r) /\ LoopsTo(r, AsUint16(CodeSize(u)))
         /\ Leaves(r, r.open, 0, JumpAddress(s), p.open)
         /\ r.levels = p.levels /\ p.marks \subseteq r.marks /\ r.temps = 0 /\ Moves(r, r)
<1> DEFINE r1 == With(p, p.open \cup {e}, p.marks, 0)
<1>1. Turns(s, p, u, r1)
  BY JumpTurns
<1>2. Base(u) /\ Typed(u, r1)
  BY <1>1 DEF Turns
<1>3. r1.levels = p.levels /\ r1.open = p.open \cup {e} /\ r1.marks = p.marks /\ r1.temps = 0
      /\ With(r1, r1.open, r1.marks \cup {i}, 0) = r
  BY DEF With, Plan
<1>4. r.levels = p.levels /\ r.open = p.open \cup {e} /\ r.marks = p.marks \cup {i} /\ r.temps = 0 /\ Moves(r, r)
  BY DEF With, Plan, Moves
<1> HIDE DEF r1
<1>5. Turns(u, r1, u, r) /\ LoopsTo(r, AsUint16(CodeSize(u)))
  BY <1>2, <1>3, StartLoops
<1>6. Turns(s, p, u, r)
  BY <1>1, <1>5, TurnsTransitive
<1>7. Leaves(r, r.open, 0, JumpAddress(s), p.open)
  BY <1>4, JumpLeaves
<1> QED
  BY <1>4, <1>5, <1>6, <1>7

(* `for_increment' *)
LEMMA ForIncrementGoal ==
  ASSUME TokensOk, NEW s, NEW c, NEW p, NEW q, Stands(s, c, p, q), c.do = "for_increment"
  PROVE  Goal(RunForIncrement(s, c))
<1>1. Base(s) /\ Typed(s, p) /\ Goes(s.functions, p, c, q) /\ Fits(s.functions, q, s.work) /\ c \in CallType
      /\ InText(s)
  BY StandsFacts
<1>2. /\ Leaving(p, q) /\ p.temps = 0 /\ LoopsTo(p, c.start) /\ LeavesBy(p, p.open, c.exit, q.open)
  BY <1>1, GoesForPart
<1>3. c \in [do : {"for_increment", "for_body"}, start : Nat, exit : Exits]
  BY <1>1, ShapeFacts
<1> DEFINE t == Consume(s, "SEMICOLON")
           r == Kept(p)
           u == EmitJump(t, "OP_JUMP")
           none == [c EXCEPT !.do = "for_body"]
           pop == Emitting(<<"OP_POP">>)
           some == [do |-> "for_resume", start |-> c.start, exit |-> c.exit,
                    jump |-> JumpAddress(t), increment |-> AsUint16(CodeSize(u))]
<1>4. RunForIncrement(s, c) = IF Check(t, "RIGHT_PAREN") THEN Then(t, <<none>>)
                              ELSE Then(u, <<Expression, pop, some>>)
  BY DEF RunForIncrement
<1>5. r.levels = p.levels /\ r.open = p.open /\ r.marks = p.marks /\ r.temps = 0 /\ Loose(p, r)
  BY <1>2 DEF Kept, With, Plan, Loose
<1> HIDE DEF r
<1>6. Turns(s, p, t, r) /\ Base(t)
  BY <1>1, <1>5, ConsumeTurns
<1>7. none \in ClosingCall /\ none.do = "for_body" /\ none.start = c.start /\ none.exit = c.exit
  BY <1>3 DEF ClosingCall
<1>8. none \in CallType
  BY <1>7, CallKinds
<1> HIDE DEF t
<1>9. some \in CallType /\ some.do = "for_resume" /\ some.start = c.start /\ some.exit = c.exit
      /\ some.jump = JumpAddress(t) /\ some.increment = AsUint16(CodeSize(u))
  <2>1. Base(u)
    BY <1>6, OpcodeNames, EmitJumpFacts DEF Keeps
  <2>2. JumpAddress(t) \in Nat /\ AsUint16(CodeSize(u)) \in Nat
    BY <1>6, <2>1, CodeSizeFacts
  <2> QED
    BY <1>3, <2>2, StatementCallFacts, CallKinds
<1>10. u = EmitJump(t, "OP_JUMP")
  OBVIOUS
<1>11. pop = Emitting(<<"OP_POP">>)
  OBVIOUS
<1> HIDE DEF none, some, u, pop
<1>12. Leaving(r, q) /\ LoopsTo(r, c.start) /\ LeavesBy(r, r.open, c.exit, q.open)
  BY <1>2, <1>5, LeavingStays
<1>13. CASE Check(t, "RIGHT_PAREN")
  <2>1. Goes(t.functions, r, none, q)
    <3>1. none.do \in {"for_increment", "for_body"} /\ LoopsTo(r, none.start)
          /\ LeavesBy(r, r.open, none.exit, q.open)
      BY <1>7, <1>12
    <3> QED
      BY <1>5, <1>12, <3>1, GoesForPart
  <2>2. Goal(Then(t, <<none>>))
    BY <1>1, <1>6, <1>8, <2>1, Hands1
  <2> QED
    BY <1>4, <1>13, <2>2
<1>14. CASE ~Check(t, "RIGHT_PAREN")
  <2> DEFINE v == Then(u, <<Expression, pop, some>>)
  <2>11. RunForIncrement(s, c) = v
    BY <1>4, <1>14
  <2>12. v.errors = u.errors
    BY DEF Then
  <2> HIDE DEF v
  <2>13. u.errors # {} => Goal(v)
    BY <2>12 DEF Goal
  <2> SUFFICES ASSUME u.errors = {} PROVE Goal(v)
    BY <2>11, <2>13
  <2>1. t.errors = {}
    BY <1>6, <1>10, EmitBytesStays DEF EmitJump
  <2>2. Typed(t, r)
    BY <1>1, <1>6, <2>1 DEF Turns
  <2> DEFINE e == Entry(t, CodeSize(t), 0)
             i == Entry(u, CodeSize(u), 0)
             m == With(r, r.open \cup {e}, r.marks \cup {i}, 0)
             n == With(m, m.open, m.marks, 1)
  <2>3. e = Entry(t, CodeSize(t), 0) /\ i = Entry(u, CodeSize(u), 0)
        /\ m = With(r, r.open \cup {e}, r.marks \cup {i}, 0)
    OBVIOUS
  <2> HIDE DEF e, i, m
  <2>4. /\ Turns(t, r, u, m) /\ LoopsTo(m, AsUint16(CodeSize(u)))
        /\ Leaves(m, m.open, 0, JumpAddress(t), r.open)
        /\ m.levels = r.levels /\ r.marks \subseteq m.marks /\ m.temps = 0 /\ Moves(m, m)
    BY <1>5, <1>6, <1>10, <2>2, <2>3, IncrementTurns
  <2>5. Turns(s, p, u, m)
    BY <1>1, <1>6, <2>4, TurnsTransitive
  <2>6. Moves(m, n) /\ Moves(n, m) /\ n.temps = 1 /\ m.temps = 0
    BY <2>4, MovesThrough
  <2> HIDE DEF n
  <2>7. Goes(u.functions, m, Expression, n)
    BY <2>6, GoesParsing, CallNames
  <2>8. Goes(u.functions, n, pop, m)
    <3>1. Emits(u.functions, n, pop.bytes, m)
      BY <1>11, <2>6, EmittingOne DEF Emits
    <3>2. pop.do = "emit"
      BY <1>11, CallNames
    <3> QED
      BY <2>6, <3>1, <3>2, GoesEmitting
  <2>9. Goes(u.functions, m, some, q)
    <3>1. Leaving(m, q) /\ LoopsTo(m, some.start) /\ LoopsTo(m, some.increment)
      BY <1>9, <1>12, <2>4, LeavingStays
    <3>2. Leaves(m, m.open, 0, some.jump, r.open) /\ LeavesBy(m, r.open, some.exit, q.open)
      BY <1>9, <1>12, <2>4, LeavingStays
    <3> QED
      BY <1>9, <2>4, <3>1, <3>2, GoesForResume
  <2>10. Expression \in CallType /\ pop \in CallType
    BY <1>11, PartCalls
  <2> QED
    BY <1>1, <1>9, <2>5, <2>7, <2>8, <2>9, <2>10, Hands3 DEF v
<1> QED
  BY <1>13, <1>14

(* `for_resume' *)
LEMMA ForResumeGoal ==
  ASSUME NEW s, NEW c, NEW p, NEW q, Stands(s, c, p, q), c.do = "for_resume"
  PROVE  Goal(RunForResume(s, c))
<1>1. Base(s) /\ Typed(s, p) /\ Goes(s.functions, p, c, q) /\ Fits(s.functions, q, s.work) /\ c \in CallType
  BY StandsFacts
<1>2. c.start \in Nat /\ c.exit \in Exits /\ c.jump \in Nat /\ c.increment \in Nat
  BY <1>1, ShapeFacts
<1>3. Leaving(p, q) /\ p.temps = 0 /\ LoopsTo(p, c.start) /\ LoopsTo(p, c.increment)
  BY <1>1, GoesForResume
<1>4. PICK open : Leaves(p, p.open, 0, c.jump, open) /\ LeavesBy(p, open, c.exit, q.open)
  BY <1>1, GoesForResume
<1> DEFINE t == EmitLoop(s, c.start)
           u == PatchJump(t, c.jump)
           r1 == With(p, p.open, p.marks, 0)
           r == With(p, open, p.marks, 0)
           b == [do |-> "for_body", start |-> c.increment, exit |-> c.exit]
<1>5. RunForResume(s, c) = Then(u, <<b>>)
  BY DEF RunForResume
<1>6. b \in CallType /\ b.do = "for_body" /\ b.start = c.increment /\ b.exit = c.exit
  BY <1>2, StatementCallFacts, CallKinds
<1>7. Turns(s, p, t, r1) /\ Base(t)
  BY <1>1, <1>2, <1>3, LoopTurns DEF Turns
<1>8. r1.levels = p.levels /\ r1.open = p.open /\ r1.marks = p.marks /\ r1.temps = 0
      /\ r.levels = p.levels /\ r.open = open /\ r.marks = p.marks /\ r.temps = 0
      /\ With(r1, open, r1.marks, r1.temps) = r
  BY DEF With, Plan
<1> HIDE DEF t, r1, r, b
<1>9. Leaves(r1, r1.open, r1.temps, c.jump, open)
  BY <1>4, <1>8, LeavingStays
<1>10. Turns(t, r1, u, r)
  BY <1>2, <1>7, <1>8, <1>9, PatchTurns
<1>11. Turns(s, p, u, r)
  BY <1>1, <1>7, <1>10, TurnsTransitive
<1> HIDE DEF u
<1>12. Goes(u.functions, r, b, q)
  <2>1. Leaving(r, q) /\ LoopsTo(r, b.start) /\ LeavesBy(r, r.open, b.exit, q.open)
    BY <1>3, <1>4, <1>6, <1>8, LeavingStays
  <2> QED
    BY <1>6, <1>8, <2>1, GoesForPart
<1> QED
  BY <1>1, <1>5, <1>6, <1>11, <1>12, Hands1

(* `for_body' *)
LEMMA ForBodyGoal ==
  ASSUME TokensOk, NEW s, NEW c, NEW p, NEW q, Stands(s, c, p, q), c.do = "for_body"
  PROVE  Goal(RunForBody(s, c))
<1>1. Base(s) /\ Typed(s, p) /\ Goes(s.functions, p, c, q) /\ Fits(s.functions, q, s.work) /\ c \in CallType
      /\ InText(s)
  BY StandsFacts
<1>2. /\ Leaving(p, q) /\ p.temps = 0 /\ LoopsTo(p, c.start) /\ LeavesBy(p, p.open, c.exit, q.open)
  BY <1>1, GoesForPart
<1>3. c \in [do : {"for_increment", "for_body"}, start : Nat, exit : Exits]
  BY <1>1, ShapeFacts
<1> DEFINE t == Consume(s, "RIGHT_PAREN")
           r == Kept(p)
           m == With(p, q.open, p.marks, 0)
           a == Call("statement")
           loop == [c EXCEPT !.do = "end_loop"]
           b == Call("end_scope")
<1>4. RunForBody(s, c) = Then(t, <<a, loop, b>>)
  BY DEF RunForBody
<1>5. /\ r.levels = p.levels /\ r.open = p.open /\ r.marks = p.marks /\ r.temps = 0 /\ Loose(p, r)
      /\ Moves(r, r)
      /\ m.levels = p.levels /\ m.open = q.open /\ m.marks = p.marks /\ m.temps = 0
  BY <1>2 DEF Kept, With, Plan, Loose, Moves
<1>6. m.fresh = FALSE
  BY DEF With, Plan
<1>7. loop \in StatementCall /\ loop.do = "end_loop" /\ loop.start = c.start /\ loop.exit = c.exit
  BY <1>3 DEF StatementCall
<1>8. a \in CallType /\ a.do = "statement" /\ b \in CallType /\ b.do = "end_scope" /\ loop \in CallType
  BY <1>7, StatementCallFacts, CallKinds, CallNames
<1> HIDE DEF r, m, a, b, loop
<1>9. Turns(s, p, t, r)
  BY <1>1, <1>5, ConsumeTurns
<1> HIDE DEF t
<1>10. Goes(t.functions, r, a, r)
  BY <1>5, <1>8, GoesSteady DEF SteadyStatement
<1>11. Goes(t.functions, r, loop, m)
  <2>1. LoopsTo(r, loop.start) /\ LeavesBy(r, r.open, loop.exit, m.open)
    BY <1>2, <1>5, <1>7, LeavingStays
  <2> QED
    BY <1>5, <1>6, <1>7, <2>1, GoesEndLoop
<1>12. Goes(t.functions, m, b, q)
  <2>1. Leaving(m, q)
    BY <1>2, <1>5, LeavingStays
  <2>2. Finishes(m, q)
    BY <1>5, <2>1, FinishesLeaving
  <2>3. b.do \in {"end_scope", "for_condition"}
    BY <1>8
  <2> QED
    BY <1>5, <2>2, <2>3, GoesScope
<1> QED
  BY <1>1, <1>4, <1>8, <1>9, <1>10, <1>11, <1>12, Hands3
=============================================================================
