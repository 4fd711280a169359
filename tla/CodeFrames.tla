----------------------------- MODULE CodeFrames -----------------------------
(***************************************************************************)
(* What the code of a function does to the stack, told by the instructions *)
(* alone.  The walk over the code (Bytecode!Flow) accepts it if there is a *)
(* sheet: for the address of each instruction the height of the stack, the *)
(* captured slots, and what the operand refers to.  A function that is     *)
(* still being compiled has a frame: a sheet up to the end of its code,    *)
(* with jumps that wait to be patched and addresses to jump back to.  The  *)
(* lemmas say how the procedures of the compiler lengthen and patch the    *)
(* code of a frame, and that the frame of code that ends in a return is a  *)
(* sheet.                                                                  *)
(***************************************************************************)
EXTENDS Bytecode, SequenceFacts, FiniteSets, FiniteSetTheorems

-----------------------------------------------------------------------------
(* A function that is defined by iteration *)

Iterates(g, Z, stop, step, val) == g = [z \in Z |-> IF z \in stop THEN val[z] ELSE g[step[z]]]

(***************************************************************************)
(* A function that passes its argument on, step by step, until it stops,   *)
(* exists if what it returns only grows: whether it stops or not.          *)
(***************************************************************************)
LEMMA IterationExists ==
  ASSUME NEW Z, NEW stop, NEW step \in [Z -> Z], NEW val,
         \A z \in Z : z \notin stop => val[z] \subseteq val[step[z]]
  PROVE  \E g : Iterates(g, Z, stop, step, val)
<1> DEFINE Closed(S) == \A y \in S : y \notin stop => step[y] \in S
           C(z)      == {y \in Z : \A S \in SUBSET Z : z \in S /\ Closed(S) => y \in S}
           V(z)      == UNION {val[y] : y \in C(z)}
           g         == [z \in Z |-> V(z)]
<1>1. ASSUME NEW z \in Z, z \in stop PROVE V(z) = val[z]
  <2>1. Closed({z})
    BY <1>1
  <2>2. z \in C(z)
    OBVIOUS
  <2>3. C(z) = {z}
    <3> HIDE DEF Closed
    <3> QED
      BY <2>1, <2>2
  <2> QED
    BY <2>3
<1>2. ASSUME NEW z \in Z, z \notin stop PROVE V(z) = V(step[z])
  <2>1. step[z] \in Z /\ z \in C(z) /\ step[z] \in C(step[z])
    OBVIOUS
  <2>2. C(step[z]) \subseteq C(z)
    BY <1>2, <2>1
  <2>3. Closed(C(step[z]) \cup {z})
    BY <2>1
  <2>4. C(z) \subseteq C(step[z]) \cup {z}
    <3>1. C(step[z]) \cup {z} \in SUBSET Z
      OBVIOUS
    <3> HIDE DEF Closed
    <3> QED
      BY <2>3, <3>1
  <2>5. val[z] \subseteq val[step[z]]
    BY <1>2
  <2> HIDE DEF C
  <2> QED
    BY <2>1, <2>2, <2>4, <2>5
<1>3. g = [z \in Z |-> IF z \in stop THEN val[z] ELSE g[step[z]]]
  <2>1. ASSUME NEW z \in Z PROVE g[z] = IF z \in stop THEN val[z] ELSE g[step[z]]
    <3> HIDE DEF V
    <3>1. g[z] = V(z) /\ step[z] \in Z /\ g[step[z]] = V(step[z])
      OBVIOUS
    <3> QED
      BY <1>1, <1>2, <3>1
  <2> QED
    BY <2>1
<1> QED
  BY <1>3 DEF Iterates

(***************************************************************************)
(* The walk over a function stays within any finite set of places that has *)
(* the entry, what follows its members, and one height for each address;   *)
(* and it goes wherever control may, while some jumps wait.                *)
(***************************************************************************)
LEMMA FlowFacts ==
  ASSUME NEW fs, NEW f, NEW waiting,
         \A p \in Places : Edges(fs, f, p) \subseteq Places,
         NEW P \in SUBSET Places, IsFiniteSet(P), <<0, 1 + f.arity, {}>> \in P,
         \A p \in P : Onward(fs, f, waiting, p) \subseteq P,
         \A p \in P : \A q \in P : p[1] = q[1] => p[2] = q[2]
  PROVE  /\ <<0, 1 + f.arity, {}>> \in FlowSoFar(fs, f, waiting)
         /\ FlowSoFar(fs, f, waiting) \subseteq P
         /\ \A p \in FlowSoFar(fs, f, waiting) : Onward(fs, f, waiting, p) \subseteq FlowSoFar(fs, f, waiting)
<1> DEFINE F(r, n) == Follow(fs, f, waiting, r, n)
           Defines(g) == g = [seen \in (SUBSET Places) \X (SUBSET Places) |->
                                IF F(seen[1], seen[2]) = {} THEN seen[1]
                                ELSE g[<<seen[1] \cup F(seen[1], seen[2]), F(seen[1], seen[2])>>]]
           explore == CHOOSE g : Defines(g)
           entry   == {<<0, 1 + f.arity, {}>>}
<1>1. FlowSoFar(fs, f, waiting) = explore[<<entry, entry>>]
  BY DEF FlowSoFar
<1>2. \A r, n \in SUBSET Places : F(r, n) \in SUBSET Places /\ r \cup F(r, n) \in SUBSET Places
  <2>1. \A p \in Places : Onward(fs, f, waiting, p) \subseteq Places
    BY DEF Onward
  <2> QED
    BY <2>1 DEF Follow
<1>3. \E g : Defines(g)
  <2> DEFINE Z    == (SUBSET Places) \X (SUBSET Places)
             stop == {z \in Z : F(z[1], z[2]) = {}}
             step == [z \in Z |-> <<z[1] \cup F(z[1], z[2]), F(z[1], z[2])>>]
             val  == [z \in Z |-> z[1]]
  <2>1. step \in [Z -> Z]
    <3> HIDE DEF F
    <3> QED
      BY <1>2
  <2>2. \A z \in Z : z \notin stop => val[z] \subseteq val[step[z]]
    <3>1. \A z \in Z : step[z] \in Z /\ step[z][1] = z[1] \cup F(z[1], z[2])
      <4> HIDE DEF F
      <4> QED
        BY <1>2
    <3> HIDE DEF F, step, stop, Z
    <3>2. \A z \in Z : val[z] = z[1]
      OBVIOUS
    <3> QED
      BY <3>1, <3>2
  <2>3. PICK h : Iterates(h, Z, stop, step, val)
    <3> HIDE DEF Z, stop, step, val
    <3> QED
      BY <2>1, <2>2, IterationExists
  <2>4. ASSUME NEW z \in Z
        PROVE  h[z] = IF F(z[1], z[2]) = {} THEN z[1] ELSE h[<<z[1] \cup F(z[1], z[2]), F(z[1], z[2])>>]
    <3> HIDE DEF F
    <3>1. (z \in stop <=> F(z[1], z[2]) = {}) /\ val[z] = z[1]
          /\ step[z] = <<z[1] \cup F(z[1], z[2]), F(z[1], z[2])>>
      OBVIOUS
    <3> HIDE DEF Z, stop, step, val
    <3>2. h[z] = IF z \in stop THEN val[z] ELSE h[step[z]]
      BY <2>3 DEF Iterates
    <3> QED
      BY <3>1, <3>2
  <2>5. h = [z \in Z |-> h[z]]
    <3> HIDE DEF Z, stop, step, val
    <3> QED
      BY <2>3 DEF Iterates
  <2>6. Defines(h)
    <3> HIDE DEF F, stop, step, val
    <3> QED
      BY <2>4, <2>5
  <2> QED
    BY <2>6
<1>4. Defines(explore)
  <2> HIDE DEF Defines
  <2> QED
    BY <1>3
<1>5. ASSUME NEW r \in SUBSET Places, NEW n \in SUBSET Places
      PROVE  explore[<<r, n>>] = IF F(r, n) = {} THEN r ELSE explore[<<r \cup F(r, n), F(r, n)>>]
  <2> HIDE DEF explore, F
  <2> QED
    BY <1>4
<1> HIDE DEF explore
<1> DEFINE Sound(r, n) == /\ r \in SUBSET P /\ n \in SUBSET r
                          /\ \A q \in r : q \notin n => Onward(fs, f, waiting, q) \subseteq r
           Walked(r, w) == /\ r \subseteq w /\ w \subseteq P
                           /\ \A q \in w : Onward(fs, f, waiting, q) \subseteq w
<1>6. ASSUME NEW r, NEW n, Sound(r, n)
      PROVE  /\ F(r, n) = (UNION {Onward(fs, f, waiting, q) : q \in n}) \ r
             /\ F(r, n) \subseteq P
             /\ F(r, n) = {} => Walked(r, r)
             /\ Sound(r \cup F(r, n), F(r, n))
  <2> DEFINE E == (UNION {Onward(fs, f, waiting, q) : q \in n}) \ r
             height == [a \in {p[1] : p \in r} |-> (CHOOSE p \in r : p[1] = a)[2]]
  <2>0. /\ r \in SUBSET P /\ n \in SUBSET r
        /\ \A q \in r : q \notin n => Onward(fs, f, waiting, q) \subseteq r
    BY <1>6
  <2>1. E \subseteq P
    BY <2>0
  <2>2. ASSUME NEW p \in E, p[1] \in DOMAIN height PROVE height[p[1]] = p[2]
    <3>1. PICK q \in r : q[1] = p[1]
      BY <2>2
    <3> DEFINE m == CHOOSE x \in r : x[1] = p[1]
    <3>2. m \in r /\ m[1] = p[1]
      BY <3>1
    <3>3. height[p[1]] = m[2]
      BY <2>2
    <3>4. m \in P /\ p \in P
      BY <2>0, <2>1, <3>2
    <3> HIDE DEF m, height, E
    <3> QED
      BY <3>2, <3>3, <3>4
  <2>3. F(r, n) = E
    <3>1. F(r, n) = {p \in E : p[1] \in DOMAIN height => height[p[1]] = p[2]}
      BY DEF Follow
    <3> HIDE DEF F, E, height
    <3> QED
      BY <2>2, <3>1
  <2>4. \A q \in n : Onward(fs, f, waiting, q) \subseteq r \cup E
    OBVIOUS
  <2> HIDE DEF F
  <2>5. E = {} => Walked(r, r)
    BY <2>0, <2>4
  <2>6. Sound(r \cup E, E)
    <3>1. r \cup E \in SUBSET P /\ E \in SUBSET (r \cup E)
      BY <2>0, <2>1
    <3>2. \A q \in r \cup E : q \notin E => Onward(fs, f, waiting, q) \subseteq r \cup E
      <4> HIDE DEF E
      <4> QED
        BY <2>0, <2>4
    <3> HIDE DEF E
    <3> QED
      BY <3>1, <3>2
  <2> QED
    BY <2>1, <2>3, <2>5, <2>6
<1> DEFINE N == {k \in Nat : \A r, n : Sound(r, n) /\ Cardinality(P \ r) <= k => Walked(r, explore[<<r, n>>])}
<1>7. ASSUME NEW r, NEW n, Sound(r, n), F(r, n) # {}
      PROVE  /\ Cardinality(P \ r) \in Nat
             /\ Cardinality(P \ (r \cup F(r, n))) \in Nat
             /\ Cardinality(P \ (r \cup F(r, n))) < Cardinality(P \ r)
  <2> DEFINE A == P \ r
             B == P \ (r \cup F(r, n))
  <2>1. B \subseteq A /\ B # A
    <3>1. F(r, n) \subseteq P /\ F(r, n) \cap r = {} /\ F(r, n) # {}
      <4>1. /\ F(r, n) = (UNION {Onward(fs, f, waiting, q) : q \in n}) \ r
            /\ F(r, n) \subseteq P /\ F(r, n) # {}
        BY <1>6, <1>7
      <4> HIDE DEF F
      <4> QED
        BY <4>1
    <3> HIDE DEF F
    <3> QED
      BY <3>1
  <2>2. IsFiniteSet(A)
    BY FS_Subset
  <2> HIDE DEF A, B
  <2>3. /\ Cardinality(B) <= Cardinality(A) /\ Cardinality(A) # Cardinality(B)
        /\ IsFiniteSet(B)
    BY <2>1, <2>2, FS_Subset
  <2>4. Cardinality(A) \in Nat /\ Cardinality(B) \in Nat
    BY <2>2, <2>3, FS_CardinalityType
  <2>5. Cardinality(A) \in Nat /\ Cardinality(B) \in Nat /\ Cardinality(B) < Cardinality(A)
    BY <2>3, <2>4
  <2> QED
    BY <2>5 DEF A, B
<1>8. ASSUME NEW r, NEW n, Sound(r, n)
      PROVE  /\ F(r, n) = {} => Walked(r, explore[<<r, n>>])
             /\ F(r, n) # {} => explore[<<r, n>>] = explore[<<r \cup F(r, n), F(r, n)>>]
  <2>1. r \in SUBSET Places /\ n \in SUBSET Places
    BY <1>8
  <2>2. F(r, n) = {} => Walked(r, r)
    <3> HIDE DEF F, Sound, Walked
    <3> QED
      BY <1>6, <1>8
  <2> HIDE DEF F, Walked, Sound
  <2> QED
    BY <1>5, <2>1, <2>2
<1>9. ASSUME NEW k \in Nat, \A j \in 0 .. k - 1 : j \in N PROVE k \in N
  <2> SUFFICES ASSUME NEW r, NEW n, Sound(r, n), Cardinality(P \ r) <= k
               PROVE  Walked(r, explore[<<r, n>>])
    OBVIOUS
  <2>1. CASE F(r, n) = {}
    <3> HIDE DEF F, Sound, Walked
    <3> QED
      BY <1>8, <2>1
  <2>2. CASE F(r, n) # {}
    <3> DEFINE m == Cardinality(P \ (r \cup F(r, n)))
    <3>1. m \in Nat /\ m < k
      <4>1. Cardinality(P \ r) \in Nat /\ m \in Nat /\ m < Cardinality(P \ r)
        <5> HIDE DEF F, Sound
        <5> QED
          BY <1>7, <2>2
      <4> HIDE DEF m
      <4> QED
        BY <4>1
    <3>2. m \in N
      <4> HIDE DEF m, N
      <4> QED
        BY <1>9, <3>1
    <3>3. Sound(r \cup F(r, n), F(r, n))
      <4> HIDE DEF F, Sound
      <4> QED
        BY <1>6
    <3>4. Walked(r \cup F(r, n), explore[<<r \cup F(r, n), F(r, n)>>])
      <4> HIDE DEF Walked, Sound, F
      <4>1. m <= m
        BY <3>1
      <4> QED
        BY <3>2, <3>3, <4>1
    <3>5. explore[<<r, n>>] = explore[<<r \cup F(r, n), F(r, n)>>]
      <4> HIDE DEF F, Sound, Walked
      <4> QED
        BY <1>8, <2>2
    <3> HIDE DEF F, m, N, Sound
    <3> QED
      BY <3>4, <3>5
  <2> QED
    BY <2>1, <2>2
<1>10. Nat \subseteq N
  <2> DEFINE M == {k \in Nat : \A j \in 0 .. k : j \in N}
  <2> HIDE DEF N
  <2>1. 0 \in M
    BY <1>9
  <2>2. \A k \in Nat : k \in M => k + 1 \in M
    BY <1>9
  <2>3. Nat \subseteq M
    <3> HIDE DEF M
    <3> QED
      BY <2>1, <2>2, Induction
  <2> QED
    BY <2>3
<1>11. Sound(entry, entry)
  OBVIOUS
<1>12. Walked(entry, explore[<<entry, entry>>])
  <2>1. Cardinality(P \ entry) \in Nat
    BY FS_Subset, FS_CardinalityType
  <2> DEFINE k == Cardinality(P \ entry)
  <2>2. k \in N /\ k <= k
    <3> HIDE DEF N
    <3> QED
      BY <1>10, <2>1
  <2> HIDE DEF Walked, Sound
  <2> QED
    BY <1>11, <2>2
<1> QED
  BY <1>1, <1>12

-----------------------------------------------------------------------------
(* The tables of the instructions *)

(* The tables of the instructions. *)
LEMMA CodesFacts ==
  /\ \A b \in DOMAIN Named : Named[b] \in OpCode
  /\ \A op \in OpCode : Operands[op] \in 0 .. 2
  /\ \A op \in OpCode : Code[op] \in DOMAIN Named /\ Named[Code[op]] = op /\ Code[op] \in Nat
<1>1. Len(OpCodes) = 30
  BY DEF OpCodes
<1>2. DOMAIN OpCodes = 1 .. 30
  BY DEF OpCodes
<1>3. ASSUME NEW b \in DOMAIN Named PROVE Named[b] \in OpCode
  <2> HIDE DEF OpCodes
  <2>1. b \in 0 .. 30 - 1
    BY <1>1 DEF Named
  <2>2. b + 1 \in DOMAIN OpCodes /\ Named[b] = OpCodes[b + 1]
    BY <1>1, <1>2, <2>1 DEF Named
  <2> QED
    BY <2>2 DEF OpCode
<1>4. ASSUME NEW op \in OpCode PROVE Operands[op] \in 0 .. 2
  BY DEF Operands
<1>5. ASSUME NEW op \in OpCode
      PROVE  Code[op] \in DOMAIN Named /\ Named[Code[op]] = op /\ Code[op] \in Nat
  <2> HIDE DEF OpCodes
  <2> DEFINE i == CHOOSE j \in DOMAIN OpCodes : OpCodes[j] = op
  <2>1. i \in DOMAIN OpCodes /\ OpCodes[i] = op
    BY DEF OpCode
  <2>2. Code[op] = i - 1
    BY DEF Code
  <2> HIDE DEF i
  <2>3. i \in 1 .. 30
    BY <1>2, <2>1
  <2>4. Code[op] \in 0 .. 29 /\ Code[op] + 1 = i
    BY <2>2, <2>3
  <2>5. DOMAIN Named = 0 .. 29 /\ \A b \in 0 .. 29 : Named[b] = OpCodes[b + 1]
    BY <1>1 DEF Named
  <2> QED
    BY <2>1, <2>4, <2>5
<1> QED
  BY <1>3, <1>4, <1>5

(* Instructions that have operands. *)
OneOperand == {"OP_CONSTANT", "OP_GET_LOCAL", "OP_SET_LOCAL", "OP_GET_GLOBAL",
               "OP_DEFINE_GLOBAL", "OP_SET_GLOBAL", "OP_CALL", "OP_CLOSURE",
               "OP_NOOP", "OP_GET_UPVALUE", "OP_SET_UPVALUE"}
Jumps == {"OP_JUMP_IF_FALSE", "OP_JUMP", "OP_LOOP"}

(* How many bytes an instruction's operands take. *)
LEMMA OperandsFacts ==
  ASSUME NEW op \in OpCode
  PROVE  /\ op \in OneOperand => Operands[op] = 1
         /\ op \in Jumps => Operands[op] = 2
         /\ op \notin OneOperand \cup Jumps => Operands[op] = 0
BY DEF Operands, OneOperand, Jumps

(* The instruction at an address is made of numbers. *)
LEMMA InstructionType ==
  ASSUME NEW fs, IsProgram(fs), NEW f \in DOMAIN fs, NEW a, Whole(fs[f], a)
  PROVE  /\ a \in Nat /\ Len(fs[f].code) \in Nat /\ a < Len(fs[f].code)
         /\ a + Operands[OpAt(fs[f], a)] < Len(fs[f].code)
         /\ OpAt(fs[f], a) \in OpCode
         /\ ArgAt(fs[f], a) \in Nat
         /\ Pops(OpAt(fs[f], a), ArgAt(fs[f], a)) \in Nat
         /\ Pushes(OpAt(fs[f], a)) \in {0, 1}
         /\ Size(fs, fs[f], a) \in Nat
         /\ Size(fs, fs[f], a) >= 1 + Operands[OpAt(fs[f], a)]
         /\ OpAt(fs[f], a) # "OP_CLOSURE" => Size(fs, fs[f], a) = 1 + Operands[OpAt(fs[f], a)]
         /\ Operands[OpAt(fs[f], a)] = 2 => Uint16(fs[f].code, a + 1) \in Nat
         /\ Captures(fs, fs[f], a) \subseteq Nat \X Nat
<1> DEFINE F == fs[f]
           op == OpAt(F, a)
           k  == ArgAt(F, a)
<1>1. /\ F.code \in Seq(Nat) /\ Len(F.code) \in Nat
      /\ F.constants \in Seq(Range(F.constants))
      /\ \A v \in Range(F.constants) : IsConstant(fs, v)
  BY LenProperties DEF IsProgram
<1>2. /\ a \in Nat /\ a < Len(F.code) /\ At(F.code, a) \in DOMAIN Named
      /\ a + Operands[op] < Len(F.code)
  BY <1>1 DEF Whole
<1>3. op \in OpCode /\ Operands[op] \in 0 .. 2
  BY <1>2, CodesFacts DEF OpAt
<1>4. \A b \in Nat : b < Len(F.code) => At(F.code, b) \in Nat
  <2> SUFFICES ASSUME NEW b \in Nat, b < Len(F.code) PROVE At(F.code, b) \in Nat
    OBVIOUS
  <2>1. b + 1 \in 1 .. Len(F.code)
    BY <1>1
  <2> HIDE DEF F
  <2> QED
    BY <1>1, <2>1, ElementOfSeq DEF At
<1> HIDE DEF F, op
<1>5. k \in Nat
  <2>1. Operands[op] > 0 => a + 1 < Len(F.code)
    BY <1>1, <1>2, <1>3
  <2>2. k = IF Operands[op] > 0 THEN At(F.code, a + 1) ELSE 0
    BY DEF ArgAt, op
  <2> QED
    BY <1>2, <1>4, <2>1, <2>2
<1> HIDE DEF k
<1>6. Pops(op, k) \in Nat /\ Pushes(op) \in {0, 1}
  BY <1>5 DEF Pops, Pushes
<1> DEFINE known == k < Len(F.constants) /\ IsFun(F.constants[k + 1])
           n     == IF known THEN fs[F.constants[k + 1].fun].upvalue_count ELSE 0
<1>7. n \in Nat
  <2> SUFFICES ASSUME known PROVE fs[F.constants[k + 1].fun].upvalue_count \in Nat
    OBVIOUS
  <2>1. Len(F.constants) \in Nat
    BY <1>1, LenProperties
  <2>2. k + 1 \in 1 .. Len(F.constants)
    BY <1>5, <2>1
  <2>3. F.constants[k + 1] \in Range(F.constants)
    BY <1>1, <2>2, ElementOfSeq
  <2>4. IsConstant(fs, F.constants[k + 1]) /\ IsFun(F.constants[k + 1])
    BY <1>1, <2>3
  <2>5. F.constants[k + 1] \in [fun : DOMAIN fs]
    BY <2>4 DEF IsConstant, IsFun, IsNum, IsStr
  <2> QED
    BY <2>5 DEF IsProgram
<1>8. Size(fs, F, a) = 1 + Operands[op] + (IF op = "OP_CLOSURE" THEN 2 * n ELSE 0)
  <2> HIDE DEF n
  <2>1. op = "OP_CLOSURE" => Size(fs, F, a) = 1 + Operands[op] + (IF known THEN 2 * n ELSE 0)
    BY DEF Size, op, k, n
  <2>2. ~known => n = 0
    BY DEF n
  <2>3. op # "OP_CLOSURE" => Size(fs, F, a) = 1 + Operands[op] + 0
    BY DEF Size, op
  <2> HIDE DEF known
  <2> QED
    BY <1>3, <1>7, <2>1, <2>2, <2>3
<1>9. Captures(fs, F, a) \subseteq Nat \X Nat
  <2>1. Captures(fs, F, a) = {<<At(F.code, a + 2 + 2 * i), At(F.code, a + 3 + 2 * i)>> :
                                 i \in {j \in 0 .. n - 1 : a + 3 + 2 * j < Len(F.code)}}
    BY DEF Captures, k
  <2> HIDE DEF n
  <2>2. \A i \in 0 .. n - 1 : a + 3 + 2 * i < Len(F.code) =>
          At(F.code, a + 2 + 2 * i) \in Nat /\ At(F.code, a + 3 + 2 * i) \in Nat
    <3> SUFFICES ASSUME NEW i \in 0 .. n - 1, a + 3 + 2 * i < Len(F.code)
                 PROVE  At(F.code, a + 2 + 2 * i) \in Nat /\ At(F.code, a + 3 + 2 * i) \in Nat
      OBVIOUS
    <3> DEFINE b == a + 2 + 2 * i
    <3>1. b \in Nat /\ b + 1 \in Nat /\ b + 1 < Len(F.code) /\ b < Len(F.code) /\ b + 1 = a + 3 + 2 * i
      BY <1>1, <1>2, <1>7
    <3> HIDE DEF b
    <3>2. At(F.code, b) \in Nat /\ At(F.code, b + 1) \in Nat
      BY <1>4, <3>1
    <3> QED
      BY <3>1, <3>2 DEF b
  <2> QED
    BY <2>1, <2>2
<1>10. Operands[op] = 2 => Uint16(F.code, a + 1) \in Nat
  <2> HAVE Operands[op] = 2
  <2>1. a + 1 \in Nat /\ a + 1 < Len(F.code) /\ a + 2 \in Nat /\ a + 2 < Len(F.code) /\ a + 1 + 1 = a + 2
    BY <1>1, <1>2
  <2>2. At(F.code, a + 1) \in Nat /\ At(F.code, a + 2) \in Nat
    BY <1>4, <2>1
  <2>3. UINT8_MAX + 1 \in Nat
    BY ByteAssumption
  <2> QED
    BY <2>1, <2>2, <2>3 DEF Uint16
<1> HIDE DEF n
<1>11. /\ Size(fs, F, a) \in Nat /\ Size(fs, F, a) >= 1 + Operands[op]
       /\ op # "OP_CLOSURE" => Size(fs, F, a) = 1 + Operands[op]
  BY <1>3, <1>7, <1>8
<1> QED
  BY <1>1, <1>2, <1>3, <1>5, <1>6, <1>9, <1>10, <1>11 DEF F, op, k

(* What follows a place is a place. *)
LEMMA EdgesType ==
  ASSUME NEW fs, IsProgram(fs), NEW f \in DOMAIN fs, NEW p \in Places
  PROVE  Edges(fs, fs[f], p) \subseteq Places
<1> DEFINE F == fs[f]
           a == p[1]
           op == OpAt(F, a)
<1>1. CASE ~Whole(F, a)
  BY <1>1 DEF Edges
<1>2. CASE Whole(F, a)
  <2>1. /\ a \in Nat /\ op \in OpCode /\ Pops(op, ArgAt(F, a)) \in Nat /\ Pushes(op) \in {0, 1}
        /\ Size(fs, F, a) \in Nat
        /\ Operands[op] = 2 => Uint16(F.code, a + 1) \in Nat
        /\ Captures(fs, F, a) \subseteq Nat \X Nat
    BY <1>2, InstructionType
  <2> DEFINE height == p[2] - Pops(op, ArgAt(F, a)) + Pushes(op)
             captured == {c[2] : c \in {d \in Captures(fs, F, a) : d[1] # 0}}
             open == CASE op = "OP_CLOSURE" -> p[3] \cup captured
                       [] op = "OP_CLOSE_UPVALUE" -> p[3] \ {p[2] - 1}
                       [] OTHER -> p[3]
  <2>2. height \in Int
    <3>1. p[2] \in Int
      BY DEF Places
    <3> HIDE DEF a, op
    <3> QED
      BY <2>1, <3>1
  <2>3. captured \subseteq Int
    <3> HIDE DEF a, op, F
    <3> QED
      BY <2>1
  <2>4. open \in SUBSET Int
    <3>1. p[3] \in SUBSET Int
      BY DEF Places
    <3> HIDE DEF a, op, F, captured
    <3> QED
      BY <2>3, <3>1
  <2>5. Successors(fs, F, a) \subseteq Int
    <3>1. op \in {"OP_JUMP", "OP_LOOP", "OP_JUMP_IF_FALSE"} => Operands[op] = 2
      BY <2>1, OperandsFacts DEF Jumps
    <3> HIDE DEF a, F
    <3> QED
      BY <2>1, <3>1 DEF Successors
  <2>6. Edges(fs, F, p) = {<<b, height, open>> : b \in Successors(fs, F, a)}
    BY <1>2 DEF Edges
  <2>7. Edges(fs, F, p) \subseteq Places
    <3> SUFFICES ASSUME NEW q \in Edges(fs, F, p) PROVE q \in Places
      OBVIOUS
    <3> HIDE DEF height, open
    <3>1. PICK b \in Successors(fs, F, a) : q = <<b, height, open>>
      BY <2>6
    <3>2. b \in Int
      BY <2>5
    <3> QED
      BY <2>2, <2>4, <3>1, <3>2 DEF Places
  <2> QED
    BY <2>7
<1> QED
  BY <1>1, <1>2

-----------------------------------------------------------------------------
(* Sheets, and the walk over the code *)

(***************************************************************************)
(* A sheet says for the addresses of a function's instructions what is     *)
(* known of the stack there: its height, how many of the locals in scope   *)
(* were so there, and the slots that closures may have captured.           *)
(***************************************************************************)
IsSheet(y, n) ==
  /\ DOMAIN y \subseteq 0 .. n
  /\ 0 \in DOMAIN y
  /\ \A a \in DOMAIN y : /\ y[a].height \in Nat /\ y[a].scope \in Nat
                         /\ y[a].open \in SUBSET (0 .. y[a].height - 1)

(* What the instruction at address a makes of a height and of captures. *)
HeightAfter(f, a, height) == height - Pops(OpAt(f, a), ArgAt(f, a)) + Pushes(OpAt(f, a))
OpenAfter(fs, f, a, height, open) ==
  CASE OpAt(f, a) = "OP_CLOSURE" ->
         open \cup {c[2] : c \in {d \in Captures(fs, f, a) : d[1] # 0}}
    [] OpAt(f, a) = "OP_CLOSE_UPVALUE" -> open \ {height - 1}
    [] OTHER -> open

(* Control may go from a to b: what is known there allows for it. *)
Leads(fs, f, y, a, b) ==
  /\ b \in DOMAIN y
  /\ y[b].height = HeightAfter(f, a, y[a].height)
  /\ OpenAfter(fs, f, a, y[a].height, y[a].open) \subseteq y[b].open
  /\ y[a].scope <= y[b].scope

(* The instruction at a, but for where it leads. *)
Sound(fs, i, y, a) ==
  LET f    == fs[i]
      op   == OpAt(f, a)
      pops == Pops(op, ArgAt(f, a))
      h    == y[a].height
  IN  /\ Whole(f, a)
      /\ a + Size(fs, f, a) <= Len(f.code)
      /\ \A b \in DOMAIN y : b > a => b >= a + Size(fs, f, a)
      /\ OperandsValid(fs, f, a, h)
      /\ h > pops
      /\ op = "OP_RETURN" /\ i = 1 => h = 2
      /\ op \notin {"OP_RETURN", "OP_CLOSE_UPVALUE"} => y[a].open \cap h - pops .. h - 1 = {}
      /\ y[a].scope <= h - pops

(* It leads to what comes next, and to where it jumps unless the jump is pending. *)
LeadsOn(fs, f, y, pending, a) ==
  LET op   == OpAt(f, a)
      fall == a + Size(fs, f, a)
  IN  /\ op \notin {"OP_RETURN", "OP_JUMP", "OP_LOOP"} => Leads(fs, f, y, a, fall)
      /\ op \in {"OP_JUMP", "OP_JUMP_IF_FALSE"} /\ a \notin pending =>
           Leads(fs, f, y, a, fall + Uint16(f.code, a + 1))
      /\ op = "OP_LOOP" => Leads(fs, f, y, a, fall - Uint16(f.code, a + 1))

Good(fs, i, y, pending, a) == Sound(fs, i, y, a) /\ LeadsOn(fs, fs[i], y, pending, a)

(* A function that is complete. *)
Finished(fs, i) ==
  /\ i = 1 => fs[i].arity = 0 /\ fs[i].upvalue_count = 0
  /\ \E y : /\ IsSheet(y, Len(fs[i].code))
            /\ y[0].height = 1 + fs[i].arity
            /\ \A a \in DOMAIN y : Good(fs, i, y, {}, a)

(* What is known of an address holds of where the code may go on from it. *)
LEMMA LeadsAsEdges ==
  ASSUME NEW fs, IsProgram(fs), NEW i \in DOMAIN fs, NEW y, NEW a \in DOMAIN y,
         Good(fs, i, y, {}, a), NEW b \in Successors(fs, fs[i], a)
  PROVE  Leads(fs, fs[i], y, a, b)
BY DEF Good, LeadsOn, Successors

(* The image of a finite set is finite. *)
LEMMA ImageFinite ==
  ASSUME NEW S, IsFiniteSet(S), NEW g
  PROVE  IsFiniteSet({g[x] : x \in S})
<1> DEFINE T == {g[x] : x \in S}
           h == [x \in S |-> g[x]]
<1>1. h \in Surjection(S, T)
  BY DEF Surjection
<1> HIDE DEF T, h
<1>2. IsFiniteSet(T)
  BY <1>1, FS_Surjection
<1> QED
  BY <1>2 DEF T

(* There are finitely many addresses. *)
LEMMA IntervalFinite ==
  ASSUME NEW n \in Int
  PROVE  IsFiniteSet(0 .. n)
BY FS_Interval

(* The places that a sheet allows for. *)
PlacesOn(y) ==
  {p \in Places : p[1] \in DOMAIN y /\ p[2] = y[p[1]].height /\ p[3] \subseteq y[p[1]].open}

(* They are finitely many. *)
LEMMA PlacesFinite ==
  ASSUME NEW n \in Nat, NEW y, IsSheet(y, n)
  PROVE  IsFiniteSet(PlacesOn(y))
<1> DEFINE At_(a) == {a} \X {y[a].height} \X SUBSET (0 .. y[a].height - 1)
           all    == UNION {At_(a) : a \in DOMAIN y}
           P      == {p \in all : p[3] \subseteq y[p[1]].open}
<1>1. P = {p \in Places : p[1] \in DOMAIN y /\ p[2] = y[p[1]].height /\ p[3] \subseteq y[p[1]].open}
  <2>1. \A a \in DOMAIN y : a \in Int /\ y[a].height \in Int /\ y[a].open \subseteq 0 .. y[a].height - 1
        /\ 0 .. y[a].height - 1 \subseteq Int
    BY DEF IsSheet
  <2>2. ASSUME NEW p \in P
        PROVE  p \in Places /\ p[1] \in DOMAIN y /\ p[2] = y[p[1]].height /\ p[3] \subseteq y[p[1]].open
    <3>1. PICK a \in DOMAIN y : p \in At_(a)
      OBVIOUS
    <3>2. p[1] = a /\ p[2] = y[a].height /\ p[3] \in SUBSET (0 .. y[a].height - 1)
          /\ p = <<p[1], p[2], p[3]>>
      BY <3>1
    <3> QED
      BY <2>1, <3>2 DEF Places
  <2>3. ASSUME NEW p \in Places, p[1] \in DOMAIN y, p[2] = y[p[1]].height, p[3] \subseteq y[p[1]].open
        PROVE  p \in P
    <3>1. p = <<p[1], p[2], p[3]>>
      BY DEF Places
    <3>2. p \in At_(p[1])
      BY <2>1, <2>3, <3>1
    <3> QED
      BY <2>3, <3>2
  <2> HIDE DEF P
  <2> QED
    BY <2>2, <2>3
<1>2. IsFiniteSet(P)
  <2>1. IsFiniteSet(DOMAIN y)
    <3>1. IsFiniteSet(0 .. n)
      BY IntervalFinite
    <3> QED
      BY <3>1, FS_Subset DEF IsSheet
  <2>2. \A a \in DOMAIN y : IsFiniteSet(At_(a))
    <3> SUFFICES ASSUME NEW a \in DOMAIN y PROVE IsFiniteSet(At_(a))
      OBVIOUS
    <3>1. y[a].height \in Nat
      BY DEF IsSheet
    <3>2. IsFiniteSet(0 .. y[a].height - 1)
      BY <3>1, IntervalFinite
    <3>3. IsFiniteSet(SUBSET (0 .. y[a].height - 1))
      BY <3>2, FS_SUBSET
    <3> DEFINE T == SUBSET (0 .. y[a].height - 1)
               g == [t \in T |-> <<a, y[a].height, t>>]
    <3>4. \A t \in T : g[t] = <<a, y[a].height, t>>
      OBVIOUS
    <3>5. IsFiniteSet({g[t] : t \in T})
      <4> HIDE DEF g
      <4>1. IsFiniteSet(T)
        BY <3>3
      <4> HIDE DEF T
      <4> QED
        BY <4>1, ImageFinite
    <3>6. At_(a) \subseteq {g[t] : t \in T}
      <4> SUFFICES ASSUME NEW p \in At_(a) PROVE p \in {g[t] : t \in T}
        OBVIOUS
      <4>1. p[3] \in T /\ p = <<a, y[a].height, p[3]>>
        OBVIOUS
      <4> HIDE DEF T, g, At_
      <4>2. p = g[p[3]]
        BY <3>4, <4>1
      <4> QED
        BY <4>1, <4>2
    <3> HIDE DEF At_, g, T
    <3> QED
      BY <3>5, <3>6, FS_Subset
  <2>3. IsFiniteSet({At_(a) : a \in DOMAIN y})
    <3> DEFINE g == [a \in DOMAIN y |-> At_(a)]
    <3>1. {At_(a) : a \in DOMAIN y} = {g[a] : a \in DOMAIN y}
      OBVIOUS
    <3>2. IsFiniteSet({g[a] : a \in DOMAIN y})
      <4> HIDE DEF g
      <4> QED
        BY <2>1, ImageFinite
    <3> QED
      BY <3>1, <3>2
  <2>4. IsFiniteSet(all)
    <3> DEFINE sets == {At_(a) : a \in DOMAIN y}
    <3>1. \A S \in sets : IsFiniteSet(S)
      BY <2>2
    <3>2. IsFiniteSet(sets)
      BY <2>3
    <3> HIDE DEF sets
    <3>3. IsFiniteSet(UNION sets)
      BY <3>1, <3>2, FS_UNION
    <3> QED
      BY <3>3 DEF sets
  <2>5. P \subseteq all
    OBVIOUS
  <2> HIDE DEF all, P
  <2> QED
    BY <2>4, <2>5, FS_Subset
<1> QED
  BY <1>1, <1>2 DEF PlacesOn

(* What follows a place. *)
LEMMA EdgeFacts ==
  ASSUME NEW fs, IsProgram(fs), NEW i \in DOMAIN fs, NEW p \in Places, NEW q \in Edges(fs, fs[i], p)
  PROVE  /\ q \in Places /\ Whole(fs[i], p[1]) /\ q[1] \in Successors(fs, fs[i], p[1])
         /\ q[2] = HeightAfter(fs[i], p[1], p[2])
         /\ q[3] = OpenAfter(fs, fs[i], p[1], p[2], p[3])
<1> DEFINE f == fs[i]
           a == p[1]
           open == OpenAfter(fs, f, a, p[2], p[3])
<1>1. Whole(f, a)
  BY DEF Edges
<1>2. Edges(fs, f, p) = {<<b, HeightAfter(f, a, p[2]), open>> : b \in Successors(fs, f, a)}
  BY <1>1 DEF Edges, HeightAfter, OpenAfter
<1>3. q \in Places
  BY EdgesType
<1> HIDE DEF open, a, f
<1>4. PICK b \in Successors(fs, f, a) : q = <<b, HeightAfter(f, a, p[2]), open>>
  BY <1>2 DEF f
<1>5. q[1] = b /\ q[2] = HeightAfter(f, a, p[2]) /\ q[3] = open
  BY <1>4
<1> QED
  BY <1>1, <1>3, <1>5 DEF open, a, f

(* Control stays on the sheet where the sheet says that it does. *)
LEMMA EdgesOn ==
  ASSUME NEW fs, IsProgram(fs), NEW i \in DOMAIN fs, NEW y, NEW p \in PlacesOn(y),
         NEW q \in Edges(fs, fs[i], p), Leads(fs, fs[i], y, p[1], q[1])
  PROVE  q \in PlacesOn(y)
<1> DEFINE f == fs[i]
           a == p[1]
<1>1. p \in Places /\ a \in DOMAIN y /\ p[2] = y[a].height /\ p[3] \subseteq y[a].open
  BY DEF PlacesOn
<1>2. /\ q \in Places /\ q[2] = HeightAfter(f, a, p[2])
      /\ q[3] = OpenAfter(fs, f, a, p[2], p[3])
  BY <1>1, EdgeFacts
<1>3. OpenAfter(fs, f, a, p[2], p[3]) \subseteq OpenAfter(fs, f, a, p[2], y[a].open)
  BY <1>1 DEF OpenAfter
<1>4. /\ q[1] \in DOMAIN y /\ y[q[1]].height = HeightAfter(f, a, p[2])
      /\ OpenAfter(fs, f, a, p[2], y[a].open) \subseteq y[q[1]].open
  BY <1>1 DEF Leads
<1> QED
  BY <1>2, <1>3, <1>4 DEF PlacesOn

(* A function whose code is complete is verified: the heights that the sheet gives are those that
   the stack has on every path. *)
LEMMA FinishedIsVerified ==
  ASSUME NEW fs, IsProgram(fs), NEW i \in DOMAIN fs, Finished(fs, i)
  PROVE  Verified(fs, i)
<1> DEFINE f == fs[i]
           n == Len(f.code)
<1>1. PICK y : /\ IsSheet(y, n)
               /\ y[0].height = 1 + f.arity
               /\ \A a \in DOMAIN y : Good(fs, i, y, {}, a)
  BY DEF Finished
<1>2. n \in Nat /\ f.arity \in Nat
  BY LenProperties DEF IsProgram
<1> DEFINE P == PlacesOn(y)
<1>3. P = {p \in Places : p[1] \in DOMAIN y /\ p[2] = y[p[1]].height /\ p[3] \subseteq y[p[1]].open}
  BY DEF PlacesOn
<1>4. IsFiniteSet(P)
  BY <1>1, <1>2, PlacesFinite
<1> HIDE DEF P
<1>5. <<0, 1 + f.arity, {}>> \in P
  BY <1>1, <1>2, <1>3 DEF IsSheet, Places
<1>6. ASSUME NEW p \in P, NEW q \in Edges(fs, f, p) PROVE q \in P
  <2>1. p[1] \in DOMAIN y /\ p \in Places
    BY <1>3
  <2>2. q[1] \in Successors(fs, f, p[1])
    BY <1>6, <2>1, EdgeFacts
  <2>3. Leads(fs, f, y, p[1], q[1])
    BY <1>1, <2>1, <2>2, LeadsAsEdges
  <2> QED
    BY <1>6, <2>3, EdgesOn DEF P
<1>7. \A p \in P : \A q \in P : p[1] = q[1] => p[2] = q[2]
  BY <1>3
<1>8. /\ <<0, 1 + f.arity, {}>> \in Flow(fs, f)
      /\ Flow(fs, f) \subseteq P
      /\ \A p \in Flow(fs, f) : Edges(fs, f, p) \subseteq Flow(fs, f)
  <2>1. \A p \in Places : Edges(fs, f, p) \subseteq Places
    BY EdgesType
  <2>2. P \in SUBSET Places
    BY <1>3
  <2>3. \A p \in Places : Onward(fs, f, {}, p) = Edges(fs, f, p)
    BY DEF Onward
  <2> HIDE DEF f
  <2>4. \A p \in P : Onward(fs, f, {}, p) \subseteq P
    BY <1>6, <2>2, <2>3
  <2>5. /\ <<0, 1 + f.arity, {}>> \in FlowSoFar(fs, f, {})
        /\ FlowSoFar(fs, f, {}) \subseteq P
        /\ \A p \in FlowSoFar(fs, f, {}) : Onward(fs, f, {}, p) \subseteq FlowSoFar(fs, f, {})
    BY <1>4, <1>5, <1>7, <2>1, <2>2, <2>4, FlowFacts
  <2> QED
    BY <2>2, <2>3, <2>5 DEF Flow
<1>9. i = 1 => f.arity = 0 /\ f.upvalue_count = 0
  BY DEF Finished
<1>10. ASSUME NEW p \in Flow(fs, f)
       PROVE  /\ Whole(f, p[1])
              /\ p[1] + Size(fs, f, p[1]) <= Len(f.code)
              /\ OperandsValid(fs, f, p[1], p[2])
              /\ p[2] > Pops(OpAt(f, p[1]), ArgAt(f, p[1]))
              /\ OpAt(f, p[1]) = "OP_RETURN" /\ i = 1 => p[2] = 2
              /\ OpAt(f, p[1]) \notin {"OP_RETURN", "OP_CLOSE_UPVALUE"} =>
                   p[3] \cap p[2] - Pops(OpAt(f, p[1]), ArgAt(f, p[1])) .. p[2] - 1 = {}
  <2>1. p[1] \in DOMAIN y /\ p[2] = y[p[1]].height /\ p[3] \subseteq y[p[1]].open
    BY <1>3, <1>8
  <2>2. Sound(fs, i, y, p[1])
    BY <1>1, <2>1 DEF Good
  <2> QED
    BY <2>1, <2>2 DEF Sound
<1>11. \A p \in Flow(fs, f) : \A q \in Flow(fs, f) : q[1] = p[1] => q[2] = p[2]
  BY <1>7, <1>8
<1> QED
  BY <1>8, <1>9, <1>10, <1>11 DEF Verified

-----------------------------------------------------------------------------
(* Code, constants and upvalues are added *)

(* A function may gain constants and upvalues. *)
Extends(f, g) ==
  /\ Len(f.constants) <= Len(g.constants)
  /\ \A j \in DOMAIN f.constants : g.constants[j] = f.constants[j]
  /\ f.upvalue_count <= g.upvalue_count

(* The functions that a chunk's constants refer to have as many upvalues. *)
SameClosures(fs, gs, i) ==
  \A j \in DOMAIN fs[i].constants :
    IsFun(fs[i].constants[j]) =>
      gs[fs[i].constants[j].fun].upvalue_count = fs[fs[i].constants[j].fun].upvalue_count

(* The n bytes from a on are the same. *)
SameBytes(f, g, a, n) ==
  /\ a + n <= Len(g.code)
  /\ \A b \in a .. a + n - 1 : At(g.code, b) = At(f.code, b)

(* The types of a function's parts. *)
LEMMA ProgramFacts ==
  ASSUME NEW fs, IsProgram(fs), NEW i \in DOMAIN fs
  PROVE  /\ fs[i].code \in Seq(Nat) /\ Len(fs[i].code) \in Nat
         /\ DOMAIN fs[i].code = 1 .. Len(fs[i].code)
         /\ fs[i].arity \in Nat /\ fs[i].upvalue_count \in Nat
         /\ Len(fs[i].constants) \in Nat /\ DOMAIN fs[i].constants = 1 .. Len(fs[i].constants)
         /\ \A j \in DOMAIN fs[i].constants :
              IsFun(fs[i].constants[j]) => fs[i].constants[j].fun \in DOMAIN fs
<1>1. /\ fs[i].code \in Seq(Nat)
      /\ fs[i].arity \in Nat /\ fs[i].upvalue_count \in Nat
      /\ fs[i].constants \in Seq(Range(fs[i].constants))
      /\ \A v \in Range(fs[i].constants) : IsConstant(fs, v)
  BY DEF IsProgram
<1>2. /\ Len(fs[i].code) \in Nat /\ DOMAIN fs[i].code = 1 .. Len(fs[i].code)
      /\ Len(fs[i].constants) \in Nat /\ DOMAIN fs[i].constants = 1 .. Len(fs[i].constants)
  BY <1>1, LenProperties
<1>3. ASSUME NEW j \in DOMAIN fs[i].constants, IsFun(fs[i].constants[j])
      PROVE  fs[i].constants[j].fun \in DOMAIN fs
  <2> DEFINE v == fs[i].constants[j]
  <2>1. IsConstant(fs, v)
    BY <1>1 DEF Range
  <2> HIDE DEF v
  <2>2. IsFun(v)
    BY <1>3 DEF v
  <2>3. v.fun \in DOMAIN fs
    BY <2>1, <2>2 DEF IsConstant, IsFun, IsNum, IsStr
  <2> QED
    BY <2>3 DEF v
<1> QED
  BY <1>1, <1>2, <1>3

(* An instruction whose bytes are the same is the same. *)
LEMMA InstructionStays ==
  ASSUME NEW fs, IsProgram(fs), NEW gs, IsProgram(gs), NEW i \in DOMAIN fs, i \in DOMAIN gs,
         Extends(fs[i], gs[i]), SameClosures(fs, gs, i),
         NEW y, NEW a, Sound(fs, i, y, a), SameBytes(fs[i], gs[i], a, Size(fs, fs[i], a))
  PROVE  /\ Whole(gs[i], a)
         /\ OpAt(gs[i], a) = OpAt(fs[i], a) /\ ArgAt(gs[i], a) = ArgAt(fs[i], a)
         /\ Size(gs, gs[i], a) = Size(fs, fs[i], a)
         /\ a + Size(gs, gs[i], a) <= Len(gs[i].code)
         /\ OpAt(fs[i], a) = "OP_CLOSURE" => Captures(gs, gs[i], a) = Captures(fs, fs[i], a)
         /\ Operands[OpAt(fs[i], a)] = 2 => Uint16(gs[i].code, a + 1) = Uint16(fs[i].code, a + 1)
         /\ OperandsValid(gs, gs[i], a, y[a].height)
<1> DEFINE f == fs[i]
           g == gs[i]
           op == OpAt(f, a)
           arg == ArgAt(f, a)
           size == Size(fs, f, a)
           h == y[a].height
<1>1. /\ Whole(f, a) /\ a + size <= Len(f.code) /\ OperandsValid(fs, f, a, h)
  BY DEF Sound
<1>2. /\ a \in Nat /\ Len(f.code) \in Nat /\ a < Len(f.code) /\ op \in OpCode /\ arg \in Nat
      /\ size \in Nat /\ size >= 1 + Operands[op]
  BY <1>1, InstructionType
<1>3. Operands[op] \in 0 .. 2
  BY <1>2, CodesFacts
<1>4. /\ a + size <= Len(g.code) /\ \A b \in a .. a + size - 1 : At(g.code, b) = At(f.code, b)
  BY DEF SameBytes
<1>5. /\ Len(g.code) \in Nat /\ Len(g.constants) \in Nat /\ DOMAIN g.constants = 1 .. Len(g.constants)
      /\ g.upvalue_count \in Nat
  BY ProgramFacts
<1>6. /\ Len(f.constants) \in Nat /\ DOMAIN f.constants = 1 .. Len(f.constants)
      /\ f.upvalue_count \in Nat
      /\ \A j \in DOMAIN f.constants : IsFun(f.constants[j]) => f.constants[j].fun \in DOMAIN fs
  BY ProgramFacts
<1>7. /\ Len(f.constants) <= Len(g.constants)
      /\ \A j \in 1 .. Len(f.constants) : g.constants[j] = f.constants[j]
      /\ f.upvalue_count <= g.upvalue_count
  BY <1>6 DEF Extends
<1>8. \A j \in 1 .. Len(f.constants) : IsFun(f.constants[j]) =>
        /\ gs[f.constants[j].fun].upvalue_count = fs[f.constants[j].fun].upvalue_count
        /\ fs[f.constants[j].fun].upvalue_count \in Nat
  BY <1>6, ProgramFacts DEF SameClosures
<1> HIDE DEF f, g
<1>9. OpAt(g, a) = op
  <2>1. At(g.code, a) = At(f.code, a)
    <3> HIDE DEF size, op
    <3> QED
      BY <1>2, <1>3, <1>4
  <2> QED
    BY <2>1 DEF OpAt
<1>10. ArgAt(g, a) = arg
  <2>1. CASE Operands[op] > 0
    <3>1. At(g.code, a + 1) = At(f.code, a + 1)
      <4> HIDE DEF size, op
      <4> QED
        BY <1>2, <1>3, <1>4, <2>1
    <3> QED
      BY <1>9, <3>1 DEF ArgAt
  <2>2. CASE ~(Operands[op] > 0)
    BY <1>9, <2>2 DEF ArgAt
  <2> QED
    BY <2>1, <2>2
<1>11. Whole(g, a)
  <2>1. At(f.code, a) \in DOMAIN Named
    BY <1>1 DEF Whole
  <2>2. At(g.code, a) = At(f.code, a) /\ a \in 0 .. Len(g.code) - 1 /\ a + Operands[op] < Len(g.code)
    <3> HIDE DEF size, op
    <3> QED
      BY <1>2, <1>3, <1>4, <1>5
  <2> QED
    BY <1>9, <2>1, <2>2 DEF Whole
<1>12. op \in {"OP_CONSTANT", "OP_GET_GLOBAL", "OP_SET_GLOBAL", "OP_DEFINE_GLOBAL", "OP_CLOSURE"} =>
         /\ arg < Len(f.constants) /\ arg < Len(g.constants)
         /\ g.constants[arg + 1] = f.constants[arg + 1] /\ arg + 1 \in 1 .. Len(f.constants)
  <2>1. op \in {"OP_CONSTANT", "OP_GET_GLOBAL", "OP_SET_GLOBAL", "OP_DEFINE_GLOBAL", "OP_CLOSURE"} =>
          arg < Len(f.constants)
    BY <1>1 DEF OperandsValid
  <2> HIDE DEF op, arg
  <2> QED
    BY <1>2, <1>5, <1>6, <1>7, <2>1
<1>13. op = "OP_CLOSURE" =>
         /\ IsFun(f.constants[arg + 1])
         /\ gs[f.constants[arg + 1].fun].upvalue_count = fs[f.constants[arg + 1].fun].upvalue_count
         /\ fs[f.constants[arg + 1].fun].upvalue_count \in Nat
  <2>1. op = "OP_CLOSURE" => IsFun(f.constants[arg + 1])
    BY <1>1 DEF OperandsValid
  <2> HIDE DEF op, arg
  <2> QED
    BY <1>8, <1>12, <2>1
<1>14. Size(gs, g, a) = size
  BY <1>9, <1>10, <1>12, <1>13 DEF Size
<1>15. op = "OP_CLOSURE" => Captures(gs, g, a) = Captures(fs, f, a)
  <2> SUFFICES ASSUME op = "OP_CLOSURE" PROVE Captures(gs, g, a) = Captures(fs, f, a)
    OBVIOUS
  <2> DEFINE n == fs[f.constants[arg + 1].fun].upvalue_count
  <2>1. n \in Nat /\ gs[f.constants[arg + 1].fun].upvalue_count = n
    BY <1>13
  <2>2. size = 2 + 2 * n
    <3>1. Operands["OP_CLOSURE"] = 1
      BY <1>2, OperandsFacts DEF OneOperand
    <3>2. size = 1 + Operands[op] + 2 * n
      BY <1>12, <1>13 DEF Size
    <3> HIDE DEF n
    <3> QED
      BY <2>1, <3>1, <3>2
  <2>3. Captures(fs, f, a) = {<<At(f.code, a + 2 + 2 * j), At(f.code, a + 3 + 2 * j)>> :
                                j \in {k \in 0 .. n - 1 : a + 3 + 2 * k < Len(f.code)}}
    BY <1>12, <1>13 DEF Captures
  <2>4. Captures(gs, g, a) = {<<At(g.code, a + 2 + 2 * j), At(g.code, a + 3 + 2 * j)>> :
                                j \in {k \in 0 .. n - 1 : a + 3 + 2 * k < Len(g.code)}}
    BY <1>10, <1>12, <1>13 DEF Captures
  <2> HIDE DEF n, size, op, arg
  <2>5. \A j \in 0 .. n - 1 :
          /\ a + 3 + 2 * j < Len(f.code) /\ a + 3 + 2 * j < Len(g.code)
          /\ At(g.code, a + 2 + 2 * j) = At(f.code, a + 2 + 2 * j)
          /\ At(g.code, a + 3 + 2 * j) = At(f.code, a + 3 + 2 * j)
    BY <1>1, <1>2, <1>4, <1>5, <2>1, <2>2
  <2>6. {k \in 0 .. n - 1 : a + 3 + 2 * k < Len(f.code)} = 0 .. n - 1
        /\ {k \in 0 .. n - 1 : a + 3 + 2 * k < Len(g.code)} = 0 .. n - 1
    BY <2>5
  <2> QED
    BY <2>3, <2>4, <2>5, <2>6
<1>16. Operands[op] = 2 => Uint16(g.code, a + 1) = Uint16(f.code, a + 1)
  <2> SUFFICES ASSUME Operands[op] = 2 PROVE Uint16(g.code, a + 1) = Uint16(f.code, a + 1)
    OBVIOUS
  <2>1. At(g.code, a + 1) = At(f.code, a + 1) /\ At(g.code, a + 1 + 1) = At(f.code, a + 1 + 1)
    <3> HIDE DEF size, op
    <3> QED
      BY <1>2, <1>4
  <2> QED
    BY <2>1 DEF Uint16
<1>17. OperandsValid(gs, g, a, h)
  <2>1. CASE op \in {"OP_CONSTANT", "OP_GET_GLOBAL", "OP_SET_GLOBAL", "OP_DEFINE_GLOBAL"}
    BY <1>1, <1>9, <1>10, <1>12, <2>1 DEF OperandsValid
  <2>2. CASE op \in {"OP_GET_LOCAL", "OP_SET_LOCAL"}
    BY <1>1, <1>9, <1>10, <2>2 DEF OperandsValid
  <2>3. CASE op \in {"OP_GET_UPVALUE", "OP_SET_UPVALUE"}
    <3>1. arg < f.upvalue_count
      BY <1>1, <2>3 DEF OperandsValid
    <3>2. arg < g.upvalue_count
      <4> HIDE DEF arg
      <4> QED
        BY <1>2, <1>5, <1>6, <1>7, <3>1
    <3> QED
      BY <1>9, <1>10, <2>3, <3>2 DEF OperandsValid
  <2>4. CASE op = "OP_CLOSURE"
    <3>1. \A c \in Captures(fs, f, a) : IF c[1] # 0 THEN c[2] \in 1 .. h ELSE c[2] < f.upvalue_count
      BY <1>1, <2>4 DEF OperandsValid
    <3>2. Captures(fs, f, a) \subseteq Nat \X Nat
      BY <1>1, InstructionType DEF f
    <3>3. \A c \in Captures(fs, f, a) : IF c[1] # 0 THEN c[2] \in 1 .. h ELSE c[2] < g.upvalue_count
      <4> HIDE DEF h
      <4> QED
        BY <1>5, <1>6, <1>7, <3>1, <3>2
    <3> QED
      BY <1>9, <1>10, <1>12, <1>13, <1>15, <2>4, <3>3 DEF OperandsValid
  <2>5. CASE op \notin {"OP_CONSTANT", "OP_GET_GLOBAL", "OP_SET_GLOBAL", "OP_DEFINE_GLOBAL",
                        "OP_GET_LOCAL", "OP_SET_LOCAL", "OP_GET_UPVALUE", "OP_SET_UPVALUE", "OP_CLOSURE"}
    BY <1>9, <2>5 DEF OperandsValid
  <2> QED
    BY <2>1, <2>2, <2>3, <2>4, <2>5
<1> QED
  BY <1>4, <1>9, <1>10, <1>11, <1>14, <1>15, <1>16, <1>17 DEF f, g

(* What is known of an address stays true when code, constants and upvalues are added. *)
LEMMA GoodStays ==
  ASSUME NEW fs, IsProgram(fs), NEW gs, IsProgram(gs), NEW i \in DOMAIN fs, i \in DOMAIN gs,
         Extends(fs[i], gs[i]), SameClosures(fs, gs, i),
         NEW y, NEW pending, NEW a \in DOMAIN y, Good(fs, i, y, pending, a),
         SameBytes(fs[i], gs[i], a, Size(fs, fs[i], a)),
         NEW z, DOMAIN y \subseteq DOMAIN z, \A b \in DOMAIN y : z[b] = y[b],
         \A b \in DOMAIN z \ DOMAIN y : b >= a + Size(fs, fs[i], a),
         NEW later, a \in pending => a \in later
  PROVE  Good(gs, i, z, later, a)
<1> DEFINE f == fs[i]
           g == gs[i]
           op == OpAt(f, a)
           size == Size(fs, f, a)
<1>1. Sound(fs, i, y, a) /\ LeadsOn(fs, f, y, pending, a)
  BY DEF Good
<1>2. /\ Whole(g, a)
      /\ OpAt(g, a) = op /\ ArgAt(g, a) = ArgAt(f, a)
      /\ Size(gs, g, a) = size
      /\ a + size <= Len(g.code)
      /\ op = "OP_CLOSURE" => Captures(gs, g, a) = Captures(fs, f, a)
      /\ Operands[op] = 2 => Uint16(g.code, a + 1) = Uint16(f.code, a + 1)
      /\ OperandsValid(gs, g, a, y[a].height)
  BY <1>1, InstructionStays
<1>3. z[a] = y[a]
  OBVIOUS
<1>4. \A b : Leads(fs, f, y, a, b) => Leads(gs, g, z, a, b)
  <2> SUFFICES ASSUME NEW b, Leads(fs, f, y, a, b) PROVE Leads(gs, g, z, a, b)
    OBVIOUS
  <2>1. b \in DOMAIN y /\ b \in DOMAIN z /\ z[b] = y[b]
    BY DEF Leads
  <2>2. HeightAfter(g, a, y[a].height) = HeightAfter(f, a, y[a].height)
    BY <1>2 DEF HeightAfter
  <2>3. OpenAfter(gs, g, a, y[a].height, y[a].open) = OpenAfter(fs, f, a, y[a].height, y[a].open)
    BY <1>2 DEF OpenAfter
  <2> HIDE DEF f, g
  <2> QED
    BY <1>3, <2>1, <2>2, <2>3 DEF Leads
<1>5. \A b \in DOMAIN z : b > a => b >= a + size
  BY <1>1 DEF Sound
<1>6. Sound(gs, i, z, a)
  BY <1>1, <1>2, <1>3, <1>5 DEF Sound
<1>7. op \in {"OP_JUMP", "OP_LOOP", "OP_JUMP_IF_FALSE"} => Operands[op] = 2
  <2>1. op \in OpCode
    BY <1>1, InstructionType DEF Sound
  <2> HIDE DEF op
  <2> QED
    BY <2>1, OperandsFacts DEF Jumps
<1>8. LeadsOn(gs, g, z, later, a)
  <2> HIDE DEF f, g, op, size
  <2> QED
    BY <1>1, <1>2, <1>4, <1>7 DEF LeadsOn, op, size
<1> QED
  BY <1>6, <1>8 DEF Good

(* A finished function stays so. *)
LEMMA FinishedStays ==
  ASSUME NEW fs, IsProgram(fs), NEW gs, IsProgram(gs), NEW i \in DOMAIN fs, i \in DOMAIN gs,
         gs[i] = fs[i], SameClosures(fs, gs, i), Finished(fs, i)
  PROVE  Finished(gs, i)
<1>1. PICK y : /\ IsSheet(y, Len(fs[i].code))
               /\ y[0].height = 1 + fs[i].arity
               /\ \A a \in DOMAIN y : Good(fs, i, y, {}, a)
  BY DEF Finished
<1>2. Extends(fs[i], gs[i])
  BY ProgramFacts DEF Extends
<1>3. ASSUME NEW a \in DOMAIN y PROVE Good(gs, i, y, {}, a)
  <2>1. Good(fs, i, y, {}, a)
    BY <1>1
  <2>2. SameBytes(fs[i], gs[i], a, Size(fs, fs[i], a))
    BY <2>1 DEF SameBytes, Good, Sound
  <2> QED
    BY <1>2, <2>1, <2>2, GoodStays
<1> QED
  BY <1>1, <1>3 DEF Finished

-----------------------------------------------------------------------------
(* Other sheets for the same code *)

(* Two sheets agree on the heights. *)
LEMMA GoodMoves ==
  ASSUME NEW fs, NEW i, NEW y, NEW pending, NEW a \in DOMAIN y, Good(fs, i, y, pending, a),
         NEW z, DOMAIN z = DOMAIN y, z[a].height = y[a].height,
         z[a].scope <= z[a].height - Pops(OpAt(fs[i], a), ArgAt(fs[i], a)),
         LET pops == Pops(OpAt(fs[i], a), ArgAt(fs[i], a)) h == y[a].height
         IN  OpAt(fs[i], a) \notin {"OP_RETURN", "OP_CLOSE_UPVALUE"} => z[a].open \cap h - pops .. h - 1 = {},
         \A b \in DOMAIN y : Leads(fs, fs[i], y, a, b) => Leads(fs, fs[i], z, a, b)
  PROVE  Good(fs, i, z, pending, a)
<1>1. Sound(fs, i, y, a) /\ LeadsOn(fs, fs[i], y, pending, a)
  BY DEF Good
<1>2. Sound(fs, i, z, a)
  BY <1>1 DEF Sound
<1>3. \A b : Leads(fs, fs[i], y, a, b) => Leads(fs, fs[i], z, a, b)
  BY DEF Leads
<1>4. LeadsOn(fs, fs[i], z, pending, a)
  BY <1>1, <1>3 DEF LeadsOn
<1> QED
  BY <1>2, <1>4 DEF Good

(* A local in scope is captured. *)
Slotted(y, slot) ==
  [b \in DOMAIN y |-> [height |-> y[b].height, scope |-> y[b].scope,
                       open |-> IF slot < y[b].scope THEN y[b].open \cup {slot} ELSE y[b].open]]

(* The locals from m on leave their scope. *)
Capped(y, m) ==
  [b \in DOMAIN y |-> [height |-> y[b].height, scope |-> IF y[b].scope <= m THEN y[b].scope ELSE m,
                       open |-> y[b].open]]

(* A local is known at address n. *)
Raised(y, n, m) ==
  [b \in DOMAIN y |-> [height |-> y[b].height, scope |-> IF b = n THEN m ELSE y[b].scope,
                       open |-> y[b].open]]

(* The heights in front of an instruction and behind it. *)
LEMMA InstructionHeights ==
  ASSUME NEW fs, IsProgram(fs), NEW i \in DOMAIN fs, NEW n, NEW y, IsSheet(y, n), NEW a \in DOMAIN y,
         Sound(fs, i, y, a)
  PROVE  /\ y[a].height \in Nat /\ y[a].scope \in Nat
         /\ y[a].open \subseteq 0 .. y[a].height - 1
         /\ Pops(OpAt(fs[i], a), ArgAt(fs[i], a)) \in Nat
         /\ y[a].scope <= y[a].height - Pops(OpAt(fs[i], a), ArgAt(fs[i], a))
         /\ OpAt(fs[i], a) \notin {"OP_RETURN", "OP_CLOSE_UPVALUE"} =>
              y[a].open \cap y[a].height - Pops(OpAt(fs[i], a), ArgAt(fs[i], a)) .. y[a].height - 1 = {}
<1>1. Whole(fs[i], a)
  BY DEF Sound
<1>2. Pops(OpAt(fs[i], a), ArgAt(fs[i], a)) \in Nat
  BY <1>1, InstructionType
<1>3. y[a].height \in Nat /\ y[a].scope \in Nat /\ y[a].open \subseteq 0 .. y[a].height - 1
  BY DEF IsSheet
<1> QED
  BY <1>2, <1>3 DEF Sound

(* What is known of an address stays true when a slot may have been captured, *)
LEMMA GoodSlotted ==
  ASSUME NEW fs, IsProgram(fs), NEW i \in DOMAIN fs, NEW n, NEW y, IsSheet(y, n),
         NEW pending, NEW a \in DOMAIN y, Good(fs, i, y, pending, a), NEW slot \in Nat
  PROVE  Good(fs, i, Slotted(y, slot), pending, a)
<1> DEFINE z == Slotted(y, slot)
           pops == Pops(OpAt(fs[i], a), ArgAt(fs[i], a))
           h == y[a].height
<1>1. DOMAIN z = DOMAIN y /\ z[a].height = h /\ z[a].scope = y[a].scope
      /\ z[a].open = IF slot < y[a].scope THEN y[a].open \cup {slot} ELSE y[a].open
  BY DEF Slotted
<1>2. /\ h \in Nat /\ y[a].scope \in Nat
      /\ pops \in Nat /\ y[a].scope <= h - pops
      /\ OpAt(fs[i], a) \notin {"OP_RETURN", "OP_CLOSE_UPVALUE"} => y[a].open \cap h - pops .. h - 1 = {}
  BY InstructionHeights DEF Good
<1>3. OpAt(fs[i], a) \notin {"OP_RETURN", "OP_CLOSE_UPVALUE"} => z[a].open \cap h - pops .. h - 1 = {}
  <2> HIDE DEF z, pops, h
  <2> QED
    BY <1>1, <1>2
<1>4. ASSUME NEW b \in DOMAIN y, Leads(fs, fs[i], y, a, b) PROVE Leads(fs, fs[i], z, a, b)
  <2>1. /\ z[b].height = y[b].height /\ z[b].scope = y[b].scope
        /\ z[b].open = IF slot < y[b].scope THEN y[b].open \cup {slot} ELSE y[b].open
    BY DEF Slotted
  <2>2. y[b].scope \in Nat /\ y[a].scope <= y[b].scope
        /\ OpenAfter(fs, fs[i], a, h, y[a].open) \subseteq y[b].open
    BY <1>4 DEF IsSheet, Leads
  <2>3. OpenAfter(fs, fs[i], a, h, z[a].open)
          \subseteq IF slot < y[a].scope THEN OpenAfter(fs, fs[i], a, h, y[a].open) \cup {slot}
                    ELSE OpenAfter(fs, fs[i], a, h, y[a].open)
    BY <1>1 DEF OpenAfter
  <2>4. OpenAfter(fs, fs[i], a, h, z[a].open) \subseteq z[b].open
    <3> HIDE DEF z, h
    <3> QED
      BY <1>2, <2>1, <2>2, <2>3
  <2>5. z[b].height = HeightAfter(fs[i], a, z[a].height) /\ b \in DOMAIN z
    BY <1>1, <1>4, <2>1 DEF Leads
  <2> HIDE DEF z
  <2> QED
    BY <1>1, <2>1, <2>2, <2>4, <2>5 DEF Leads
<1> HIDE DEF z
<1> QED
  BY <1>1, <1>2, <1>3, <1>4, GoodMoves DEF z

(* when fewer locals are in scope, *)
LEMMA GoodCapped ==
  ASSUME NEW fs, IsProgram(fs), NEW i \in DOMAIN fs, NEW n, NEW y, IsSheet(y, n),
         NEW pending, NEW a \in DOMAIN y, Good(fs, i, y, pending, a), NEW m \in Nat
  PROVE  Good(fs, i, Capped(y, m), pending, a)
<1> DEFINE z == Capped(y, m)
           pops == Pops(OpAt(fs[i], a), ArgAt(fs[i], a))
           h == y[a].height
<1>1. DOMAIN z = DOMAIN y /\ z[a].height = h /\ z[a].open = y[a].open
      /\ z[a].scope = IF y[a].scope <= m THEN y[a].scope ELSE m
  BY DEF Capped
<1>2. /\ h \in Nat /\ y[a].scope \in Nat
      /\ pops \in Nat /\ y[a].scope <= h - pops
      /\ OpAt(fs[i], a) \notin {"OP_RETURN", "OP_CLOSE_UPVALUE"} => y[a].open \cap h - pops .. h - 1 = {}
  BY InstructionHeights DEF Good
<1>3. z[a].scope <= h - pops
  <2> HIDE DEF z, pops, h
  <2> QED
    BY <1>1, <1>2
<1>4. ASSUME NEW b \in DOMAIN y, Leads(fs, fs[i], y, a, b) PROVE Leads(fs, fs[i], z, a, b)
  <2>1. /\ z[b].height = y[b].height /\ z[b].open = y[b].open
        /\ z[b].scope = IF y[b].scope <= m THEN y[b].scope ELSE m
    BY DEF Capped
  <2>2. y[b].scope \in Nat /\ y[a].scope <= y[b].scope
    BY <1>4 DEF IsSheet, Leads
  <2>3. z[a].scope <= z[b].scope
    <3> HIDE DEF z
    <3> QED
      BY <1>1, <1>2, <2>1, <2>2
  <2> HIDE DEF z
  <2> QED
    BY <1>1, <1>4, <2>1, <2>3 DEF Leads
<1> HIDE DEF z
<1> QED
  BY <1>1, <1>2, <1>3, <1>4, GoodMoves DEF z

(* and when there is more in scope where the code ends. *)
LEMMA GoodRaised ==
  ASSUME NEW fs, IsProgram(fs), NEW i \in DOMAIN fs, NEW n, NEW y, IsSheet(y, n), n \in DOMAIN y,
         NEW pending, NEW a \in DOMAIN y, a # n, Good(fs, i, y, pending, a),
         NEW m \in Nat, y[n].scope <= m
  PROVE  Good(fs, i, Raised(y, n, m), pending, a)
<1> DEFINE z == Raised(y, n, m)
           pops == Pops(OpAt(fs[i], a), ArgAt(fs[i], a))
           h == y[a].height
<1>1. DOMAIN z = DOMAIN y /\ z[a].height = h /\ z[a].open = y[a].open /\ z[a].scope = y[a].scope
  BY DEF Raised
<1>2. /\ h \in Nat /\ y[a].scope \in Nat
      /\ pops \in Nat /\ y[a].scope <= h - pops
      /\ OpAt(fs[i], a) \notin {"OP_RETURN", "OP_CLOSE_UPVALUE"} => y[a].open \cap h - pops .. h - 1 = {}
  BY InstructionHeights DEF Good
<1>4. ASSUME NEW b \in DOMAIN y, Leads(fs, fs[i], y, a, b) PROVE Leads(fs, fs[i], z, a, b)
  <2>1. /\ z[b].height = y[b].height /\ z[b].open = y[b].open
        /\ z[b].scope = IF b = n THEN m ELSE y[b].scope
    BY DEF Raised
  <2>2. y[b].scope \in Nat /\ y[a].scope <= y[b].scope
    BY <1>4 DEF IsSheet, Leads
  <2>3. z[a].scope <= z[b].scope
    <3> HIDE DEF z
    <3> QED
      BY <1>1, <1>2, <2>1, <2>2
  <2> HIDE DEF z
  <2> QED
    BY <1>1, <1>4, <2>1, <2>3 DEF Leads
<1> HIDE DEF z
<1> QED
  BY <1>1, <1>2, <1>4, GoodMoves DEF z

-----------------------------------------------------------------------------
(* Frames *)

(* Jumps that wait to be patched, and addresses that are still to be jumped back to, are
   noted as entries: the function, the address, the depth of the scope, how many locals were
   in it, and how many values above them.  An entry without address notes the locals only. *)
EntryType == [fun : Nat, at : Nat \cup {-1}, depth : Nat, locals : Nat \ {0}, temps : Nat]

Pending(open, f) == {e.at : e \in {d \in open : d.fun = f}}

Marked(y, e) ==
  /\ e.at \in DOMAIN y
  /\ y[e.at].height = e.locals + e.temps
  /\ y[e.at].scope = e.locals
  /\ y[e.at].open \subseteq 0 .. e.locals - 1

(* In scope at an address, the locals that are captured are those known to be. *)
Mirrors(locals, y, a) == \A i \in 0 .. y[a].scope - 1 : i \in y[a].open <=> locals[i + 1].is_captured

(* A function under compilation: the first `on' of its locals are on the stack, and temps values
   above them. *)
FrameOk(fs, f, locals, y, on, temps, open, marks) ==
  LET n == Len(fs[f].code)
  IN  /\ IsSheet(y, n) /\ n \in DOMAIN y
      /\ y[0].height = 1 + fs[f].arity
      /\ \A a \in DOMAIN y \ {n} : Good(fs, f, y, Pending(open, f), a)
      /\ on \in 1 .. Len(locals) /\ temps \in Nat
      /\ y[n].height = on + temps /\ y[n].scope = on /\ y[n].open \subseteq 0 .. on - 1
      /\ \A a \in DOMAIN y : y[a].scope <= on /\ Mirrors(locals, y, a)
      /\ \A e \in open : e.fun = f =>
           /\ e.at # n /\ Marked(y, e)
           /\ OpAt(fs[f], e.at) \in {"OP_JUMP", "OP_JUMP_IF_FALSE"}
      /\ \A e \in marks : e.fun = f /\ e.at # -1 => Marked(y, e)

(* Other functions, constants and upvalues do not matter. *)
LEMMA FrameStays ==
  ASSUME NEW fs, IsProgram(fs), NEW gs, IsProgram(gs), NEW f \in DOMAIN fs, f \in DOMAIN gs,
         Extends(fs[f], gs[f]), SameClosures(fs, gs, f),
         gs[f].code = fs[f].code, gs[f].arity = fs[f].arity,
         NEW locals, NEW y, NEW on, NEW temps, NEW open, NEW marks,
         FrameOk(fs, f, locals, y, on, temps, open, marks),
         NEW open2, NEW marks2, \A e \in open \cup open2 : e.fun = f => e \in open /\ e \in open2,
         \A e \in marks2 : e.fun = f => e \in marks
  PROVE  FrameOk(gs, f, locals, y, on, temps, open2, marks2)
<1> DEFINE n == Len(fs[f].code)
<1>1. /\ IsSheet(y, n) /\ n \in DOMAIN y /\ y[0].height = 1 + fs[f].arity
      /\ \A a \in DOMAIN y \ {n} : Good(fs, f, y, Pending(open, f), a)
      /\ on \in 1 .. Len(locals) /\ temps \in Nat
      /\ y[n].height = on + temps /\ y[n].scope = on /\ y[n].open \subseteq 0 .. on - 1
      /\ \A a \in DOMAIN y : y[a].scope <= on /\ Mirrors(locals, y, a)
  BY DEF FrameOk
<1>2. /\ \A e \in open2 : e.fun = f =>
           /\ e.at # n /\ Marked(y, e)
           /\ OpAt(gs[f], e.at) \in {"OP_JUMP", "OP_JUMP_IF_FALSE"}
      /\ \A e \in marks2 : e.fun = f /\ e.at # -1 => Marked(y, e)
  BY DEF FrameOk, OpAt
<1>3. Pending(open2, f) = Pending(open, f)
  BY DEF Pending
<1>4. ASSUME NEW a \in DOMAIN y \ {n} PROVE Good(gs, f, y, Pending(open2, f), a)
  <2>1. Good(fs, f, y, Pending(open, f), a)
    BY <1>1
  <2>2. SameBytes(fs[f], gs[f], a, Size(fs, fs[f], a))
    BY <2>1 DEF SameBytes, Good, Sound
  <2> QED
    BY <1>3, <2>1, <2>2, GoodStays
<1>5. n = Len(gs[f].code)
  OBVIOUS
<1> HIDE DEF n
<1>6. gs[f].arity = fs[f].arity
  OBVIOUS
<1> QED
  BY <1>1, <1>2, <1>4, <1>5, <1>6 DEF FrameOk

(* Locals that are not on the stack do not matter. *)
LEMMA FrameLocals ==
  ASSUME NEW fs, NEW f, NEW locals, NEW y, NEW on, NEW temps, NEW open, NEW marks,
         FrameOk(fs, f, locals, y, on, temps, open, marks),
         NEW later, Len(locals) \in Nat, Len(later) \in Nat, on <= Len(later),
         \A i \in 1 .. on : later[i].is_captured = locals[i].is_captured
  PROVE  FrameOk(fs, f, later, y, on, temps, open, marks)
<1>1. on \in 1 .. Len(later)
  BY DEF FrameOk
<1>2. ASSUME NEW a \in DOMAIN y PROVE Mirrors(later, y, a)
  <2>1. y[a].scope <= on /\ Mirrors(locals, y, a) /\ y[a].scope \in Nat
    BY DEF FrameOk, IsSheet
  <2>2. ASSUME NEW i \in 0 .. y[a].scope - 1 PROVE i \in y[a].open <=> later[i + 1].is_captured
    <3>1. i \in y[a].open <=> locals[i + 1].is_captured
      BY <2>1 DEF Mirrors
    <3>2. i + 1 \in 1 .. on
      BY <1>1, <2>1
    <3> QED
      BY <3>1, <3>2
  <2> QED
    BY <2>2 DEF Mirrors
<1> QED
  BY <1>1, <1>2 DEF FrameOk

(* A local is captured. *)
LEMMA FrameSlotted ==
  ASSUME NEW fs, IsProgram(fs), NEW f \in DOMAIN fs,
         NEW locals, NEW y, NEW on, NEW temps, NEW open, NEW marks,
         FrameOk(fs, f, locals, y, on, temps, open, marks),
         NEW slot \in Nat, NEW later, Len(later) = Len(locals),
         \A i \in 1 .. on : later[i].is_captured <=> (i = slot + 1 \/ locals[i].is_captured)
  PROVE  FrameOk(fs, f, later, Slotted(y, slot), on, temps, open, marks)
<1> DEFINE n == Len(fs[f].code)
           z == Slotted(y, slot)
<1>1. /\ IsSheet(y, n) /\ n \in DOMAIN y /\ y[0].height = 1 + fs[f].arity
      /\ \A a \in DOMAIN y \ {n} : Good(fs, f, y, Pending(open, f), a)
      /\ on \in 1 .. Len(locals) /\ temps \in Nat
      /\ y[n].height = on + temps /\ y[n].scope = on /\ y[n].open \subseteq 0 .. on - 1
      /\ \A a \in DOMAIN y : y[a].scope <= on /\ Mirrors(locals, y, a)
  BY DEF FrameOk
<1>2. /\ \A e \in open : e.fun = f =>
           /\ e.at # n /\ Marked(y, e)
           /\ OpAt(fs[f], e.at) \in {"OP_JUMP", "OP_JUMP_IF_FALSE"}
      /\ \A e \in marks : e.fun = f /\ e.at # -1 => Marked(y, e)
  BY DEF FrameOk
<1>3. /\ DOMAIN z = DOMAIN y
      /\ \A a \in DOMAIN y : /\ z[a].height = y[a].height /\ z[a].scope = y[a].scope
                             /\ z[a].open = IF slot < y[a].scope THEN y[a].open \cup {slot} ELSE y[a].open
  BY DEF Slotted
<1>4. \A a \in DOMAIN y \ {n} : Good(fs, f, z, Pending(open, f), a)
  <2> HIDE DEF n
  <2> QED
    BY <1>1, GoodSlotted
<1>5. \A a \in DOMAIN y : y[a].height \in Nat /\ y[a].scope \in Nat /\ y[a].open \subseteq 0 .. y[a].height - 1
                          /\ y[a].scope <= y[a].height
  <2> SUFFICES ASSUME NEW a \in DOMAIN y
               PROVE  y[a].height \in Nat /\ y[a].scope \in Nat /\ y[a].open \subseteq 0 .. y[a].height - 1
                      /\ y[a].scope <= y[a].height
    OBVIOUS
  <2>1. y[a].height \in Nat /\ y[a].scope \in Nat /\ y[a].open \subseteq 0 .. y[a].height - 1
    BY <1>1 DEF IsSheet
  <2>2. CASE a = n
    BY <1>1, <2>1, <2>2
  <2>3. CASE a # n
    <3>1. Sound(fs, f, y, a)
      BY <1>1, <2>3 DEF Good
    <3> HIDE DEF n
    <3>2. Pops(OpAt(fs[f], a), ArgAt(fs[f], a)) \in Nat
          /\ y[a].scope <= y[a].height - Pops(OpAt(fs[f], a), ArgAt(fs[f], a))
      BY <1>1, <3>1, InstructionHeights
    <3> QED
      BY <2>1, <3>2
  <2> QED
    BY <2>1, <2>2, <2>3
<1> HIDE DEF z, n
<1>6. ASSUME NEW a \in DOMAIN y, NEW m \in Nat, y[a].scope <= m, y[a].open \subseteq 0 .. m - 1
      PROVE  z[a].open \subseteq 0 .. m - 1
  <2>1. z[a].open = IF slot < y[a].scope THEN y[a].open \cup {slot} ELSE y[a].open
    BY <1>3
  <2>2. y[a].scope \in Nat
    BY <1>5
  <2>3. CASE slot < y[a].scope
    <3>1. slot \in 0 .. m - 1
      BY <1>6, <2>2, <2>3
    <3> QED
      BY <1>6, <2>1, <2>3, <3>1
  <2>4. CASE ~(slot < y[a].scope)
    BY <1>6, <2>1, <2>4
  <2> QED
    BY <2>3, <2>4
<1>12. IsSheet(z, n)
  <2>1. \A a \in DOMAIN z : z[a].height \in Nat /\ z[a].scope \in Nat /\ z[a].open \subseteq 0 .. z[a].height - 1
    <3> SUFFICES ASSUME NEW a \in DOMAIN y
                 PROVE  z[a].height \in Nat /\ z[a].scope \in Nat /\ z[a].open \subseteq 0 .. y[a].height - 1
      BY <1>3
    <3>1. y[a].height \in Nat /\ y[a].scope \in Nat /\ y[a].open \subseteq 0 .. y[a].height - 1 /\ y[a].scope <= y[a].height
      BY <1>5
    <3> QED
      BY <1>3, <1>6, <3>1
  <2> QED
    BY <1>1, <1>3, <2>1 DEF IsSheet
<1>7. ASSUME NEW a \in DOMAIN z PROVE z[a].scope <= on /\ Mirrors(later, z, a)
  <2>1. /\ z[a].scope = y[a].scope
        /\ z[a].open = IF slot < y[a].scope THEN y[a].open \cup {slot} ELSE y[a].open
    BY <1>3
  <2>2. y[a].scope \in Nat /\ y[a].scope <= on /\ Mirrors(locals, y, a) /\ on \in Nat
    BY <1>1, <1>3, <1>5
  <2>3. ASSUME NEW i \in 0 .. y[a].scope - 1 PROVE i \in z[a].open <=> later[i + 1].is_captured
    <3>1. i \in y[a].open <=> locals[i + 1].is_captured
      BY <2>2 DEF Mirrors
    <3>2. i + 1 \in 1 .. on
      BY <2>2
    <3>3. later[i + 1].is_captured <=> (i + 1 = slot + 1 \/ locals[i + 1].is_captured)
      BY <3>2
    <3>4. i \in z[a].open <=> (i = slot \/ i \in y[a].open)
      BY <2>1, <2>2
    <3> QED
      BY <3>1, <3>3, <3>4
  <2> QED
    BY <2>1, <2>2, <2>3 DEF Mirrors
<1>8. \A e : Marked(y, e) => Marked(z, e)
  <2> SUFFICES ASSUME NEW e, Marked(y, e) PROVE Marked(z, e)
    OBVIOUS
  <2>1. e.at \in DOMAIN y /\ y[e.at].height = e.locals + e.temps /\ y[e.at].scope = e.locals
        /\ y[e.at].open \subseteq 0 .. e.locals - 1
    BY DEF Marked
  <2>2. z[e.at].height = e.locals + e.temps /\ z[e.at].scope = e.locals /\ e.at \in DOMAIN z
    BY <1>3, <2>1
  <2>3. z[e.at].open \subseteq 0 .. e.locals - 1
    <3>1. e.locals \in Nat
      BY <1>5, <2>1
    <3> QED
      BY <1>6, <2>1, <3>1
  <2> QED
    BY <2>2, <2>3 DEF Marked
<1>9. z[n].height = on + temps /\ z[n].scope = on /\ z[n].open \subseteq 0 .. on - 1 /\ n \in DOMAIN z
  <2>1. z[n].open \subseteq 0 .. on - 1
    BY <1>1, <1>6
  <2> QED
    BY <1>1, <1>3, <2>1
<1>10. 0 \in DOMAIN z /\ z[0].height = 1 + fs[f].arity
  BY <1>1, <1>3 DEF IsSheet
<1>11. on \in 1 .. Len(later)
  BY <1>1
<1> QED
  BY <1>1, <1>2, <1>3, <1>4, <1>7, <1>8, <1>9, <1>10, <1>11, <1>12 DEF FrameOk, n, z

(* A value on the stack becomes a local. *)
LEMMA FrameRaised ==
  ASSUME NEW fs, IsProgram(fs), NEW f \in DOMAIN fs,
         NEW locals, NEW y, NEW on, NEW temps, NEW open, NEW marks,
         FrameOk(fs, f, locals, y, on, temps, open, marks), temps > 0,
         Len(locals) \in Nat, on + 1 <= Len(locals), ~locals[on + 1].is_captured,
         \A e \in marks : e.fun = f /\ e.at # -1 => e.temps = 0
  PROVE  FrameOk(fs, f, locals, Raised(y, Len(fs[f].code), on + 1), on + 1, temps - 1, open, marks)
<1> DEFINE n == Len(fs[f].code)
           z == Raised(y, n, on + 1)
<1>1. /\ IsSheet(y, n) /\ n \in DOMAIN y /\ y[0].height = 1 + fs[f].arity
      /\ \A a \in DOMAIN y \ {n} : Good(fs, f, y, Pending(open, f), a)
      /\ on \in 1 .. Len(locals) /\ temps \in Nat
      /\ y[n].height = on + temps /\ y[n].scope = on /\ y[n].open \subseteq 0 .. on - 1
      /\ \A a \in DOMAIN y : y[a].scope <= on /\ Mirrors(locals, y, a)
  BY DEF FrameOk
<1>2. /\ \A e \in open : e.fun = f =>
           /\ e.at # n /\ Marked(y, e)
           /\ OpAt(fs[f], e.at) \in {"OP_JUMP", "OP_JUMP_IF_FALSE"}
      /\ \A e \in marks : e.fun = f /\ e.at # -1 => Marked(y, e)
  BY DEF FrameOk
<1>3. /\ DOMAIN z = DOMAIN y
      /\ \A a \in DOMAIN y : /\ z[a].height = y[a].height /\ z[a].open = y[a].open
                             /\ z[a].scope = IF a = n THEN on + 1 ELSE y[a].scope
  BY DEF Raised
<1>4. \A a \in DOMAIN y \ {n} : Good(fs, f, z, Pending(open, f), a)
  <2> HIDE DEF n
  <2>1. on + 1 \in Nat /\ y[n].scope <= on + 1
    BY <1>1
  <2> QED
    BY <1>1, <2>1, GoodRaised
<1>5. \A a \in DOMAIN y : y[a].height \in Nat /\ y[a].scope \in Nat /\ y[a].open \subseteq 0 .. y[a].height - 1
  BY <1>1 DEF IsSheet
<1> HIDE DEF z, n
<1>6. IsSheet(z, n)
  BY <1>1, <1>3, <1>5 DEF IsSheet
<1>7. \A a \in DOMAIN z : z[a].scope <= on + 1 /\ Mirrors(locals, z, a)
  <2> SUFFICES ASSUME NEW a \in DOMAIN z PROVE z[a].scope <= on + 1 /\ Mirrors(locals, z, a)
    OBVIOUS
  <2>1. CASE a # n
    BY <1>1, <1>3, <1>5, <2>1 DEF Mirrors
  <2>2. CASE a = n
    <3>1. Mirrors(locals, y, n) /\ y[n].scope = on /\ on \in Nat
      BY <1>1
    <3>2. \A i \in 0 .. on : i \in y[n].open <=> locals[i + 1].is_captured
      BY <1>1, <3>1 DEF Mirrors
    <3> QED
      BY <1>3, <2>2, <3>1, <3>2 DEF Mirrors
  <2> QED
    BY <2>1, <2>2
<1>8. \A e : Marked(y, e) /\ e.at # n => Marked(z, e)
  BY <1>3 DEF Marked
<1>9. ASSUME NEW e \in marks, e.fun = f, e.at # -1 PROVE Marked(z, e)
  <2>1. Marked(y, e) /\ e.temps = 0
    BY <1>2, <1>9
  <2>2. e.at # n
    BY <1>1, <2>1 DEF Marked
  <2> QED
    BY <1>8, <2>1, <2>2
<1>10. z[n].height = on + 1 + (temps - 1) /\ z[n].scope = on + 1 /\ z[n].open \subseteq 0 .. on + 1 - 1 /\ n \in DOMAIN z
  BY <1>1, <1>3
<1>11. 0 \in DOMAIN z /\ z[0].height = 1 + fs[f].arity
  BY <1>1, <1>3 DEF IsSheet
<1>12. on + 1 \in 1 .. Len(locals) /\ temps - 1 \in Nat
  BY <1>1
<1> QED
  BY <1>1, <1>2, <1>3, <1>4, <1>6, <1>7, <1>8, <1>9, <1>10, <1>11, <1>12 DEF FrameOk, n, z

(* The captured ones of the first m locals. *)
Caught(locals, m) == {i \in 0 .. m - 1 : locals[i + 1].is_captured}

(* What is known of the stack when m locals and temps values are on it. *)
Known(locals, m, temps) == [height |-> m + temps, scope |-> m, open |-> Caught(locals, m)]

(* A sheet with another address. *)
Grown(y, b, r) == [a \in DOMAIN y \cup {b} |-> IF a \in DOMAIN y THEN y[a] ELSE r]

(* What holds of every address in a frame. *)
LEMMA FrameFacts ==
  ASSUME NEW fs, IsProgram(fs), NEW f \in DOMAIN fs,
         NEW locals, NEW y, NEW on, NEW temps, NEW open, NEW marks, Len(locals) \in Nat,
         FrameOk(fs, f, locals, y, on, temps, open, marks)
  PROVE  /\ Len(fs[f].code) \in Nat /\ Len(fs[f].code) \in DOMAIN y
         /\ on \in Nat \ {0} /\ on <= Len(locals) /\ temps \in Nat
         /\ \A a \in DOMAIN y :
              /\ a \in Nat /\ a <= Len(fs[f].code)
              /\ y[a].height \in Nat /\ y[a].scope \in Nat
              /\ y[a].scope <= on /\ y[a].open \subseteq 0 .. y[a].height - 1
              /\ \A i \in 0 .. y[a].scope - 1 : i \in y[a].open <=> locals[i + 1].is_captured
         /\ y[Len(fs[f].code)].height = on + temps /\ y[Len(fs[f].code)].scope = on
         /\ y[Len(fs[f].code)].open = Caught(locals, on)
<1> DEFINE n == Len(fs[f].code)
<1>1. n \in Nat
  BY ProgramFacts
<1>2. /\ IsSheet(y, n) /\ n \in DOMAIN y
      /\ on \in 1 .. Len(locals) /\ temps \in Nat
      /\ y[n].height = on + temps /\ y[n].scope = on /\ y[n].open \subseteq 0 .. on - 1
      /\ \A a \in DOMAIN y : y[a].scope <= on /\ Mirrors(locals, y, a)
  BY DEF FrameOk
<1> HIDE DEF n
<1>3. \A a \in DOMAIN y :
        /\ a \in Nat /\ a <= n
        /\ y[a].height \in Nat /\ y[a].scope \in Nat
        /\ y[a].scope <= on /\ y[a].open \subseteq 0 .. y[a].height - 1
  BY <1>1, <1>2 DEF IsSheet
<1>4. \A a \in DOMAIN y : \A i \in 0 .. y[a].scope - 1 : i \in y[a].open <=> locals[i + 1].is_captured
  BY <1>2 DEF Mirrors
<1>5. y[n].open = Caught(locals, on)
  <2>1. \A i \in 0 .. on - 1 : i \in y[n].open <=> locals[i + 1].is_captured
    BY <1>2, <1>4
  <2> QED
    BY <1>2, <2>1 DEF Caught
<1>6. on \in Nat \ {0} /\ on <= Len(locals)
  BY <1>2
<1> QED
  BY <1>1, <1>2, <1>3, <1>4, <1>5, <1>6 DEF n

(* Bytes that are appended come behind those that are there. *)
LEMMA AppendedCode ==
  ASSUME NEW code \in Seq(Nat), NEW bytes \in Seq(Nat)
  PROVE  /\ code \o bytes \in Seq(Nat) /\ Len(code \o bytes) = Len(code) + Len(bytes)
         /\ Len(code) \in Nat /\ Len(bytes) \in Nat
         /\ \A b \in 0 .. Len(code) - 1 : At(code \o bytes, b) = At(code, b)
         /\ \A j \in 0 .. Len(bytes) - 1 : At(code \o bytes, Len(code) + j) = bytes[j + 1]
<1> DEFINE both == code \o bytes
<1>1. /\ Len(code) \in Nat /\ Len(bytes) \in Nat
      /\ both \in Seq(Nat) /\ Len(both) = Len(code) + Len(bytes)
      /\ \A i \in 1 .. Len(code) + Len(bytes) :
           both[i] = IF i <= Len(code) THEN code[i] ELSE bytes[i - Len(code)]
  BY LenProperties, ConcatProperties
<1> HIDE DEF both
<1>2. \A b \in 0 .. Len(code) - 1 : At(both, b) = At(code, b)
  BY <1>1 DEF At
<1>3. ASSUME NEW j \in 0 .. Len(bytes) - 1 PROVE At(both, Len(code) + j) = bytes[j + 1]
  <2>1. both[Len(code) + j + 1] = bytes[Len(code) + j + 1 - Len(code)]
    BY <1>1
  <2>2. Len(code) + j + 1 - Len(code) = j + 1
    BY <1>1
  <2> QED
    BY <2>1, <2>2 DEF At
<1> QED
  BY <1>1, <1>2, <1>3 DEF both

(* To the jumps that wait to be patched, at most the one that the function now ends with is added. *)
Opened(fs, gs, f, on, temps, open, open2) ==
  /\ \A e \in open : e.fun = f => e \in open2
  /\ \A e \in open2 : e.fun = f =>
       \/ e \in open
       \/ /\ e.at = Len(fs[f].code) /\ e.locals = on /\ e.temps = temps
          /\ OpAt(gs[f], e.at) \in {"OP_JUMP", "OP_JUMP_IF_FALSE"}

(* Code is appended: an instruction that is good where the code ended, and leads to where it
   ends now, or jumps. *)
LEMMA FrameGrows ==
  ASSUME NEW fs, IsProgram(fs), NEW gs, IsProgram(gs), NEW f \in DOMAIN fs, f \in DOMAIN gs,
         Extends(fs[f], gs[f]), SameClosures(fs, gs, f), gs[f].arity = fs[f].arity,
         NEW bytes, bytes \in Seq(Nat), bytes # <<>>, gs[f].code = fs[f].code \o bytes,
         NEW locals, NEW y, NEW on, NEW temps, NEW open, NEW marks, Len(locals) \in Nat,
         FrameOk(fs, f, locals, y, on, temps, open, marks),
         NEW m, m \in Nat, on <= m, m <= Len(locals), NEW later, later \in Nat,
         NEW open2, Opened(fs, gs, f, on, temps, open, open2),
         NEW marks2, \A e \in marks2 : e.fun = f => e \in marks,
         NEW z, z = Grown(y, Len(gs[f].code), Known(locals, m, later)),
         Good(gs, f, z, Pending(open2, f), Len(fs[f].code))
  PROVE  FrameOk(gs, f, locals, z, m, later, open2, marks2)
<1> DEFINE n == Len(fs[f].code)
           k == Len(gs[f].code)
           r == Known(locals, m, later)
<1>1. /\ n \in Nat /\ n \in DOMAIN y
      /\ on \in Nat \ {0} /\ on <= Len(locals) /\ temps \in Nat
      /\ \A a \in DOMAIN y :
           /\ a \in Nat /\ a <= n
           /\ y[a].height \in Nat /\ y[a].scope \in Nat
           /\ y[a].scope <= on /\ y[a].open \subseteq 0 .. y[a].height - 1
           /\ \A i \in 0 .. y[a].scope - 1 : i \in y[a].open <=> locals[i + 1].is_captured
      /\ y[n].height = on + temps /\ y[n].scope = on
      /\ y[n].open = Caught(locals, on)
  BY FrameFacts
<1>2. k \in Nat /\ k > n
  <2>1. fs[f].code \in Seq(Nat)
    BY ProgramFacts
  <2>2. Len(bytes) \in Nat /\ Len(bytes) # 0
    BY EmptySeq
  <2>3. k = n + Len(bytes)
    BY <2>1, ConcatProperties
  <2> QED
    BY <1>1, <2>2, <2>3
<1>3. r.height = m + later /\ r.scope = m /\ r.open = Caught(locals, m)
  BY DEF Known
<1>4. /\ DOMAIN z = DOMAIN y \cup {k}
      /\ \A a \in DOMAIN y : z[a] = y[a]
      /\ k \notin DOMAIN y
      /\ z[k] = r
  <2>1. k \notin DOMAIN y
    BY <1>1, <1>2
  <2> QED
    BY <2>1 DEF Grown
<1>5. ASSUME NEW a \in DOMAIN y, a # n PROVE Good(gs, f, z, Pending(open2, f), a)
  <2>1. Good(fs, f, y, Pending(open, f), a)
    BY <1>5 DEF FrameOk
  <2>2. /\ Whole(fs[f], a) /\ a + Size(fs, fs[f], a) <= n
    BY <2>1 DEF Good, Sound
  <2>3. a \in Nat /\ Size(fs, fs[f], a) \in Nat
    BY <2>2, InstructionType
  <2>4. SameBytes(fs[f], gs[f], a, Size(fs, fs[f], a))
    <3>1. fs[f].code \in Seq(Nat)
      BY ProgramFacts
    <3>2. \A b \in 0 .. n - 1 : At(gs[f].code, b) = At(fs[f].code, b)
      BY <3>1, AppendedCode
    <3> DEFINE s == Size(fs, fs[f], a)
    <3> HIDE DEF s, n, k
    <3>3. a + s <= k /\ \A b \in a .. a + s - 1 : b \in 0 .. n - 1
      BY <1>1, <1>2, <2>2, <2>3 DEF s
    <3> QED
      BY <3>2, <3>3 DEF SameBytes, s, k
  <2>5. \A b \in DOMAIN z \ DOMAIN y : b >= a + Size(fs, fs[f], a)
    <3> DEFINE s == Size(fs, fs[f], a)
    <3> HIDE DEF s, n, k
    <3>1. DOMAIN z \ DOMAIN y \subseteq {k}
      BY <1>4
    <3>2. k >= a + s
      BY <1>1, <1>2, <2>2, <2>3 DEF s
    <3> QED
      BY <3>1, <3>2 DEF s
  <2>6. a \in Pending(open, f) => a \in Pending(open2, f)
    BY DEF Pending, Opened
  <2>7. DOMAIN y \subseteq DOMAIN z /\ \A b \in DOMAIN y : z[b] = y[b]
    BY <1>4
  <2> HIDE DEF n, k, r
  <2> QED
    BY ONLY IsProgram(fs), IsProgram(gs), f \in DOMAIN fs, f \in DOMAIN gs, Extends(fs[f], gs[f]),
            SameClosures(fs, gs, f), a \in DOMAIN y,
            <2>1, <2>4, <2>5, <2>6, <2>7, GoodStays
<1>6. \A a \in DOMAIN z \ {k} : Good(gs, f, z, Pending(open2, f), a)
  BY <1>4, <1>5
<1>7. \A i \in 0 .. m - 1 : i \in r.open <=> locals[i + 1].is_captured
  BY <1>3 DEF Caught
<1>8. r.open \subseteq 0 .. m - 1 /\ m + later \in Nat /\ r.open \subseteq 0 .. m + later - 1
  BY <1>3 DEF Caught
<1>9. 0 \in DOMAIN y /\ y[0].height = 1 + fs[f].arity
  BY DEF FrameOk, IsSheet
<1> HIDE DEF n, k, r
<1>10. IsSheet(z, k)
  BY <1>1, <1>2, <1>3, <1>4, <1>8, <1>9 DEF IsSheet
<1>11. \A a \in DOMAIN z : z[a].scope <= m /\ Mirrors(locals, z, a)
  <2> SUFFICES ASSUME NEW a \in DOMAIN z PROVE z[a].scope <= m /\ Mirrors(locals, z, a)
    OBVIOUS
  <2>1. CASE a \in DOMAIN y
    BY <1>1, <1>4, <2>1 DEF Mirrors
  <2>2. CASE a = k
    BY <1>3, <1>4, <1>7, <2>2 DEF Mirrors
  <2> QED
    BY <1>4, <2>1, <2>2
<1>12. \A e : Marked(y, e) => Marked(z, e)
  BY <1>4 DEF Marked
<1>13. ASSUME NEW e \in open2, e.fun = f
       PROVE  e.at # k /\ Marked(z, e) /\ OpAt(gs[f], e.at) \in {"OP_JUMP", "OP_JUMP_IF_FALSE"}
  <2>1. CASE e \in open
    <3>1. e.at # n /\ Marked(y, e) /\ OpAt(fs[f], e.at) \in {"OP_JUMP", "OP_JUMP_IF_FALSE"}
      BY <1>13, <2>1 DEF FrameOk, n
    <3>2. e.at \in DOMAIN y /\ e.at # k
      BY <1>4, <3>1 DEF Marked
    <3>3. OpAt(gs[f], e.at) = OpAt(fs[f], e.at)
      <4>1. fs[f].code \in Seq(Nat)
        BY ProgramFacts
      <4>2. e.at \in 0 .. n - 1
        BY <1>1, <3>1, <3>2
      <4>3. At(gs[f].code, e.at) = At(fs[f].code, e.at)
        BY <4>1, <4>2, AppendedCode DEF n
      <4> QED
        BY <4>3 DEF OpAt
    <3> QED
      BY <1>12, <3>1, <3>2, <3>3
  <2>2. CASE /\ e.at = n /\ e.locals = on /\ e.temps = temps
             /\ OpAt(gs[f], e.at) \in {"OP_JUMP", "OP_JUMP_IF_FALSE"}
    <3>1. Marked(y, e)
      <4>1. y[n].open \subseteq 0 .. on - 1
        BY <1>1 DEF Caught
      <4> QED
        BY <1>1, <2>2, <4>1 DEF Marked
    <3>2. e.at # k
      BY <1>1, <1>2, <2>2
    <3> QED
      BY <1>12, <2>2, <3>1, <3>2
  <2> QED
    BY <1>13, <2>1, <2>2 DEF n, Opened
<1>14. \A e \in marks2 : e.fun = f /\ e.at # -1 => Marked(z, e)
  BY <1>12 DEF FrameOk
<1>15. m \in 1 .. Len(locals)
  BY <1>1
<1>16. z[k].height = m + later /\ z[k].scope = m /\ z[k].open \subseteq 0 .. m - 1 /\ k \in DOMAIN z
  BY <1>3, <1>4, <1>8
<1>17. z[0].height = 1 + gs[f].arity
  BY <1>4, <1>9
<1> QED
  BY <1>6, <1>10, <1>11, <1>13, <1>14, <1>15, <1>16, <1>17 DEF FrameOk, k

-----------------------------------------------------------------------------
(* Instructions are appended *)

(* Bytes are appended to the code of a function. *)
Grows(fs, gs, f, bytes) ==
  /\ IsProgram(fs) /\ IsProgram(gs) /\ f \in DOMAIN fs /\ f \in DOMAIN gs
  /\ Extends(fs[f], gs[f]) /\ SameClosures(fs, gs, f) /\ gs[f].arity = fs[f].arity
  /\ bytes \in Seq(Nat) /\ bytes # <<>> /\ gs[f].code = fs[f].code \o bytes

(* The instruction that they are. *)
LEMMA EmittedFacts ==
  ASSUME NEW fs, NEW gs, NEW f, NEW bytes, Grows(fs, gs, f, bytes),
         NEW op \in OpCode, bytes[1] = Code[op], Len(bytes) >= 1 + Operands[op]
  PROVE  LET n == Len(fs[f].code)
             g == gs[f]
         IN  /\ Whole(g, n) /\ OpAt(g, n) = op
             /\ ArgAt(g, n) = IF Operands[op] > 0 THEN bytes[2] ELSE 0
             /\ op # "OP_CLOSURE" => Size(gs, g, n) = 1 + Operands[op]
             /\ Operands[op] = 2 => Uint16(g.code, n + 1) = bytes[2] * (UINT8_MAX + 1) + bytes[3]
             /\ n \in Nat /\ Len(bytes) \in Nat /\ Len(g.code) = n + Len(bytes)
             /\ Operands[op] \in 0 .. 2
<1> DEFINE n == Len(fs[f].code)
           g == gs[f]
<1>1. fs[f].code \in Seq(Nat) /\ bytes \in Seq(Nat) /\ g.code = fs[f].code \o bytes
  BY ProgramFacts DEF Grows
<1>2. /\ n \in Nat /\ Len(bytes) \in Nat /\ Len(g.code) = n + Len(bytes)
      /\ \A j \in 0 .. Len(bytes) - 1 : At(g.code, n + j) = bytes[j + 1]
  <2> DEFINE both == fs[f].code \o bytes
  <2>1. /\ n \in Nat /\ Len(bytes) \in Nat /\ Len(both) = n + Len(bytes)
        /\ \A j \in 0 .. Len(bytes) - 1 : At(both, n + j) = bytes[j + 1]
    BY <1>1, AppendedCode
  <2>2. g.code = both
    BY <1>1
  <2> HIDE DEF both, n, g
  <2> QED
    BY <2>1, <2>2
<1>3. Operands[op] \in 0 .. 2 /\ Code[op] \in DOMAIN Named /\ Named[Code[op]] = op
  BY CodesFacts
<1> HIDE DEF n, g
<1>4. At(g.code, n) = Code[op]
  <2>1. At(g.code, n + 0) = bytes[0 + 1]
    BY <1>2, <1>3
  <2> QED
    BY <1>2, <2>1
<1>5. OpAt(g, n) = op
  BY <1>3, <1>4 DEF OpAt
<1>6. Operands[op] > 0 => At(g.code, n + 1) = bytes[2]
  <2>1. Operands[op] > 0 => At(g.code, n + 1) = bytes[1 + 1]
    BY <1>2, <1>3
  <2> QED
    BY <2>1
<1>7. Operands[op] = 2 => At(g.code, n + 1 + 1) = bytes[3]
  <2>1. Operands[op] = 2 => At(g.code, n + 2) = bytes[2 + 1]
    BY <1>2, <1>3
  <2> QED
    BY <1>2, <2>1
<1>8. ArgAt(g, n) = IF Operands[op] > 0 THEN bytes[2] ELSE 0
  BY <1>5, <1>6 DEF ArgAt
<1>9. Whole(g, n)
  <2>1. n \in 0 .. Len(g.code) - 1 /\ n + Operands[op] < Len(g.code)
    BY <1>2, <1>3
  <2> QED
    BY <1>3, <1>4, <1>5, <2>1 DEF Whole
<1>10. op # "OP_CLOSURE" => Size(gs, g, n) = 1 + Operands[op]
  <2>1. Grows(fs, gs, f, bytes)
    OBVIOUS
  <2> QED
    BY <1>5, <1>9, <2>1, InstructionType DEF g, Grows
<1>11. Operands[op] = 2 => Uint16(g.code, n + 1) = bytes[2] * (UINT8_MAX + 1) + bytes[3]
  BY <1>3, <1>6, <1>7 DEF Uint16
<1> QED
  BY <1>2, <1>3, <1>5, <1>8, <1>9, <1>10, <1>11 DEF n, g

(* Where they begin and end. *)
LEMMA GrowsFacts ==
  ASSUME NEW fs, NEW gs, NEW f, NEW bytes, Grows(fs, gs, f, bytes)
  PROVE  /\ IsProgram(fs) /\ IsProgram(gs) /\ f \in DOMAIN fs /\ f \in DOMAIN gs
         /\ Extends(fs[f], gs[f]) /\ SameClosures(fs, gs, f) /\ gs[f].arity = fs[f].arity
         /\ bytes \in Seq(Nat) /\ bytes # <<>> /\ gs[f].code = fs[f].code \o bytes
         /\ Len(fs[f].code) \in Nat /\ Len(bytes) \in Nat \ {0}
         /\ Len(gs[f].code) = Len(fs[f].code) + Len(bytes)
<1>1. fs[f].code \in Seq(Nat) /\ bytes \in Seq(Nat) /\ bytes # <<>>
  BY ProgramFacts DEF Grows
<1>2. Len(gs[f].code) = Len(fs[f].code) + Len(bytes) /\ Len(bytes) \in Nat /\ Len(fs[f].code) \in Nat
  BY <1>1, AppendedCode DEF Grows
<1>3. Len(bytes) # 0
  BY <1>1, EmptySeq
<1> QED
  BY <1>2, <1>3 DEF Grows

(* It is good where the operands are right, and there are enough values. *)
LEMMA GoodEmitted ==
  ASSUME NEW fs, NEW gs, NEW f, NEW bytes, Grows(fs, gs, f, bytes),
         NEW locals, NEW y, NEW on, NEW temps, NEW open, NEW marks, Len(locals) \in Nat,
         FrameOk(fs, f, locals, y, on, temps, open, marks),
         NEW z, z[Len(fs[f].code)] = y[Len(fs[f].code)],
         \A b \in DOMAIN z : b \in DOMAIN y \/ b = Len(gs[f].code),
         NEW op, op = OpAt(gs[f], Len(fs[f].code)), op # "OP_CLOSE_UPVALUE",
         Whole(gs[f], Len(fs[f].code)),
         Len(bytes) = Size(gs, gs[f], Len(fs[f].code)),
         OperandsValid(gs, gs[f], Len(fs[f].code), on + temps),
         Pops(op, ArgAt(gs[f], Len(fs[f].code))) <= temps,
         op = "OP_RETURN" /\ f = 1 => on + temps = 2,
         NEW pending, LeadsOn(gs, gs[f], z, pending, Len(fs[f].code))
  PROVE  Good(gs, f, z, pending, Len(fs[f].code))
<1> DEFINE n == Len(fs[f].code)
           k == Len(gs[f].code)
           pops == Pops(op, ArgAt(gs[f], n))
<1>1. /\ n \in Nat /\ n \in DOMAIN y
      /\ on \in Nat \ {0} /\ on <= Len(locals) /\ temps \in Nat
      /\ \A a \in DOMAIN y : a \in Nat /\ a <= n
      /\ y[n].height = on + temps /\ y[n].scope = on
      /\ y[n].open = Caught(locals, on)
  BY FrameFacts DEF Grows
<1>2. fs[f].code \in Seq(Nat)
  BY ProgramFacts DEF Grows
<1>3. k = n + Len(bytes) /\ Len(bytes) \in Nat
  BY <1>2, AppendedCode DEF Grows
<1>4. pops \in Nat
  BY InstructionType DEF Grows
<1>5. n + Size(gs, gs[f], n) = k
  BY <1>3
<1> HIDE DEF n, k, pops
<1>6. z[n] = y[n] /\ \A b \in DOMAIN z : b > n => b >= k
  <2>1. \A b \in DOMAIN y : ~(b > n)
    BY <1>1
  <2> QED
    BY <1>1, <1>3, <2>1 DEF n, k
<1>7. pops <= temps
  BY DEF pops, n
<1>8. y[n].height > pops /\ y[n].scope <= y[n].height - pops
  BY <1>1, <1>4, <1>7
<1>9. y[n].open \cap y[n].height - pops .. y[n].height - 1 = {}
  <2>1. \A i \in y[n].open : i \in 0 .. on - 1
    BY <1>1 DEF Caught
  <2> QED
    BY <1>1, <1>4, <1>7, <2>1
<1>10. OperandsValid(gs, gs[f], n, y[n].height)
  BY <1>1 DEF n
<1>11. op = "OP_RETURN" /\ f = 1 => y[n].height = 2
  BY <1>1
<1>12. Whole(gs[f], n) /\ n + Size(gs, gs[f], n) <= Len(gs[f].code) /\ \A b \in DOMAIN z : b > n => b >= n + Size(gs, gs[f], n)
  BY <1>1, <1>3, <1>5, <1>6 DEF k, n
<1>13. op = OpAt(gs[f], n)
  BY DEF n
<1>14. Sound(gs, f, z, n)
  BY <1>6, <1>8, <1>9, <1>10, <1>11, <1>12, <1>13 DEF Sound, pops
<1> QED
  BY <1>14 DEF Good, n

(* The height behind an instruction. *)
LEMMA HeightAfterFacts ==
  ASSUME NEW f, NEW a, NEW op, NEW arg, OpAt(f, a) = op, ArgAt(f, a) = arg
  PROVE  \A h : HeightAfter(f, a, h) = h - Pops(op, arg) + Pushes(op)
<1>1. \A h : HeightAfter(f, a, h) = h - Pops(OpAt(f, a), ArgAt(f, a)) + Pushes(OpAt(f, a))
  BY DEF HeightAfter
<1> QED
  BY <1>1, Zenon

(* The instructions after which the next one follows, and which captures do not concern. *)
PlainCode == OpCode \ {"OP_RETURN", "OP_JUMP", "OP_JUMP_IF_FALSE", "OP_LOOP", "OP_CLOSURE", "OP_CLOSE_UPVALUE"}

(* An instruction that does not jump is appended. *)
LEMMA FrameEmits ==
  ASSUME NEW fs, NEW gs, NEW f, NEW bytes, Grows(fs, gs, f, bytes),
         NEW locals, NEW y, NEW on, NEW temps, NEW open, NEW marks, Len(locals) \in Nat,
         FrameOk(fs, f, locals, y, on, temps, open, marks),
         NEW op \in PlainCode, bytes[1] = Code[op], Len(bytes) = 1 + Operands[op],
         NEW arg, arg = IF Operands[op] > 0 THEN bytes[2] ELSE 0,
         OperandsValid(gs, gs[f], Len(fs[f].code), on + temps),
         Pops(op, arg) <= temps
  PROVE  \E z : FrameOk(gs, f, locals, z, on, temps - Pops(op, arg) + Pushes(op), open, marks)
<1> DEFINE n == Len(fs[f].code)
           k == Len(gs[f].code)
           later == temps - Pops(op, arg) + Pushes(op)
           z == Grown(y, k, Known(locals, on, later))
<1>1. /\ IsProgram(fs) /\ IsProgram(gs) /\ f \in DOMAIN fs /\ f \in DOMAIN gs
      /\ Extends(fs[f], gs[f]) /\ SameClosures(fs, gs, f) /\ gs[f].arity = fs[f].arity
      /\ bytes \in Seq(Nat) /\ bytes # <<>> /\ gs[f].code = fs[f].code \o bytes
      /\ n \in Nat /\ k \in Nat /\ k > n /\ k = n + Len(bytes)
  BY GrowsFacts
<1>2. op \in OpCode
  BY DEF PlainCode
<1>3. /\ Whole(gs[f], n) /\ OpAt(gs[f], n) = op /\ ArgAt(gs[f], n) = arg
      /\ Size(gs, gs[f], n) = 1 + Operands[op]
  <2>1. Operands[op] \in 0 .. 2
    BY <1>2, CodesFacts
  <2> QED
    BY <1>2, <2>1, EmittedFacts DEF PlainCode
<1>4. /\ on \in Nat \ {0} /\ on <= Len(locals) /\ temps \in Nat
      /\ y[n].height = on + temps /\ y[n].scope = on /\ y[n].open = Caught(locals, on)
      /\ n \in DOMAIN y /\ \A a \in DOMAIN y : a \in Nat /\ a <= n
  BY <1>1, FrameFacts
<1>5. Pops(op, arg) \in Nat /\ Pushes(op) \in {0, 1}
  BY <1>1, <1>3, InstructionType
<1>6. later \in Nat
  BY <1>4, <1>5
<1> HIDE DEF later, n, k
<1>7. z[n] = y[n] /\ z[k] = Known(locals, on, later) /\ DOMAIN z = DOMAIN y \cup {k}
  <2>1. k \notin DOMAIN y
    BY <1>1, <1>4
  <2> QED
    BY <1>4, <2>1 DEF Grown
<1> HIDE DEF z
<1>8. Leads(gs, gs[f], z, n, k)
  <2>1. z[k].height = HeightAfter(gs[f], n, z[n].height)
    <3>1. HeightAfter(gs[f], n, on + temps) = on + temps - Pops(op, arg) + Pushes(op)
      <4>1. OpAt(gs[f], n) = op /\ ArgAt(gs[f], n) = arg
        BY <1>3
      <4>2. \A h : HeightAfter(gs[f], n, h) = h - Pops(op, arg) + Pushes(op)
        BY ONLY <4>1, HeightAfterFacts
      <4>3. HeightAfter(gs[f], n, on + temps) = (on + temps) - Pops(op, arg) + Pushes(op)
        BY <4>2
      <4> QED
        BY <1>4, <1>5, <4>3
    <3>2. z[k].height = on + later
      BY <1>7 DEF Known
    <3> QED
      BY <1>4, <1>5, <1>7, <3>1, <3>2 DEF later
  <2>2. OpenAfter(gs, gs[f], n, z[n].height, z[n].open) \subseteq z[k].open
    BY <1>3, <1>4, <1>7 DEF OpenAfter, PlainCode, Known
  <2>3. z[n].scope <= z[k].scope
    BY <1>4, <1>7 DEF Known
  <2> QED
    BY <1>7, <2>1, <2>2, <2>3 DEF Leads
<1>9. LeadsOn(gs, gs[f], z, Pending(open, f), n)
  <2>1. n + Size(gs, gs[f], n) = k
    BY <1>1, <1>3
  <2> QED
    BY <1>3, <1>8, <2>1 DEF LeadsOn, PlainCode
<1>10. Good(gs, f, z, Pending(open, f), n)
  <2>1. op # "OP_CLOSE_UPVALUE" /\ op # "OP_RETURN"
    BY DEF PlainCode
  <2>2. \A b \in DOMAIN z : b \in DOMAIN y \/ b = Len(gs[f].code)
    BY <1>7 DEF k
  <2> QED
    BY <1>3, <1>7, <1>9, <2>1, <2>2, GoodEmitted DEF n
<1>11. FrameOk(gs, f, locals, z, on, later, open, marks)
  <2>1. z = Grown(y, Len(gs[f].code), Known(locals, on, later))
    BY DEF z, k
  <2>2. Good(gs, f, z, Pending(open, f), Len(fs[f].code))
    BY <1>10 DEF n
  <2>3. on \in Nat /\ on <= on
    BY <1>4
  <2>4. Opened(fs, gs, f, on, temps, open, open)
    BY DEF Opened
  <2> QED
    BY <1>1, <1>4, <1>6, <2>1, <2>2, <2>3, <2>4, FrameGrows
<1> QED
  BY <1>11 DEF later

-----------------------------------------------------------------------------
(* Jumps are emitted *)

(* The instructions that jump. *)
LeapCode == {"OP_RETURN", "OP_JUMP", "OP_JUMP_IF_FALSE", "OP_LOOP"}

(* The instructions that jump take two bytes of operands, and the one that returns none. *)
LEMMA LeapFacts ==
  ASSUME NEW op \in LeapCode
  PROVE  /\ op \in OpCode
         /\ Operands[op] = IF op = "OP_RETURN" THEN 0 ELSE 2
         /\ \A arg : /\ Pops(op, arg) = IF op \in {"OP_RETURN", "OP_JUMP_IF_FALSE"} THEN 1 ELSE 0
                     /\ op = "OP_JUMP_IF_FALSE" => Pushes(op) = 1
<1>1. op \in OpCode
  BY DEF LeapCode, OpCode, OpCodes
<1>2. Operands[op] = IF op = "OP_RETURN" THEN 0 ELSE 2
  BY <1>1, OperandsFacts DEF LeapCode, Jumps, OneOperand
<1>3. \A arg : /\ Pops(op, arg) = IF op \in {"OP_RETURN", "OP_JUMP_IF_FALSE"} THEN 1 ELSE 0
               /\ op = "OP_JUMP_IF_FALSE" => Pushes(op) = 1
  BY DEF LeapCode, Pops, Pushes
<1> QED
  BY <1>1, <1>2, <1>3

(* What a leap needs. *)
Leaps(fs, gs, f, bytes, on, temps, open, marks, op, later, open2) ==
  /\ op \in {"OP_RETURN", "OP_JUMP_IF_FALSE"} => temps > 0
  /\ op = "OP_RETURN" => f # 1
  /\ later \in Nat
  /\ op = "OP_JUMP_IF_FALSE" => later = temps
  /\ \A e \in open : e.fun = f => e \in open2
  /\ \A e \in open2 : e.fun = f => \/ e \in open
                                   \/ /\ e.at = Len(fs[f].code) /\ e.locals = on /\ e.temps = temps
                                      /\ op \in {"OP_JUMP", "OP_JUMP_IF_FALSE"}
  /\ op \in {"OP_JUMP", "OP_JUMP_IF_FALSE"} => Len(fs[f].code) \in Pending(open2, f)
  /\ op = "OP_LOOP" =>
       \E e \in marks : /\ e.fun = f /\ e.at # -1 /\ e.locals = on /\ e.temps = temps
                        /\ e.at = Len(gs[f].code) - (bytes[2] * (UINT8_MAX + 1) + bytes[3])

(* A jump that waits to be patched, one back to a known place, or a return is appended.  What
   follows it is reached from elsewhere. *)
LEMMA FrameLeaps ==
  ASSUME NEW fs, NEW gs, NEW f, NEW bytes, Grows(fs, gs, f, bytes),
         NEW locals, NEW y, NEW on, NEW temps, NEW open, NEW marks, Len(locals) \in Nat,
         FrameOk(fs, f, locals, y, on, temps, open, marks),
         NEW op \in LeapCode, bytes[1] = Code[op], Len(bytes) = 1 + Operands[op],
         NEW later, NEW open2,
         Leaps(fs, gs, f, bytes, on, temps, open, marks, op, later, open2)
  PROVE  \E z : FrameOk(gs, f, locals, z, on, later, open2, marks)
<1>0. /\ op \in {"OP_RETURN", "OP_JUMP_IF_FALSE"} => temps > 0
      /\ op = "OP_RETURN" => f # 1
      /\ later \in Nat
      /\ op = "OP_JUMP_IF_FALSE" => later = temps
      /\ \A e \in open : e.fun = f => e \in open2
      /\ \A e \in open2 : e.fun = f => \/ e \in open
                                       \/ /\ e.at = Len(fs[f].code) /\ e.locals = on /\ e.temps = temps
                                          /\ op \in {"OP_JUMP", "OP_JUMP_IF_FALSE"}
      /\ op \in {"OP_JUMP", "OP_JUMP_IF_FALSE"} => Len(fs[f].code) \in Pending(open2, f)
      /\ op = "OP_LOOP" =>
           \E e \in marks : /\ e.fun = f /\ e.at # -1 /\ e.locals = on /\ e.temps = temps
                            /\ e.at = Len(gs[f].code) - (bytes[2] * (UINT8_MAX + 1) + bytes[3])
  BY DEF Leaps
<1> USE <1>0
<1> DEFINE n == Len(fs[f].code)
           k == Len(gs[f].code)
           z == Grown(y, k, Known(locals, on, later))
<1>1. /\ IsProgram(fs) /\ IsProgram(gs) /\ f \in DOMAIN fs /\ f \in DOMAIN gs
      /\ Extends(fs[f], gs[f]) /\ SameClosures(fs, gs, f) /\ gs[f].arity = fs[f].arity
      /\ bytes \in Seq(Nat) /\ bytes # <<>> /\ gs[f].code = fs[f].code \o bytes
      /\ n \in Nat /\ k \in Nat /\ k > n /\ k = n + Len(bytes)
  BY ONLY Grows(fs, gs, f, bytes), GrowsFacts
<1>2. /\ op \in OpCode /\ Operands[op] = IF op = "OP_RETURN" THEN 0 ELSE 2
      /\ op # "OP_CLOSURE" /\ op # "OP_CLOSE_UPVALUE"
  BY LeapFacts DEF LeapCode
<1>3. /\ Whole(gs[f], n) /\ OpAt(gs[f], n) = op
      /\ Size(gs, gs[f], n) = 1 + Operands[op]
      /\ op = "OP_LOOP" => Uint16(gs[f].code, n + 1) = bytes[2] * (UINT8_MAX + 1) + bytes[3]
  BY <1>2, EmittedFacts
<1>4. /\ on \in Nat \ {0} /\ on <= Len(locals) /\ temps \in Nat
      /\ y[n].height = on + temps /\ y[n].scope = on /\ y[n].open = Caught(locals, on)
      /\ n \in DOMAIN y
      /\ \A a \in DOMAIN y : /\ a \in Nat /\ a <= n
                             /\ \A i \in 0 .. y[a].scope - 1 : i \in y[a].open <=> locals[i + 1].is_captured
  BY <1>1, FrameFacts
<1>5. \A arg : /\ Pops(op, arg) = IF op \in {"OP_RETURN", "OP_JUMP_IF_FALSE"} THEN 1 ELSE 0
               /\ op = "OP_JUMP_IF_FALSE" => Pushes(op) = 1
  BY LeapFacts
<1> HIDE DEF n, k
<1>6. z[n] = y[n] /\ z[k] = Known(locals, on, later) /\ DOMAIN z = DOMAIN y \cup {k}
      /\ \A a \in DOMAIN y : z[a] = y[a]
  <2>1. k \notin DOMAIN y
    BY <1>1, <1>4
  <2> QED
    BY <1>4, <2>1 DEF Grown
<1> HIDE DEF z
<1>7. \A o : OpenAfter(gs, gs[f], n, y[n].height, o) = o
  BY <1>2, <1>3 DEF OpenAfter
<1>8. n + Size(gs, gs[f], n) = k
  BY <1>1, <1>3
<1>9. LeadsOn(gs, gs[f], z, Pending(open2, f), n)
  <2>1. CASE op = "OP_RETURN"
    BY <1>3, <2>1 DEF LeadsOn
  <2>2. CASE op = "OP_JUMP"
    BY <1>3, <2>2 DEF LeadsOn, n
  <2>3. CASE op = "OP_JUMP_IF_FALSE"
    <3>1. HeightAfter(gs[f], n, y[n].height) = on + later
      <4>1. HeightAfter(gs[f], n, y[n].height) = y[n].height - 1 + 1
        BY <1>3, <1>5, <2>3 DEF HeightAfter
      <4> QED
        BY <1>4, <2>3, <4>1
    <3>2. Leads(gs, gs[f], z, n, k)
      BY <1>4, <1>6, <1>7, <3>1 DEF Leads, Known
    <3> QED
      BY <1>3, <1>8, <2>3, <3>2 DEF LeadsOn, n
  <2>4. CASE op = "OP_LOOP"
    <3>1. PICK e \in marks : /\ e.fun = f /\ e.at # -1 /\ e.locals = on /\ e.temps = temps
                             /\ e.at = k - (bytes[2] * (UINT8_MAX + 1) + bytes[3])
      BY <2>4 DEF k
    <3>2. Marked(y, e)
      BY <3>1 DEF FrameOk
    <3>3. /\ e.at \in DOMAIN y /\ y[e.at].height = on + temps /\ y[e.at].scope = on
          /\ y[e.at].open \subseteq 0 .. on - 1
      BY <3>1, <3>2 DEF Marked
    <3>4. Caught(locals, on) \subseteq y[e.at].open
      BY <1>4, <3>3 DEF Caught
    <3>5. HeightAfter(gs[f], n, y[n].height) = on + temps
      <4>1. HeightAfter(gs[f], n, y[n].height) = y[n].height - 0 + 0
        BY <1>3, <1>5, <2>4 DEF HeightAfter, Pushes
      <4> QED
        BY <1>4, <4>1
    <3>6. Leads(gs, gs[f], z, n, e.at)
      BY <1>4, <1>6, <1>7, <3>3, <3>4, <3>5 DEF Leads
    <3>7. e.at = k - Uint16(gs[f].code, n + 1)
      BY <1>3, <2>4, <3>1
    <3> QED
      BY <1>3, <1>8, <2>4, <3>6, <3>7 DEF LeadsOn
  <2> QED
    BY <2>1, <2>2, <2>3, <2>4 DEF LeapCode
<1>10. Good(gs, f, z, Pending(open2, f), n)
  <2>1. \A b \in DOMAIN z : b \in DOMAIN y \/ b = Len(gs[f].code)
    BY <1>6 DEF k
  <2>2. OperandsValid(gs, gs[f], n, on + temps)
    BY <1>3 DEF OperandsValid, LeapCode
  <2>3. Pops(op, ArgAt(gs[f], n)) <= temps
    BY <1>4, <1>5
  <2>4. Len(bytes) = Size(gs, gs[f], n)
    BY <1>3
  <2> QED
    BY <1>2, <1>3, <1>6, <1>9, <2>1, <2>2, <2>3, <2>4, GoodEmitted DEF n
<1>11. FrameOk(gs, f, locals, z, on, later, open2, marks)
  <2>1. z = Grown(y, Len(gs[f].code), Known(locals, on, later))
    BY DEF z, k
  <2>2. Good(gs, f, z, Pending(open2, f), Len(fs[f].code))
    BY <1>10 DEF n
  <2>3. on \in Nat /\ on <= on
    BY <1>4
  <2>4. Opened(fs, gs, f, on, temps, open, open2)
    BY <1>3 DEF n, Opened
  <2> QED
    BY <1>1, <1>4, <2>1, <2>2, <2>3, <2>4, FrameGrows
<1> QED
  BY <1>11

(* The function returns, and is complete. *)
LEMMA FrameFinishes ==
  ASSUME NEW fs, NEW gs, NEW f, NEW bytes, Grows(fs, gs, f, bytes),
         NEW locals, NEW y, NEW on, NEW temps, NEW open, NEW marks, Len(locals) \in Nat,
         FrameOk(fs, f, locals, y, on, temps, open, marks),
         bytes[1] = Code["OP_RETURN"], Len(bytes) = 1, temps > 0,
         f = 1 => on + temps = 2 /\ gs[f].arity = 0 /\ gs[f].upvalue_count = 0,
         \A e \in open : e.fun # f
  PROVE  Finished(gs, f)
<1> DEFINE n == Len(fs[f].code)
           k == Len(gs[f].code)
           op == "OP_RETURN"
<1>1. /\ IsProgram(fs) /\ IsProgram(gs) /\ f \in DOMAIN fs /\ f \in DOMAIN gs
      /\ Extends(fs[f], gs[f]) /\ SameClosures(fs, gs, f) /\ gs[f].arity = fs[f].arity
      /\ bytes \in Seq(Nat) /\ bytes # <<>> /\ gs[f].code = fs[f].code \o bytes
      /\ n \in Nat /\ k \in Nat /\ k = n + 1
  BY GrowsFacts
<1>2. /\ op \in OpCode /\ Operands[op] = 0 /\ \A arg : Pops(op, arg) = 1
  BY LeapFacts DEF LeapCode
<1>3. /\ Whole(gs[f], n) /\ OpAt(gs[f], n) = op /\ Size(gs, gs[f], n) = 1
  <2>1. bytes[1] = Code[op] /\ Len(bytes) >= 1 + Operands[op]
    BY <1>2
  <2> HIDE DEF op
  <2>2. /\ Whole(gs[f], n) /\ OpAt(gs[f], n) = op /\ (op # "OP_CLOSURE" => Size(gs, gs[f], n) = 1 + Operands[op])
    BY <1>2, <2>1, EmittedFacts
  <2> QED
    BY <1>2, <2>2 DEF op
<1>4. /\ on \in Nat \ {0} /\ on <= Len(locals) /\ temps \in Nat
      /\ n \in DOMAIN y /\ \A a \in DOMAIN y : a \in Nat /\ a <= n
  BY <1>1, FrameFacts
<1>5. Pending(open, f) = {}
  BY DEF Pending
<1> HIDE DEF n, k
<1>6. Good(gs, f, y, {}, n)
  <2>1. \A b \in DOMAIN y : b \in DOMAIN y \/ b = Len(gs[f].code)
    OBVIOUS
  <2>2. OperandsValid(gs, gs[f], n, on + temps)
    BY <1>3 DEF OperandsValid
  <2>3. LeadsOn(gs, gs[f], y, {}, n)
    BY <1>3 DEF LeadsOn
  <2>4. Pops(OpAt(gs[f], n), ArgAt(gs[f], n)) <= temps
    BY <1>2, <1>3, <1>4
  <2>5. Len(bytes) = Size(gs, gs[f], n) /\ OpAt(gs[f], n) # "OP_CLOSE_UPVALUE"
    BY <1>3
  <2> QED
    BY <1>3, <2>2, <2>3, <2>4, <2>5, GoodEmitted DEF n
<1>7. ASSUME NEW a \in DOMAIN y, a # n PROVE Good(gs, f, y, {}, a)
  <2>1. Good(fs, f, y, {}, a)
    BY <1>5, <1>7 DEF FrameOk, n
  <2>2. Whole(fs[f], a) /\ a + Size(fs, fs[f], a) <= n
    BY <2>1 DEF Good, Sound, n
  <2>3. a \in Nat /\ Size(fs, fs[f], a) \in Nat
    BY <1>1, <2>2, InstructionType
  <2>4. SameBytes(fs[f], gs[f], a, Size(fs, fs[f], a))
    <3>1. \A b \in 0 .. n - 1 : At(gs[f].code, b) = At(fs[f].code, b)
      <4>1. fs[f].code \in Seq(Nat)
        BY <1>1, ProgramFacts
      <4> QED
        BY <1>1, <4>1, AppendedCode DEF n
    <3> DEFINE s == Size(fs, fs[f], a)
    <3> HIDE DEF s
    <3>3. a + s <= k /\ \A b \in a .. a + s - 1 : b \in 0 .. n - 1
      BY <1>1, <2>2, <2>3 DEF s
    <3> QED
      BY <3>1, <3>3 DEF SameBytes, s, k
  <2> QED
    BY <1>1, <2>1, <2>4, GoodStays
<1>8. IsSheet(y, k) /\ y[0].height = 1 + gs[f].arity
  <2>1. IsSheet(y, n) /\ y[0].height = 1 + fs[f].arity
    BY DEF FrameOk, n
  <2>2. 0 .. n \subseteq 0 .. k
    BY <1>1
  <2> QED
    BY <1>1, <2>1, <2>2 DEF IsSheet
<1>9. f = 1 => gs[f].arity = 0 /\ gs[f].upvalue_count = 0
  OBVIOUS
<1> QED
  BY <1>6, <1>7, <1>8, <1>9 DEF Finished, k

-----------------------------------------------------------------------------
(* Jumps are patched *)

(* The operand of a jump is overwritten: the code is otherwise the same. *)
Patched(f, g, at) ==
  /\ g.arity = f.arity /\ Len(g.code) = Len(f.code)
  /\ \A b \in 0 .. Len(f.code) - 1 : b \notin {at + 1, at + 2} => At(g.code, b) = At(f.code, b)

(* A jump that waits is patched to lead to where the code ends. *)
LEMMA FramePatches ==
  ASSUME NEW fs, IsProgram(fs), NEW gs, IsProgram(gs), NEW f \in DOMAIN fs, f \in DOMAIN gs,
         Extends(fs[f], gs[f]), SameClosures(fs, gs, f),
         NEW locals, NEW y, NEW on, NEW temps, NEW open, NEW marks, Len(locals) \in Nat,
         FrameOk(fs, f, locals, y, on, temps, open, marks),
         NEW e \in open, e.fun = f, e.locals = on, e.temps = temps,
         Patched(fs[f], gs[f], e.at),
         Uint16(gs[f].code, e.at + 1) = Len(fs[f].code) - 3 - e.at,
         NEW open2, open2 \subseteq open, \A d \in open : d # e => d \in open2
  PROVE  FrameOk(gs, f, locals, y, on, temps, open2, marks)
<1> DEFINE n == Len(fs[f].code)
           at == e.at
<1>1. /\ n \in Nat /\ n \in DOMAIN y
      /\ on \in Nat \ {0} /\ on <= Len(locals) /\ temps \in Nat
      /\ \A a \in DOMAIN y :
           /\ a \in Nat /\ a <= n
           /\ y[a].height \in Nat /\ y[a].scope \in Nat
           /\ y[a].scope <= on /\ y[a].open \subseteq 0 .. y[a].height - 1
           /\ \A i \in 0 .. y[a].scope - 1 : i \in y[a].open <=> locals[i + 1].is_captured
      /\ y[n].height = on + temps /\ y[n].scope = on
      /\ y[n].open = Caught(locals, on)
  BY FrameFacts
<1>2. /\ IsSheet(y, n) /\ y[0].height = 1 + fs[f].arity
      /\ \A a \in DOMAIN y \ {n} : Good(fs, f, y, Pending(open, f), a)
      /\ on \in 1 .. Len(locals) /\ y[n].open \subseteq 0 .. on - 1
      /\ \A a \in DOMAIN y : y[a].scope <= on /\ Mirrors(locals, y, a)
      /\ \A d \in open : d.fun = f => /\ d.at # n /\ Marked(y, d)
                                      /\ OpAt(fs[f], d.at) \in {"OP_JUMP", "OP_JUMP_IF_FALSE"}
      /\ \A d \in marks : d.fun = f /\ d.at # -1 => Marked(y, d)
  BY DEF FrameOk
<1>3. n = Len(gs[f].code) /\ gs[f].arity = fs[f].arity
  BY DEF Patched
<1>4. /\ at \in DOMAIN y /\ at # n /\ OpAt(fs[f], at) \in {"OP_JUMP", "OP_JUMP_IF_FALSE"}
      /\ y[at].height = on + temps /\ y[at].scope = on /\ y[at].open \subseteq 0 .. on - 1
  BY <1>2 DEF Marked
<1>5. Good(fs, f, y, Pending(open, f), at)
  BY <1>2, <1>4
<1>6. /\ Whole(fs[f], at) /\ Size(fs, fs[f], at) = 3 /\ at \in Nat /\ at + 3 <= n
      /\ \A b \in DOMAIN y : b > at => b >= at + 3
  <2>1. Whole(fs[f], at) /\ at + Size(fs, fs[f], at) <= n
        /\ \A b \in DOMAIN y : b > at => b >= at + Size(fs, fs[f], at)
    BY <1>5 DEF Good, Sound
  <2>2. Size(fs, fs[f], at) = 1 + Operands[OpAt(fs[f], at)] /\ at \in Nat
    BY <1>4, <2>1, InstructionType
  <2>3. Operands[OpAt(fs[f], at)] = 2
    BY <1>4, OperandsFacts DEF Jumps, OpCode, OpCodes
  <2>4. Size(fs, fs[f], at) = 3
    BY <2>2, <2>3
  <2> QED
    BY <2>1, <2>2, <2>4
<1> HIDE DEF n, at
<1>7. \A b \in DOMAIN y : b # n => At(gs[f].code, b) = At(fs[f].code, b)
  <2> SUFFICES ASSUME NEW b \in DOMAIN y, b # n PROVE At(gs[f].code, b) = At(fs[f].code, b)
    OBVIOUS
  <2>1. b \in Nat /\ b <= n /\ n \in Nat
    BY <1>1
  <2>2. at \in Nat /\ (b > at => b >= at + 3)
    BY <1>6
  <2>3. b \in 0 .. n - 1 /\ b \notin {at + 1, at + 2}
    BY ONLY b # n, <2>1, <2>2
  <2> QED
    BY <2>3 DEF Patched, n, at
<1>8. ASSUME NEW a \in DOMAIN y, a # n, a # at PROVE Good(gs, f, y, Pending(open2, f), a)
  <2> DEFINE size == Size(fs, fs[f], a)
  <2>1. Good(fs, f, y, Pending(open, f), a)
    BY <1>2, <1>8
  <2>2. /\ Whole(fs[f], a) /\ a + size <= n /\ \A b \in DOMAIN y : b > a => b >= a + size
    BY <2>1 DEF Good, Sound, n
  <2>3. a \in Nat /\ size \in Nat
    BY <2>2, InstructionType
  <2> HIDE DEF size
  <2>4. \A b \in a .. a + size - 1 : b \in 0 .. n - 1 /\ b \notin {at + 1, at + 2}
    <3>1. at > a => at >= a + size
      BY <1>4, <2>2
    <3>2. a > at => a >= at + 3
      BY <1>6
    <3> QED
      BY <1>1, <1>6, <1>8, <2>2, <2>3, <3>1, <3>2
  <2>5. SameBytes(fs[f], gs[f], a, size)
    <3>1. \A b \in 0 .. n - 1 : b \notin {at + 1, at + 2} => At(gs[f].code, b) = At(fs[f].code, b)
      BY DEF Patched, n, at
    <3>2. a + size <= Len(gs[f].code)
      BY <1>3, <2>2
    <3> QED
      BY <2>4, <3>1, <3>2 DEF SameBytes
  <2>6. a \in Pending(open, f) => a \in Pending(open2, f)
    BY <1>8 DEF Pending, at
  <2> QED
    BY <2>1, <2>5, <2>6, GoodStays DEF size
<1>9. Good(gs, f, y, Pending(open2, f), at)
  <2> DEFINE op == OpAt(fs[f], at)
  <2>1. At(gs[f].code, at) = At(fs[f].code, at)
    BY <1>4, <1>7
  <2>2. OpAt(gs[f], at) = op
    BY <2>1 DEF OpAt
  <2>3. op \in {"OP_JUMP", "OP_JUMP_IF_FALSE"} /\ op \in LeapCode
    BY <1>4 DEF LeapCode
  <2>4. Whole(gs[f], at)
    <3>1. At(fs[f].code, at) \in DOMAIN Named
      BY <1>6 DEF Whole
    <3>2. Operands[op] = 2
      BY <2>3, LeapFacts
    <3>3. at \in 0 .. n - 1 /\ at + 2 < n
      BY <1>1, <1>6
    <3> QED
      BY <1>3, <2>1, <2>2, <3>1, <3>2, <3>3 DEF Whole
  <2>5. Size(gs, gs[f], at) = 3
    BY <2>2, <2>3, <2>4, InstructionType, LeapFacts
  <2>6. \A arg : /\ Pops(op, arg) = IF op = "OP_JUMP_IF_FALSE" THEN 1 ELSE 0
                 /\ Pushes(op) = IF op = "OP_JUMP_IF_FALSE" THEN 1 ELSE 0
    <3>1. \A arg : Pops(op, arg) = IF op \in {"OP_RETURN", "OP_JUMP_IF_FALSE"} THEN 1 ELSE 0
      BY <2>3, LeapFacts
    <3> QED
      BY <2>3, <3>1 DEF Pushes
  <2> HIDE DEF op
  <2>7. Sound(gs, f, y, at)
    <3>1. /\ y[at].height > Pops(op, ArgAt(fs[f], at))
          /\ y[at].open \cap y[at].height - Pops(op, ArgAt(fs[f], at)) .. y[at].height - 1 = {}
          /\ y[at].scope <= y[at].height - Pops(op, ArgAt(fs[f], at))
      BY <1>5, <2>3 DEF Good, Sound, op
    <3>2. Pops(op, ArgAt(fs[f], at)) = Pops(op, ArgAt(gs[f], at))
      BY <2>6
    <3>3. OperandsValid(gs, gs[f], at, y[at].height)
      BY <2>2, <2>3 DEF OperandsValid
    <3> QED
      BY <1>3, <1>6, <2>2, <2>3, <2>4, <2>5, <3>1, <3>2, <3>3 DEF Sound
  <2>8. \A b : OpenAfter(gs, gs[f], at, y[at].height, y[at].open) = y[at].open
    BY <2>2, <2>3 DEF OpenAfter
  <2>9. HeightAfter(gs[f], at, y[at].height) = on + temps
    <3>1. HeightAfter(gs[f], at, y[at].height) = (on + temps) - Pops(op, ArgAt(gs[f], at)) + Pushes(op)
      BY <1>4, <2>2 DEF HeightAfter
    <3> QED
      BY <1>1, <2>6, <3>1
  <2>10. Leads(gs, gs[f], y, at, n)
    <3>1. y[at].open \subseteq y[n].open
      BY <1>1, <1>4 DEF Caught
    <3> QED
      BY <1>1, <1>4, <2>8, <2>9, <3>1 DEF Leads
  <2>11. op = "OP_JUMP_IF_FALSE" => Leads(gs, gs[f], y, at, at + 3)
    <3> SUFFICES ASSUME op = "OP_JUMP_IF_FALSE" PROVE Leads(gs, gs[f], y, at, at + 3)
      OBVIOUS
    <3>1. Leads(fs, fs[f], y, at, at + 3)
      BY <1>5, <1>6 DEF Good, LeadsOn, op
    <3>2. HeightAfter(fs[f], at, y[at].height) = HeightAfter(gs[f], at, y[at].height)
      BY <2>2, <2>6 DEF HeightAfter, op
    <3>3. OpenAfter(fs, fs[f], at, y[at].height, y[at].open) = y[at].open
      BY <2>3 DEF OpenAfter, op
    <3> QED
      BY <2>8, <3>1, <3>2, <3>3 DEF Leads
  <2>12. at + 3 + Uint16(gs[f].code, at + 1) = n
    <3>1. Uint16(gs[f].code, at + 1) = n - 3 - at
      BY DEF n, at
    <3> QED
      BY <1>1, <1>6, <3>1
  <2>13. LeadsOn(gs, gs[f], y, Pending(open2, f), at)
    BY <2>2, <2>3, <2>5, <2>10, <2>11, <2>12 DEF LeadsOn
  <2> QED
    BY <2>7, <2>13 DEF Good
<1>10. \A d \in open2 : d.fun = f => /\ d.at # n /\ Marked(y, d)
                                     /\ OpAt(gs[f], d.at) \in {"OP_JUMP", "OP_JUMP_IF_FALSE"}
  <2> SUFFICES ASSUME NEW d \in open2, d.fun = f
               PROVE  /\ d.at # n /\ Marked(y, d)
                      /\ OpAt(gs[f], d.at) \in {"OP_JUMP", "OP_JUMP_IF_FALSE"}
    OBVIOUS
  <2>1. /\ d.at # n /\ Marked(y, d) /\ OpAt(fs[f], d.at) \in {"OP_JUMP", "OP_JUMP_IF_FALSE"}
    BY <1>2
  <2>2. d.at \in DOMAIN y
    BY <2>1 DEF Marked
  <2> QED
    BY <1>7, <2>1, <2>2 DEF OpAt
<1>11. \A a \in DOMAIN y \ {n} : Good(gs, f, y, Pending(open2, f), a)
  BY <1>8, <1>9
<1>12. IsSheet(y, Len(gs[f].code)) /\ y[0].height = 1 + gs[f].arity
  BY <1>2, <1>3
<1>13. /\ n \in DOMAIN y /\ on \in 1 .. Len(locals) /\ temps \in Nat
       /\ y[n].height = on + temps /\ y[n].scope = on /\ y[n].open \subseteq 0 .. on - 1
       /\ \A a \in DOMAIN y : y[a].scope <= on /\ Mirrors(locals, y, a)
       /\ \A d \in marks : d.fun = f /\ d.at # -1 => Marked(y, d)
  BY <1>1, <1>2
<1> QED
  BY <1>3, <1>10, <1>11, <1>12, <1>13 DEF FrameOk

-----------------------------------------------------------------------------
(* Scopes are left *)

(* How a local leaves its scope. *)
ExitCode(captured) == IF captured THEN "OP_CLOSE_UPVALUE" ELSE "OP_POP"

(* Either instruction takes one value from the stack. *)
LEMMA ExitCodeFacts ==
  ASSUME NEW captured \in BOOLEAN
  PROVE  /\ ExitCode(captured) \in OpCode /\ Operands[ExitCode(captured)] = 0
         /\ \A arg : Pops(ExitCode(captured), arg) = 1
         /\ Pushes(ExitCode(captured)) = 0
         /\ ExitCode(captured) \in {"OP_CLOSE_UPVALUE", "OP_POP"}
<1>1. ExitCode(captured) \in {"OP_CLOSE_UPVALUE", "OP_POP"}
  BY DEF ExitCode
<1>2. ExitCode(captured) \in OpCode
  BY <1>1 DEF OpCode, OpCodes
<1>3. Operands[ExitCode(captured)] = 0
  BY <1>1, <1>2, OperandsFacts DEF OneOperand, Jumps
<1>4. \A arg : Pops(ExitCode(captured), arg) = 1
  BY <1>1 DEF Pops
<1>5. Pushes(ExitCode(captured)) = 0
  BY <1>1 DEF Pushes
<1> QED
  BY <1>1, <1>2, <1>3, <1>4, <1>5

(* Bytes, or none, are appended to the code of a function. *)
Lengthens(fs, gs, f, bytes) ==
  /\ IsProgram(fs) /\ IsProgram(gs) /\ f \in DOMAIN fs /\ f \in DOMAIN gs
  /\ Extends(fs[f], gs[f]) /\ SameClosures(fs, gs, f) /\ gs[f].arity = fs[f].arity
  /\ bytes \in Seq(Nat) /\ gs[f].code = fs[f].code \o bytes

(* The first m of `on' locals are kept, and the bytes are those that remove the others. *)
Exiting(locals, on, m, kept, bytes) ==
  /\ m \in Nat \ {0} /\ m <= on /\ Len(bytes) = on - m
  /\ \A i \in 1 .. on : locals[i].is_captured \in BOOLEAN
  /\ \A j \in 0 .. on - m - 1 : bytes[j + 1] = Code[ExitCode(locals[on - j].is_captured)]
  /\ Len(kept) = m /\ \A i \in 1 .. m : kept[i].is_captured = locals[i].is_captured

(* No jump waits, and no address is noted, where others are in scope. *)
Around(f, m, open, marks, marks2) ==
  /\ \A e \in open : e.fun = f => e.locals <= m
  /\ \A e \in marks2 : e.fun = f => e \in marks /\ (e.at # -1 => e.locals <= m)

(* The locals behind the first m leave their scope, the last one first. *)
LEMMA FrameExits ==
  ASSUME NEW fs, NEW gs, NEW f, NEW bytes, Lengthens(fs, gs, f, bytes),
         NEW locals, NEW y, NEW on, NEW open, NEW marks, Len(locals) \in Nat,
         FrameOk(fs, f, locals, y, on, 0, open, marks),
         NEW m, NEW kept, Exiting(locals, on, m, kept, bytes),
         NEW marks2, Around(f, m, open, marks, marks2)
  PROVE  \E z : FrameOk(gs, f, kept, z, m, 0, open, marks2)
<1>0. /\ IsProgram(fs) /\ IsProgram(gs) /\ f \in DOMAIN fs /\ f \in DOMAIN gs
      /\ Extends(fs[f], gs[f]) /\ SameClosures(fs, gs, f) /\ gs[f].arity = fs[f].arity
      /\ bytes \in Seq(Nat) /\ gs[f].code = fs[f].code \o bytes
      /\ m \in Nat \ {0} /\ m <= on /\ Len(bytes) = on - m
      /\ \A i \in 1 .. on : locals[i].is_captured \in BOOLEAN
      /\ \A j \in 0 .. on - m - 1 : bytes[j + 1] = Code[ExitCode(locals[on - j].is_captured)]
      /\ Len(kept) = m /\ \A i \in 1 .. m : kept[i].is_captured = locals[i].is_captured
      /\ \A e \in open : e.fun = f => e.locals <= m
      /\ \A e \in marks2 : e.fun = f => e \in marks /\ (e.at # -1 => e.locals <= m)
  BY DEF Exiting, Around, Lengthens
<1> USE <1>0
<1> DEFINE n == Len(fs[f].code)
           k == Len(gs[f].code)
           x == Capped(y, m)
           r(a) == [height |-> on - (a - n), scope |-> m, open |-> Caught(locals, on - (a - n))]
           z == [a \in DOMAIN y \cup (n + 1) .. k |-> IF a \in DOMAIN y THEN x[a] ELSE r(a)]
<1>1. /\ n \in Nat /\ n \in DOMAIN y
      /\ on \in Nat \ {0} /\ on <= Len(locals)
      /\ \A a \in DOMAIN y :
           /\ a \in Nat /\ a <= n
           /\ y[a].height \in Nat /\ y[a].scope \in Nat
           /\ y[a].scope <= on /\ y[a].open \subseteq 0 .. y[a].height - 1
           /\ \A i \in 0 .. y[a].scope - 1 : i \in y[a].open <=> locals[i + 1].is_captured
      /\ y[n].height = on + 0 /\ y[n].scope = on
      /\ y[n].open = Caught(locals, on)
  BY FrameFacts
<1>2. /\ k \in Nat /\ k = n + (on - m)
      /\ \A b \in 0 .. n - 1 : At(gs[f].code, b) = At(fs[f].code, b)
      /\ \A j \in 0 .. on - m - 1 : At(gs[f].code, n + j) = bytes[j + 1]
  <2>1. fs[f].code \in Seq(Nat)
    BY ProgramFacts
  <2>2. on - m \in Nat
    BY <1>1
  <2> QED
    <3>1. /\ k = n + Len(bytes)
          /\ \A b \in 0 .. n - 1 : At(gs[f].code, b) = At(fs[f].code, b)
          /\ \A j \in 0 .. Len(bytes) - 1 : At(gs[f].code, n + j) = bytes[j + 1]
      <4> DEFINE both == fs[f].code \o bytes
      <4>1. /\ Len(both) = n + Len(bytes)
            /\ \A b \in 0 .. n - 1 : At(both, b) = At(fs[f].code, b)
            /\ \A j \in 0 .. Len(bytes) - 1 : At(both, n + j) = bytes[j + 1]
        BY ONLY <2>1, bytes \in Seq(Nat), AppendedCode
      <4> HIDE DEF both
      <4>2. gs[f].code = both
        BY DEF both
      <4> QED
        BY ONLY <4>1, <4>2
    <3> HIDE DEF n, k
    <3> QED
      BY ONLY <1>1, <2>2, <3>1, Len(bytes) = on - m
<1>3. /\ IsSheet(y, n) /\ y[0].height = 1 + fs[f].arity /\ 0 \in DOMAIN y
      /\ \A a \in DOMAIN y \ {n} : Good(fs, f, y, Pending(open, f), a)
      /\ \A e \in open : e.fun = f => /\ e.at # n /\ Marked(y, e)
                                      /\ OpAt(fs[f], e.at) \in {"OP_JUMP", "OP_JUMP_IF_FALSE"}
      /\ \A e \in marks : e.fun = f /\ e.at # -1 => Marked(y, e)
  BY DEF FrameOk, IsSheet
<1> HIDE DEF n, k
<1>4. /\ DOMAIN x = DOMAIN y
      /\ \A a \in DOMAIN y : /\ x[a].height = y[a].height /\ x[a].open = y[a].open
                             /\ x[a].scope = IF y[a].scope <= m THEN y[a].scope ELSE m
  BY DEF Capped
<1> HIDE DEF x
<1>5. /\ DOMAIN z = DOMAIN y \cup (n + 1) .. k
      /\ \A a \in DOMAIN y : z[a] = x[a]
  OBVIOUS
<1>6. ASSUME NEW a \in n .. k
      PROVE  /\ a \in DOMAIN z /\ a \in Nat
             /\ z[a].height = on - (a - n) /\ z[a].scope = m /\ z[a].open = Caught(locals, on - (a - n))
  <2>1. CASE a = n
    BY <1>1, <1>4, <1>5, <2>1
  <2>2. CASE a # n
    <3>1. a \in (n + 1) .. k /\ a \notin DOMAIN y
      BY <1>1, <1>2, <2>2
    <3>2. z[a] = r(a)
      BY <3>1
    <3> QED
      BY <1>1, <1>2, <3>1, <3>2
  <2> QED
    BY <2>1, <2>2
<1> HIDE DEF z
<1>7. ASSUME NEW a \in DOMAIN y, a # n PROVE Good(gs, f, z, Pending(open, f), a)
  <2>1. Good(fs, f, x, Pending(open, f), a)
    BY <1>3, <1>7, GoodCapped DEF x
  <2>2. Whole(fs[f], a) /\ a + Size(fs, fs[f], a) <= n
    BY <2>1 DEF Good, Sound, n
  <2>3. a \in Nat /\ Size(fs, fs[f], a) \in Nat
    BY <2>2, InstructionType
  <2> DEFINE s == Size(fs, fs[f], a)
  <2> HIDE DEF s
  <2>4. SameBytes(fs[f], gs[f], a, s)
    <3>1. a + s <= k /\ \A b \in a .. a + s - 1 : b \in 0 .. n - 1
      BY <1>1, <1>2, <2>2, <2>3 DEF s
    <3> QED
      BY <1>2, <3>1 DEF SameBytes, k
  <2>5. \A b \in DOMAIN z \ DOMAIN x : b >= a + s
    <3> SUFFICES ASSUME NEW b \in DOMAIN z \ DOMAIN x PROVE b >= a + s
      OBVIOUS
    <3>1. b \in (n + 1) .. k
      BY <1>4, <1>5
    <3> QED
      BY <1>1, <1>2, <2>2, <2>3, <3>1 DEF s
  <2>6. DOMAIN x \subseteq DOMAIN z /\ a \in DOMAIN x /\ \A b \in DOMAIN x : z[b] = x[b]
    BY <1>4, <1>5, <1>7
  <2> QED
    BY <2>1, <2>4, <2>5, <2>6, GoodStays DEF s
<1>8. ASSUME NEW a \in n .. k - 1 PROVE Good(gs, f, z, Pending(open, f), a)
  <2> DEFINE j == a - n
             op == ExitCode(locals[on - j].is_captured)
             h == on - j
  <2>0. n \in Nat /\ k \in Nat /\ on \in Nat \ {0} /\ m \in Nat \ {0} /\ k = n + (on - m) /\ m <= on
    BY <1>1, <1>2
  <2>1. /\ a \in Int /\ j \in 0 .. on - m - 1 /\ on - j \in 1 .. on /\ a = n + j /\ h \in Nat /\ h > m /\ m \in Nat \ {0}
        /\ a \in n .. k /\ a + 1 \in n .. k /\ on - ((a + 1) - n) = h - 1 /\ a \in Nat /\ a < k
    BY ONLY <2>0, a \in n .. k - 1
  <2>2. locals[on - j].is_captured \in BOOLEAN
    BY <2>1
  <2>3. /\ op \in OpCode /\ Operands[op] = 0 /\ \A arg : Pops(op, arg) = 1
        /\ Pushes(op) = 0 /\ op \in {"OP_CLOSE_UPVALUE", "OP_POP"}
    BY <2>2, ExitCodeFacts
  <2>4. At(gs[f].code, a) = Code[op]
    BY <1>2, <2>1
  <2> HIDE DEF op
  <2>5. OpAt(gs[f], a) = op /\ At(gs[f].code, a) \in DOMAIN Named
    BY <2>3, <2>4, CodesFacts DEF OpAt
  <2>6. Whole(gs[f], a)
    BY <2>1, <2>3, <2>5 DEF Whole, k
  <2>7. Size(gs, gs[f], a) = 1
    BY <2>3, <2>5, <2>6, InstructionType
  <2>8. /\ z[a].height = h /\ z[a].scope = m /\ z[a].open = Caught(locals, h)
        /\ a + 1 \in DOMAIN z
        /\ z[a + 1].height = h - 1 /\ z[a + 1].scope = m /\ z[a + 1].open = Caught(locals, h - 1)
    BY <1>6, <2>1
  <2>9. op = "OP_POP" => h - 1 \notin Caught(locals, h)
    <3>1. op = "OP_POP" => ~locals[on - j].is_captured
      BY <2>2 DEF op, ExitCode
    <3>2. (h - 1) + 1 = on - j
      BY <2>1
    <3> HIDE DEF h, j
    <3> QED
      BY <2>1, <3>1, <3>2 DEF Caught
  <2> HIDE DEF h, j
  <2>10. Sound(gs, f, z, a)
    <3>1. OperandsValid(gs, gs[f], a, h)
      BY <2>3, <2>5 DEF OperandsValid
    <3>2. op \notin {"OP_RETURN", "OP_CLOSE_UPVALUE"} => z[a].open \cap h - 1 .. h - 1 = {}
      BY <2>1, <2>3, <2>8, <2>9
    <3>3. m <= h - 1 /\ h > 1
      BY <2>1
    <3>4. \A b \in DOMAIN z : b > a => b >= a + 1
      <4>1. \A b \in DOMAIN z : b \in Nat
        BY <1>1, <1>2, <1>5
      <4> QED
        BY ONLY <2>1, <4>1
    <3>5. a + 1 <= Len(gs[f].code)
      BY <1>2, <2>1 DEF k
    <3> QED
      BY <2>3, <2>5, <2>6, <2>7, <2>8, <3>1, <3>2, <3>3, <3>4, <3>5 DEF Sound
  <2>11. Leads(gs, gs[f], z, a, a + 1)
    <3>1. HeightAfter(gs[f], a, h) = h - 1 + 0
      BY <2>3, <2>5 DEF HeightAfter
    <3>2. Caught(locals, h) \ {h - 1} \subseteq Caught(locals, h - 1)
      <4>1. h \in Nat
        BY <2>1
      <4>2. \A i \in 0 .. h - 1 : i # h - 1 => i \in 0 .. (h - 1) - 1
        BY ONLY <4>1
      <4> QED
        BY ONLY <4>2 DEF Caught
    <3>3. OpenAfter(gs, gs[f], a, h, z[a].open) \subseteq z[a + 1].open
      <4>1. CASE op = "OP_POP"
        <5>1. OpenAfter(gs, gs[f], a, h, z[a].open) = z[a].open
          BY <2>5, <4>1 DEF OpenAfter
        <5> QED
          BY <2>8, <2>9, <3>2, <4>1, <5>1
      <4>2. CASE op = "OP_CLOSE_UPVALUE"
        BY <2>5, <2>8, <3>2, <4>2 DEF OpenAfter
      <4> QED
        BY <2>3, <4>1, <4>2
    <3>4. HeightAfter(gs[f], a, h) = h - 1
      BY <2>1, <3>1
    <3> QED
      BY <2>1, <2>8, <3>3, <3>4 DEF Leads
  <2>12. LeadsOn(gs, gs[f], z, Pending(open, f), a)
    BY <2>3, <2>5, <2>7, <2>11 DEF LeadsOn
  <2> QED
    BY <2>10, <2>12 DEF Good
<1>9. k \in n .. k /\ on - (k - n) = m /\ k \in DOMAIN z
  BY <1>1, <1>2, <1>6
<1>10. \A a \in DOMAIN z \ {k} : Good(gs, f, z, Pending(open, f), a)
  <2> SUFFICES ASSUME NEW a \in DOMAIN z \ {k} PROVE Good(gs, f, z, Pending(open, f), a)
    OBVIOUS
  <2>1. (a \in DOMAIN y /\ a # n) \/ a \in n .. k - 1
    <3>1. n \in Nat /\ n \in DOMAIN y /\ on \in Nat /\ m \in Nat /\ m <= on /\ k = n + (on - m)
      BY <1>1, <1>2
    <3>2. \A b \in DOMAIN y : b \in Nat /\ b <= n
      BY <1>1
    <3>3. DOMAIN z = DOMAIN y \cup (n + 1) .. k
      BY <1>5
    <3> QED
      BY ONLY <3>1, <3>2, <3>3, a \in DOMAIN z \ {k}
  <2> QED
    BY <1>7, <1>8, <2>1
<1>11. \A a \in DOMAIN z :
         /\ a \in 0 .. k /\ z[a].height \in Nat /\ z[a].scope \in Nat
         /\ z[a].open \in SUBSET (0 .. z[a].height - 1)
         /\ z[a].scope <= m /\ Mirrors(kept, z, a)
  <2> SUFFICES ASSUME NEW a \in DOMAIN z
               PROVE  /\ a \in 0 .. k /\ z[a].height \in Nat /\ z[a].scope \in Nat
                      /\ z[a].open \in SUBSET (0 .. z[a].height - 1)
                      /\ z[a].scope <= m /\ Mirrors(kept, z, a)
    OBVIOUS
  <2>1. CASE a \in DOMAIN y
    <3>1. /\ z[a].height = y[a].height /\ z[a].open = y[a].open
          /\ z[a].scope = IF y[a].scope <= m THEN y[a].scope ELSE m
      BY <1>4, <1>5, <2>1
    <3>2. /\ a \in Nat /\ a <= n /\ y[a].height \in Nat /\ y[a].scope \in Nat
          /\ y[a].open \subseteq 0 .. y[a].height - 1
          /\ \A i \in 0 .. y[a].scope - 1 : i \in y[a].open <=> locals[i + 1].is_captured
      BY <1>1, <2>1
    <3>3. ASSUME NEW i \in 0 .. z[a].scope - 1 PROVE i \in z[a].open <=> kept[i + 1].is_captured
      <4>1. i \in 0 .. y[a].scope - 1 /\ i + 1 \in 1 .. m
        BY <3>1, <3>2, <3>3
      <4> QED
        BY <3>1, <3>2, <4>1
    <3>4. a \in 0 .. k
      BY <1>1, <1>2, <3>2
    <3> QED
      BY <3>1, <3>2, <3>3, <3>4 DEF Mirrors
  <2>2. CASE a \in n .. k
    <3>1. /\ z[a].height = on - (a - n) /\ z[a].scope = m /\ z[a].open = Caught(locals, on - (a - n))
      BY <1>6, <2>2
    <3>2. on - (a - n) \in Nat /\ on - (a - n) >= m /\ a \in 0 .. k
      BY <1>1, <1>2, <2>2
    <3>3. ASSUME NEW i \in 0 .. m - 1 PROVE i \in z[a].open <=> kept[i + 1].is_captured
      <4>1. i \in 0 .. (on - (a - n)) - 1 /\ i + 1 \in 1 .. m
        BY <3>2
      <4> QED
        BY <3>1, <4>1 DEF Caught
    <3>4. Caught(locals, on - (a - n)) \in SUBSET (0 .. on - (a - n) - 1)
      BY DEF Caught
    <3> QED
      BY <3>1, <3>2, <3>3, <3>4 DEF Mirrors
  <2> QED
    BY <1>1, <1>2, <1>5, <2>1, <2>2
<1>12. IsSheet(z, k) /\ z[0].height = 1 + gs[f].arity
  BY <1>3, <1>4, <1>5, <1>11 DEF IsSheet
<1>13. \A e : Marked(y, e) /\ e.locals <= m => Marked(z, e)
  <2> SUFFICES ASSUME NEW e, Marked(y, e), e.locals <= m PROVE Marked(z, e)
    OBVIOUS
  <2> QED
    BY <1>4, <1>5 DEF Marked
<1>14. \A e \in open : e.fun = f => /\ e.at # k /\ Marked(z, e)
                                    /\ OpAt(gs[f], e.at) \in {"OP_JUMP", "OP_JUMP_IF_FALSE"}
  <2> SUFFICES ASSUME NEW e \in open, e.fun = f
               PROVE  /\ e.at # k /\ Marked(z, e)
                      /\ OpAt(gs[f], e.at) \in {"OP_JUMP", "OP_JUMP_IF_FALSE"}
    OBVIOUS
  <2>1. e.at # n /\ Marked(y, e) /\ OpAt(fs[f], e.at) \in {"OP_JUMP", "OP_JUMP_IF_FALSE"}
    BY <1>3
  <2>2. e.at \in DOMAIN y
    BY <2>1 DEF Marked
  <2>3. e.at \in 0 .. n - 1 /\ e.at # k
    BY <1>1, <1>2, <2>1, <2>2
  <2>4. OpAt(gs[f], e.at) = OpAt(fs[f], e.at)
    BY <1>2, <2>3 DEF OpAt
  <2> QED
    BY <1>13, <2>1, <2>3, <2>4
<1>15. \A e \in marks2 : e.fun = f /\ e.at # -1 => Marked(z, e)
  BY <1>3, <1>13
<1>16. /\ z[k].height = m + 0 /\ z[k].scope = m /\ z[k].open \subseteq 0 .. m - 1 /\ m \in 1 .. Len(kept)
  BY <1>6, <1>9 DEF Caught
<1>17. FrameOk(gs, f, kept, z, m, 0, open, marks2)
  BY <1>9, <1>10, <1>11, <1>12, <1>14, <1>15, <1>16 DEF FrameOk, k
<1> QED
  BY <1>17

-----------------------------------------------------------------------------
(* Functions begin and end *)

(* On the stack are its locals and values, as many as it has arguments. *)
Starting(gs, f, locals, on, temps, open, marks) ==
  /\ gs[f].code = <<>> /\ Len(locals) \in Nat /\ on \in 1 .. Len(locals) /\ temps \in Nat
  /\ gs[f].arity = on + temps - 1
  /\ \A e \in open : e.fun # f
  /\ \A e \in marks : e.fun = f => e.at = -1

(* A function without code yet. *)
LEMMA FrameBegins ==
  ASSUME NEW gs, NEW f, NEW locals, NEW on, NEW temps, NEW open, NEW marks,
         Starting(gs, f, locals, on, temps, open, marks)
  PROVE  \E y : FrameOk(gs, f, locals, y, on, temps, open, marks)
<1> DEFINE r == Known(locals, on, temps)
           y == [a \in {0} |-> r]
<1>1. /\ Len(gs[f].code) = 0 /\ on \in Nat \ {0} /\ on \in 1 .. Len(locals) /\ temps \in Nat
      /\ 1 + gs[f].arity = on + temps
      /\ \A e \in open : e.fun # f
      /\ \A e \in marks : e.fun = f => e.at = -1
  BY DEF Starting
<1>2. r.height = on + temps /\ r.scope = on /\ r.open = Caught(locals, on)
  BY DEF Known
<1>3. DOMAIN y = {0} /\ y[0] = r
  OBVIOUS
<1> HIDE DEF r, y
<1>4. r.open \subseteq 0 .. on - 1 /\ \A i \in 0 .. on - 1 : i \in r.open <=> locals[i + 1].is_captured
  BY <1>2 DEF Caught
<1>5. IsSheet(y, 0)
  <2>1. r.open \subseteq 0 .. r.height - 1 /\ r.height \in Nat /\ r.scope \in Nat
    BY <1>1, <1>2, <1>4
  <2> QED
    BY <1>1, <1>3, <2>1 DEF IsSheet
<1>6. \A a \in DOMAIN y : y[a].scope <= on /\ Mirrors(locals, y, a)
  BY <1>1, <1>2, <1>3, <1>4 DEF Mirrors
<1>7. y[0].height = 1 + gs[f].arity
  BY <1>1, <1>2, <1>3
<1>8. FrameOk(gs, f, locals, y, on, temps, open, marks)
  BY <1>1, <1>2, <1>3, <1>4, <1>5, <1>6, <1>7 DEF FrameOk
<1> QED
  BY <1>8

(* While a function has no code, its arguments are all that is on the stack. *)
LEMMA FrameBegun ==
  ASSUME NEW fs, NEW f, fs[f].code = <<>>, NEW locals, NEW y, NEW on, NEW temps, NEW open, NEW marks,
         FrameOk(fs, f, locals, y, on, temps, open, marks)
  PROVE  1 + fs[f].arity = on + temps
<1>1. Len(fs[f].code) = 0
  OBVIOUS
<1> QED
  BY <1>1 DEF FrameOk

(* A closure v with `count' upvalues: those it takes of the first m locals, and those it passes on. *)
Closes(gs, f, locals, bytes, v, count, m) ==
  /\ bytes[1] = Code["OP_CLOSURE"]
  /\ bytes[2] < Len(gs[f].constants) /\ gs[f].constants[bytes[2] + 1] = v /\ IsFun(v)
  /\ count = gs[v.fun].upvalue_count /\ count \in Nat /\ Len(bytes) = 2 + 2 * count
  /\ \A i \in 0 .. count - 1 :
       IF bytes[3 + 2 * i] # 0
       THEN bytes[4 + 2 * i] \in 1 .. m - 1 /\ locals[bytes[4 + 2 * i] + 1].is_captured
       ELSE bytes[4 + 2 * i] < gs[f].upvalue_count

(* On top of `on' locals and temps values comes one more: m locals and `later' values then. *)
Lifts(locals, on, temps, m, later) ==
  /\ m \in Nat /\ on <= m /\ m <= on + 1 /\ m <= Len(locals)
  /\ later \in Nat /\ m + later = on + temps + 1

(* A closure is made: of locals that are known to be captured, and of upvalues. *)
LEMMA FrameCloses ==
  ASSUME NEW fs, NEW gs, NEW f, NEW bytes, Grows(fs, gs, f, bytes),
         NEW locals, NEW y, NEW on, NEW temps, NEW open, NEW marks, Len(locals) \in Nat,
         FrameOk(fs, f, locals, y, on, temps, open, marks),
         NEW m, NEW later, Lifts(locals, on, temps, m, later),
         NEW v, NEW count, Closes(gs, f, locals, bytes, v, count, m)
  PROVE  \E z : FrameOk(gs, f, locals, z, m, later, open, marks)
<1> DEFINE n == Len(fs[f].code)
           k == Len(gs[f].code)
           z == Grown(y, k, Known(locals, m, later))
           op == "OP_CLOSURE"
<1>0. /\ bytes[1] = Code["OP_CLOSURE"]
      /\ bytes[2] < Len(gs[f].constants) /\ gs[f].constants[bytes[2] + 1] = v /\ IsFun(v)
      /\ count = gs[v.fun].upvalue_count /\ count \in Nat /\ Len(bytes) = 2 + 2 * count
  BY DEF Closes
<1>a. /\ m \in Nat /\ on <= m /\ m <= on + 1 /\ m <= Len(locals)
      /\ later \in Nat /\ m + later = on + temps + 1
  BY DEF Lifts
<1>1. /\ IsProgram(fs) /\ IsProgram(gs) /\ f \in DOMAIN fs /\ f \in DOMAIN gs
      /\ Extends(fs[f], gs[f]) /\ SameClosures(fs, gs, f) /\ gs[f].arity = fs[f].arity
      /\ bytes \in Seq(Nat) /\ bytes # <<>> /\ gs[f].code = fs[f].code \o bytes
      /\ n \in Nat /\ k \in Nat /\ k > n /\ k = n + Len(bytes)
  BY ONLY Grows(fs, gs, f, bytes), GrowsFacts
<1>2. op \in OpCode /\ Operands[op] = 1 /\ \A arg : Pops(op, arg) = 0 /\ Pushes(op) = 1
  <2>1. op \in OpCode
    BY DEF OpCode, OpCodes
  <2> QED
    BY <2>1, OperandsFacts DEF OneOperand, Jumps, Pops, Pushes
<1>3. Whole(gs[f], n) /\ OpAt(gs[f], n) = op /\ ArgAt(gs[f], n) = bytes[2]
  <2>1. Len(bytes) >= 1 + Operands[op] /\ bytes[1] = Code[op]
    BY <1>0, <1>2
  <2> HIDE DEF op
  <2> QED
    BY <1>2, <2>1, EmittedFacts
<1>4. /\ on \in Nat \ {0} /\ on <= Len(locals) /\ temps \in Nat
      /\ y[n].height = on + temps /\ y[n].scope = on /\ y[n].open = Caught(locals, on)
      /\ n \in DOMAIN y
      /\ \A a \in DOMAIN y : a \in Nat /\ a <= n
  BY ONLY <1>1, Len(locals) \in Nat, FrameOk(fs, f, locals, y, on, temps, open, marks), FrameFacts
<1>5. Size(gs, gs[f], n) = 2 + 2 * count
  <2>1. /\ OpAt(gs[f], n) = "OP_CLOSURE" /\ Operands[OpAt(gs[f], n)] = 1
        /\ ArgAt(gs[f], n) < Len(gs[f].constants) /\ gs[f].constants[ArgAt(gs[f], n) + 1] = v
    BY <1>0, <1>2, <1>3
  <2> HIDE DEF n
  <2>2. Size(gs, gs[f], n) = 1 + 1 + 2 * count
    BY ONLY <2>1, <1>0 DEF Size
  <2> QED
    BY ONLY <2>2, <1>0
<1>6. \A c \in Captures(gs, gs[f], n) :
        \E i \in 0 .. count - 1 : c[1] = bytes[3 + 2 * i] /\ c[2] = bytes[4 + 2 * i]
  <2> SUFFICES ASSUME NEW c \in Captures(gs, gs[f], n)
               PROVE  \E i \in 0 .. count - 1 : c[1] = bytes[3 + 2 * i] /\ c[2] = bytes[4 + 2 * i]
    OBVIOUS
  <2>1. PICK i \in 0 .. count - 1 :
          c = <<At(gs[f].code, n + 2 + 2 * i), At(gs[f].code, n + 3 + 2 * i)>>
    BY <1>0, <1>3 DEF Captures
  <2>2. \A j \in 0 .. Len(bytes) - 1 : At(gs[f].code, n + j) = bytes[j + 1]
    <3>1. fs[f].code \in Seq(Nat)
      BY <1>1, ProgramFacts
    <3> DEFINE both == fs[f].code \o bytes
    <3>2. \A j \in 0 .. Len(bytes) - 1 : At(both, n + j) = bytes[j + 1]
      BY ONLY <1>1, <3>1, AppendedCode
    <3> HIDE DEF both
    <3>3. gs[f].code = both
      BY <1>1 DEF both
    <3> QED
      BY <3>2, <3>3
  <2> HIDE DEF n
  <2>a. count \in Nat /\ Len(bytes) = 2 + 2 * count
    BY <1>0
  <2>3. 2 + 2 * i \in 0 .. Len(bytes) - 1 /\ 3 + 2 * i \in 0 .. Len(bytes) - 1 /\ n \in Nat /\ i \in Nat
    BY ONLY <1>1, <2>a, i \in 0 .. count - 1
  <2>4. n + 2 + 2 * i = n + (2 + 2 * i) /\ n + 3 + 2 * i = n + (3 + 2 * i)
    BY <2>3
  <2>5. (2 + 2 * i) + 1 = 3 + 2 * i /\ (3 + 2 * i) + 1 = 4 + 2 * i
    BY <2>3
  <2>6. c[1] = bytes[(2 + 2 * i) + 1] /\ c[2] = bytes[(3 + 2 * i) + 1]
    BY <2>1, <2>2, <2>3, <2>4
  <2> QED
    BY <2>5, <2>6
<1>7. \A c \in Captures(gs, gs[f], n) :
        IF c[1] # 0 THEN c[2] \in 1 .. m - 1 /\ locals[c[2] + 1].is_captured
        ELSE c[2] < gs[f].upvalue_count
  <2> SUFFICES ASSUME NEW c \in Captures(gs, gs[f], n)
               PROVE  IF c[1] # 0 THEN c[2] \in 1 .. m - 1 /\ locals[c[2] + 1].is_captured
                      ELSE c[2] < gs[f].upvalue_count
    OBVIOUS
  <2>1. PICK i \in 0 .. count - 1 : c[1] = bytes[3 + 2 * i] /\ c[2] = bytes[4 + 2 * i]
    BY <1>6
  <2> QED
    BY <2>1 DEF Closes
<1> HIDE DEF n, k
<1>8. z[n] = y[n] /\ z[k] = Known(locals, m, later) /\ DOMAIN z = DOMAIN y \cup {k}
  <2>1. k \notin DOMAIN y
    BY <1>1, <1>4
  <2> QED
    BY <1>4, <2>1 DEF Grown
<1> HIDE DEF z
<1>9. Leads(gs, gs[f], z, n, k)
  <2>1. HeightAfter(gs[f], n, y[n].height) = m + later
    <3>1. HeightAfter(gs[f], n, y[n].height) = (on + temps) - 0 + 1
      BY <1>2, <1>3, <1>4 DEF HeightAfter
    <3>2. (on + temps) - 0 + 1 = m + later
      BY ONLY <1>4, <1>a
    <3> QED
      BY ONLY <3>1, <3>2
  <2>2. OpenAfter(gs, gs[f], n, y[n].height, y[n].open) \subseteq Caught(locals, m)
    <3>1. Caught(locals, on) \subseteq Caught(locals, m)
      <4>1. \A x \in 0 .. on - 1 : x \in 0 .. m - 1
        BY ONLY <1>4, <1>a
      <4> QED
        BY ONLY <4>1 DEF Caught
    <3>2. \A c \in Captures(gs, gs[f], n) : c[1] # 0 => c[2] \in Caught(locals, m)
      <4>1. \A x \in 1 .. m - 1 : locals[x + 1].is_captured => x \in Caught(locals, m)
        BY ONLY <1>a DEF Caught
      <4>2. \A c \in Captures(gs, gs[f], n) : c[1] # 0 => c[2] \in 1 .. m - 1 /\ locals[c[2] + 1].is_captured
        BY ONLY <1>7
      <4> QED
        BY ONLY <4>1, <4>2
    <3>3. OpenAfter(gs, gs[f], n, y[n].height, y[n].open) =
            y[n].open \cup {c[2] : c \in {d \in Captures(gs, gs[f], n) : d[1] # 0}}
      BY <1>3 DEF OpenAfter
    <3> QED
      BY <1>4, <3>1, <3>2, <3>3
  <2>3. z[k].height = m + later /\ z[k].open = Caught(locals, m) /\ z[k].scope = m
    BY <1>8 DEF Known
  <2> QED
    BY <1>4, <1>8, <1>a, <2>1, <2>2, <2>3 DEF Leads
<1>10. LeadsOn(gs, gs[f], z, Pending(open, f), n)
  <2>1. n + Size(gs, gs[f], n) = k
    BY <1>0, <1>1, <1>5
  <2> QED
    BY <1>3, <1>9, <2>1 DEF LeadsOn
<1>11. Good(gs, f, z, Pending(open, f), n)
  <2>1. \A b \in DOMAIN z : b \in DOMAIN y \/ b = Len(gs[f].code)
    BY <1>8 DEF k
  <2>2. OperandsValid(gs, gs[f], n, on + temps)
    <3>1. \A c \in Captures(gs, gs[f], n) : c[1] # 0 => c[2] \in 1 .. on + temps
      <4>1. \A x \in 1 .. m - 1 : x \in 1 .. on + temps
        BY ONLY <1>4, <1>a
      <4>2. \A c \in Captures(gs, gs[f], n) : c[1] # 0 => c[2] \in 1 .. m - 1
        BY ONLY <1>7
      <4> QED
        BY ONLY <4>1, <4>2
    <3> QED
      BY <1>0, <1>3, <1>7, <3>1 DEF OperandsValid
  <2>3. Pops(OpAt(gs[f], n), ArgAt(gs[f], n)) <= temps
    BY <1>2, <1>3, <1>4
  <2>4. Len(bytes) = Size(gs, gs[f], n)
    BY <1>0, <1>5
  <2> QED
    BY <1>3, <1>8, <1>10, <2>1, <2>2, <2>3, <2>4, GoodEmitted DEF n
<1>12. FrameOk(gs, f, locals, z, m, later, open, marks)
  <2>1. z = Grown(y, Len(gs[f].code), Known(locals, m, later))
    BY DEF z, k
  <2>2. Good(gs, f, z, Pending(open, f), Len(fs[f].code))
    BY <1>11 DEF n
  <2>3. Opened(fs, gs, f, on, temps, open, open)
    BY DEF Opened
  <2> QED
    BY <1>1, <1>4, <1>a, <2>1, <2>2, <2>3, FrameGrows
<1> QED
  BY <1>12

-----------------------------------------------------------------------------
(* The walk over a frame *)

(* An instruction leads on, but for the distance of a jump that waits. *)
LEMMA OnwardLeads ==
  ASSUME NEW fs, IsProgram(fs), NEW f \in DOMAIN fs, NEW y, NEW pending, NEW a, Good(fs, f, y, pending, a),
         NEW b \in Successors(fs, fs[f], a),
         a \in pending => /\ OpAt(fs[f], a) # "OP_JUMP"
                          /\ OpAt(fs[f], a) = "OP_JUMP_IF_FALSE" => b = a + 3
  PROVE  Leads(fs, fs[f], y, a, b)
<1> DEFINE op == OpAt(fs[f], a)
           fall == a + Size(fs, fs[f], a)
<1>1. Whole(fs[f], a)
  BY DEF Good, Sound
<1>2. op = "OP_JUMP_IF_FALSE" => Size(fs, fs[f], a) = 3
  BY <1>1, InstructionType, OperandsFacts DEF Jumps
<1>3. LeadsOn(fs, fs[f], y, pending, a)
  BY DEF Good
<1>4. CASE op = "OP_JUMP_IF_FALSE"
  <2>1. b \in {fall, fall + Uint16(fs[f].code, a + 1)}
    BY <1>4 DEF Successors
  <2>2. a \in pending => b = fall
    BY <1>2, <1>4
  <2> QED
    BY <1>3, <1>4, <2>1, <2>2 DEF LeadsOn
<1>5. CASE op # "OP_JUMP_IF_FALSE"
  BY <1>3, <1>5 DEF LeadsOn, Successors
<1> QED
  BY <1>4, <1>5

(* The slot of the function itself is not captured. *)
LEMMA OpenAfterFacts ==
  ASSUME NEW fs, NEW f, NEW a, NEW height, NEW open, 0 \notin open, OperandsValid(fs, f, a, height)
  PROVE  0 \notin OpenAfter(fs, f, a, height, open)
<1>1. CASE OpAt(f, a) = "OP_CLOSURE"
  <2>1. \A c \in Captures(fs, f, a) : c[1] # 0 => c[2] # 0
    BY <1>1 DEF OperandsValid
  <2> QED
    BY <1>1, <2>1 DEF OpenAfter
<1>2. CASE OpAt(f, a) # "OP_CLOSURE"
  BY <1>2 DEF OpenAfter
<1> QED
  BY <1>1, <1>2

(* The walk over code that is under compilation finds the locals and the values on the stack where
   the code ends, and the captured ones among the locals known to be so. *)
LEMMA FrameWalk ==
  ASSUME NEW fs, IsProgram(fs), NEW f \in DOMAIN fs,
         NEW locals, NEW y, NEW on, NEW temps, NEW open, NEW marks, Len(locals) \in Nat,
         FrameOk(fs, f, locals, y, on, temps, open, marks),
         NEW waiting, Pending(open, f) \subseteq waiting,
         NEW p \in FlowSoFar(fs, fs[f], waiting), p[1] = Len(fs[f].code)
  PROVE  p[2] = on + temps /\ p[3] \subseteq Caught(locals, on) \ {0}
<1> DEFINE n == Len(fs[f].code)
           pending == Pending(open, f)
           P == {q \in PlacesOn(y) : 0 \notin q[3]}
<1>1. /\ IsSheet(y, n) /\ n \in DOMAIN y /\ y[0].height = 1 + fs[f].arity
      /\ \A a \in DOMAIN y \ {n} : Good(fs, f, y, pending, a)
  BY DEF FrameOk
<1>2. n \in Nat /\ fs[f].arity \in Nat
  BY ProgramFacts
<1>3. y[n].height = on + temps /\ y[n].open = Caught(locals, on)
  BY FrameFacts
<1>4. P = {q \in Places : /\ q[1] \in DOMAIN y /\ q[2] = y[q[1]].height /\ q[3] \subseteq y[q[1]].open
                          /\ 0 \notin q[3]}
  BY DEF PlacesOn
<1>5. IsFiniteSet(P)
  BY <1>1, <1>2, PlacesFinite, FS_Subset
<1> HIDE DEF P
<1>6. <<0, 1 + fs[f].arity, {}>> \in P
  BY <1>1, <1>2, <1>4 DEF IsSheet, Places
<1>7. ASSUME NEW r \in P, NEW q \in Onward(fs, fs[f], waiting, r) PROVE q \in P
  <2> DEFINE a == r[1]
  <2>1. /\ r \in PlacesOn(y) /\ r \in Places /\ a \in DOMAIN y /\ r[2] = y[a].height /\ 0 \notin r[3]
    BY <1>4 DEF PlacesOn
  <2>2. /\ q \in Edges(fs, fs[f], r)
        /\ a \in pending => /\ OpAt(fs[f], a) # "OP_JUMP"
                            /\ OpAt(fs[f], a) = "OP_JUMP_IF_FALSE" => q[1] = a + 3
    BY <1>7 DEF Onward
  <2>3. /\ q \in Places /\ Whole(fs[f], a) /\ q[1] \in Successors(fs, fs[f], a)
        /\ q[3] = OpenAfter(fs, fs[f], a, r[2], r[3])
    BY <2>1, <2>2, EdgeFacts
  <2>4. a # n
    BY <2>3, InstructionType
  <2> HIDE DEF a, pending
  <2>5. Good(fs, f, y, pending, a)
    BY <1>1, <2>1, <2>4
  <2>6. Leads(fs, fs[f], y, a, q[1])
    BY <2>2, <2>3, <2>5, OnwardLeads
  <2>7. q \in PlacesOn(y)
    BY <2>1, <2>2, <2>6, EdgesOn DEF a
  <2>8. OperandsValid(fs, fs[f], a, r[2])
    BY <2>1, <2>5 DEF Good, Sound
  <2>9. 0 \notin q[3]
    BY <2>1, <2>3, <2>8, OpenAfterFacts
  <2> QED
    BY <2>7, <2>9 DEF P
<1>8. \A q \in P : \A r \in P : q[1] = r[1] => q[2] = r[2]
  BY <1>4
<1>9. FlowSoFar(fs, fs[f], waiting) \subseteq P
  <2>1. \A q \in Places : Edges(fs, fs[f], q) \subseteq Places
    BY EdgesType
  <2>2. P \in SUBSET Places
    BY <1>4
  <2>3. \A q \in P : Onward(fs, fs[f], waiting, q) \subseteq P
    BY <1>7
  <2> QED
    BY <1>5, <1>6, <1>8, <2>1, <2>2, <2>3, FlowFacts
<1>10. p[2] = y[n].height /\ p[3] \subseteq y[n].open /\ 0 \notin p[3]
  BY <1>4, <1>9
<1> QED
  BY <1>3, <1>10
=============================================================================
