------------------------- MODULE InterpreterProofs --------------------------
(***************************************************************************)
(* The tree-walking interpreter with every program that Parser and         *)
(* Resolver let pass (src/src/Treewalk/Interpreter.cpp): resolved names    *)
(* are found where their distance leads, environments are restored, and    *)
(* returns are caught.                                                     *)
(*                                                                         *)
(* The interpreter's call stack is the list todo, with the ends of blocks  *)
(* and calls in it.  The inductive invariant says that there is a plan of  *)
(* it: a point in front of every task that is left to do, with the         *)
(* environment that is in force there, the names its scopes have, the name *)
(* that waits for its initializer, and the number of values; and that each *)
(* task goes from its point to the next.  The visits of the nodes to come, *)
(* made with the scopes of the point, are among those that the program was *)
(* shown to be resolved with, and so are the visits of the functions that  *)
(* exist.                                                                  *)
(*                                                                         *)
(* A runtime error goes on at the end of a block, and a return at the end  *)
(* of a call: the plan has a point for either, with the environment around *)
(* it.                                                                     *)
(***************************************************************************)
EXTENDS ResolvedPrograms, SequenceFacts

-----------------------------------------------------------------------------
(* Environments as the interpreter makes them: each is within an earlier one. *)
EnvironmentsOk(es) ==
  /\ IsSeq(es) /\ Len(es) >= 1
  /\ \A e \in 1 .. Len(es) : es[e] = [values |-> es[e].values, enclosing |-> es[e].enclosing]
  /\ es[Global].enclosing = 0
  /\ \A e \in 2 .. Len(es) : es[e].enclosing \in 1 .. e - 1

(* The same environments with more variables, and more environments. *)
Grows(es, later) ==
  /\ Len(es) <= Len(later)
  /\ \A e \in 1 .. Len(es) : /\ later[e].enclosing = es[e].enclosing
                             /\ DOMAIN es[e].values \subseteq DOMAIN later[e].values

(* The walk outwards is a function: it comes to an end. *)
LEMMA WalkExists ==
  ASSUME NEW es, EnvironmentsOk(es)
  PROVE  \E from : from = [e \in 0 .. Len(es) |-> IF e = 0 THEN <<>> ELSE <<e>> \o from[es[e].enclosing]]
<1> DEFINE n == Len(es)
           up(e) == es[e].enclosing
           Is(f, m) == f = [e \in 0 .. m |-> IF e = 0 THEN <<>> ELSE <<e>> \o f[up(e)]]
           S == {m \in Nat : m <= n => \E f : Is(f, m)}
<1>1. n \in Nat /\ \A e \in 1 .. n : up(e) \in 0 .. e - 1
  BY SeqFacts DEF EnvironmentsOk, Global
<1>2. 0 \in S
  <2> DEFINE f == [e \in 0 .. 0 |-> <<>>]
  <2>1. f = [e \in 0 .. 0 |-> IF e = 0 THEN <<>> ELSE <<e>> \o f[up(e)]]
    OBVIOUS
  <2> QED
    BY <2>1
<1>3. ASSUME NEW m \in Nat, m \in S PROVE m + 1 \in S
  <2> SUFFICES ASSUME m + 1 <= n PROVE \E f : Is(f, m + 1)
    OBVIOUS
  <2>1. PICK f : Is(f, m)
    <3> HIDE DEF Is
    <3> QED
      BY <1>1, <1>3
  <2>4. \A e \in 0 .. m : f[e] = IF e = 0 THEN <<>> ELSE <<e>> \o f[up(e)]
    <3> HIDE DEF up
    <3> QED
      BY <2>1
  <2> DEFINE g == [e \in 0 .. m + 1 |-> IF e <= m THEN f[e] ELSE <<e>> \o f[up(e)]]
  <2>5. \A e \in 0 .. m + 1 : g[e] = IF e <= m THEN f[e] ELSE <<e>> \o f[up(e)]
    <3> HIDE DEF up
    <3> QED
      OBVIOUS
  <2>2. ASSUME NEW e \in 0 .. m + 1
        PROVE  g[e] = IF e = 0 THEN <<>> ELSE <<e>> \o g[up(e)]
    <3>1. CASE e = 0
      <4>1. 0 <= m /\ 0 \in 0 .. m
        OBVIOUS
      <4> HIDE DEF up, g
      <4> QED
        BY <2>4, <2>5, <3>1, <4>1
    <3>2. CASE e # 0
      <4>1. up(e) \in 0 .. m /\ up(e) <= m /\ up(e) \in 0 .. m + 1
        BY <1>1, <3>2
      <4> HIDE DEF up, g
      <4>2. g[up(e)] = f[up(e)]
        BY <2>5, <4>1
      <4>3. g[e] = <<e>> \o f[up(e)]
        <5>1. CASE e <= m
          <6>1. e \in 0 .. m
            BY <5>1
          <6>2. g[e] = f[e]
            BY <2>5, <5>1
          <6> QED
            BY <2>4, <3>2, <6>1, <6>2, Zenon
        <5>2. CASE ~(e <= m)
          BY <2>5, <5>2
        <5> QED
          BY <5>1, <5>2
      <4> QED
        BY <3>2, <4>2, <4>3
    <3> QED
      BY <3>1, <3>2
  <2>3. Is(g, m + 1)
    <3>1. g = [e \in 0 .. m + 1 |-> g[e]]
      OBVIOUS
    <3> HIDE DEF g, up
    <3> QED
      BY <2>2, <3>1, Zenon
  <2> QED
    BY <2>3
<1>4. Nat \subseteq S
  <2> HIDE DEF S
  <2> QED
    BY <1>2, <1>3, Induction
<1>5. n \in S
  BY <1>1, <1>4
<1>6. \E f : Is(f, n)
  BY <1>1, <1>5
<1> QED
  BY <1>6

(***************************************************************************)
(* The walk outwards visits environments, first the one it starts from,    *)
(* and then those that the next one's walk visits.                         *)
(***************************************************************************)
LEMMA OutwardsStep ==
  ASSUME NEW es, EnvironmentsOk(es), NEW e \in 0 .. Len(es)
  PROVE  Outwards(es, e) = IF e = 0 THEN <<>> ELSE <<e>> \o Outwards(es, es[e].enclosing)
<1> DEFINE Is(f) == f = [x \in 0 .. Len(es) |-> IF x = 0 THEN <<>> ELSE <<x>> \o f[es[x].enclosing]]
           from == CHOOSE f : Is(f)
<1>1. Is(from)
  <2>1. \E f : Is(f)
    BY WalkExists
  <2> HIDE DEF Is
  <2> QED
    BY <2>1
<1>2. \A x : Outwards(es, x) = from[x]
  BY DEF Outwards
<1> HIDE DEF from
<1> QED
  BY <1>1, <1>2

(* There is nothing outside of the globals. *)
LEMMA OutwardsNowhere ==
  ASSUME NEW es, EnvironmentsOk(es)
  PROVE  Outwards(es, 0) = <<>>
<1>1. 0 \in 0 .. Len(es)
  BY SeqFacts DEF EnvironmentsOk
<1>2. \A e \in 0 .. Len(es) : e = 0 => Outwards(es, e) = <<>>
  BY OutwardsStep
<1> QED
  BY <1>1, <1>2

(***************************************************************************)
(* The walk visits environments that exist, and begins with the one it     *)
(* starts from.                                                            *)
(***************************************************************************)
LEMMA OutwardsFacts ==
  ASSUME NEW es, EnvironmentsOk(es), NEW e \in 1 .. Len(es)
  PROVE  /\ Outwards(es, e) \in Seq(1 .. Len(es))
         /\ Len(Outwards(es, e)) >= 1
         /\ Outwards(es, e)[1] = e
<1> DEFINE n == Len(es)
           S == {m \in Nat : \A x \in 1 .. n : x <= m =>
                               /\ Outwards(es, x) \in Seq(1 .. n)
                               /\ Len(Outwards(es, x)) >= 1
                               /\ Outwards(es, x)[1] = x}
<1>1. n \in Nat /\ \A x \in 1 .. n : es[x].enclosing \in 0 .. x - 1
  BY SeqFacts DEF EnvironmentsOk, Global
<1>2. 0 \in S
  OBVIOUS
<1>3. ASSUME NEW m \in Nat, m \in S PROVE m + 1 \in S
  <2> SUFFICES ASSUME NEW x \in 1 .. n, x <= m + 1
               PROVE  /\ Outwards(es, x) \in Seq(1 .. n)
                      /\ Len(Outwards(es, x)) >= 1
                      /\ Outwards(es, x)[1] = x
    OBVIOUS
  <2> DEFINE y == es[x].enclosing
             o == Outwards(es, y)
  <2>1. y \in 0 .. n /\ y <= m
    BY <1>1
  <2>2. Outwards(es, x) = <<x>> \o o
    BY <1>1, OutwardsStep
  <2>3. o \in Seq(1 .. n)
    <3>1. CASE y = 0
      <4>1. o = <<>>
        BY <3>1, OutwardsNowhere
      <4> QED
        BY <4>1
    <3>2. CASE y # 0
      BY <1>3, <2>1, <3>2
    <3> QED
      BY <3>1, <3>2
  <2> HIDE DEF o, n
  <2>4. <<x>> \in Seq(1 .. n) /\ Len(<<x>>) = 1 /\ <<x>>[1] = x
    OBVIOUS
  <2>5. Len(o) \in Nat
    BY <2>3
  <2> QED
    BY <2>2, <2>3, <2>4, <2>5, ConcatProperties
<1>4. Nat \subseteq S
  <2> HIDE DEF S
  <2> QED
    BY <1>2, <1>3, Induction
<1>5. e \in Nat /\ e <= e
  BY <1>1
<1>6. e \in S
  <2> HIDE DEF S
  <2> QED
    BY <1>4, <1>5
<1> QED
  BY <1>5, <1>6

(* It is the same walk when there are more environments. *)
LEMMA OutwardsLater ==
  ASSUME NEW es, EnvironmentsOk(es), NEW later, EnvironmentsOk(later), Grows(es, later),
         NEW e \in 0 .. Len(es)
  PROVE  Outwards(later, e) = Outwards(es, e)
<1> DEFINE n == Len(es)
           S == {m \in Nat : \A x \in 0 .. n : x <= m => Outwards(later, x) = Outwards(es, x)}
<1>1. /\ n \in Nat /\ n <= Len(later) /\ Len(later) \in Nat
      /\ \A x \in 1 .. n : es[x].enclosing \in 0 .. x - 1 /\ later[x].enclosing = es[x].enclosing
  BY SeqFacts DEF EnvironmentsOk, Global, Grows
<1>2. \A x \in 0 .. n : x \in 0 .. Len(later)
  BY <1>1
<1>3. 0 \in S
  <2>1. \A x \in 0 .. n : x <= 0 => x = 0
    BY <1>1
  <2>2. Outwards(later, 0) = <<>> /\ Outwards(es, 0) = <<>>
    BY OutwardsNowhere
  <2> QED
    BY <2>1, <2>2
<1>4. ASSUME NEW m \in Nat, m \in S PROVE m + 1 \in S
  <2> SUFFICES ASSUME NEW x \in 0 .. n, x <= m + 1 PROVE Outwards(later, x) = Outwards(es, x)
    OBVIOUS
  <2>1. CASE x <= m
    BY <1>4, <2>1
  <2>2. CASE ~(x <= m)
    <3>1. x \in 1 .. n /\ x # 0
      BY <1>1, <2>2
    <3>2. es[x].enclosing \in 0 .. n /\ es[x].enclosing <= m /\ later[x].enclosing = es[x].enclosing
      BY <1>1, <3>1
    <3>3. Outwards(later, es[x].enclosing) = Outwards(es, es[x].enclosing)
      BY <1>4, <3>2
    <3>4. Outwards(es, x) = <<x>> \o Outwards(es, es[x].enclosing)
      BY <3>1, OutwardsStep
    <3>5. Outwards(later, x) = <<x>> \o Outwards(later, later[x].enclosing)
      BY <1>2, <3>1, OutwardsStep
    <3> QED
      BY <3>2, <3>3, <3>4, <3>5
  <2> QED
    BY <2>1, <2>2
<1>5. Nat \subseteq S
  <2> HIDE DEF S
  <2> QED
    BY <1>3, <1>4, Induction
<1>6. e \in Nat /\ e <= e
  BY <1>1
<1>7. e \in S
  <2> HIDE DEF S
  <2> QED
    BY <1>5, <1>6
<1> QED
  BY <1>6, <1>7

(* From env on there are environments with the names of the scopes, and then the globals. *)
HasNames(es, scopes, env) ==
  /\ env \in 1 .. Len(es) /\ IsSeq(scopes)
  /\ Len(Outwards(es, env)) = Len(scopes) + 1
  /\ \A k \in 1 .. Len(scopes) : scopes[k] \subseteq DOMAIN es[Outwards(es, env)[k]].values

(* Names stay. *)
LEMMA NamesLater ==
  ASSUME NEW es, EnvironmentsOk(es), NEW later, EnvironmentsOk(later), Grows(es, later),
         NEW scopes, NEW env, HasNames(es, scopes, env)
  PROVE  HasNames(later, scopes, env)
<1>1. env \in 1 .. Len(es) /\ env \in 0 .. Len(es) /\ env \in 1 .. Len(later) /\ Len(es) \in Nat
  BY SeqFacts DEF HasNames, Grows, EnvironmentsOk
<1>2. Outwards(later, env) = Outwards(es, env)
  BY <1>1, OutwardsLater
<1>3. Outwards(es, env) \in Seq(1 .. Len(es))
  BY <1>1, OutwardsFacts
<1>4. ASSUME NEW k \in 1 .. Len(scopes)
      PROVE  scopes[k] \subseteq DOMAIN later[Outwards(later, env)[k]].values
  <2>1. Len(scopes) \in Nat /\ Len(Outwards(es, env)) = Len(scopes) + 1
    BY SeqFacts DEF HasNames
  <2>2. Outwards(es, env)[k] \in 1 .. Len(es)
    BY <1>3, <2>1
  <2>3. scopes[k] \subseteq DOMAIN es[Outwards(es, env)[k]].values
    BY DEF HasNames
  <2> QED
    BY <1>2, <2>2, <2>3 DEF Grows
<1> QED
  BY <1>1, <1>2, <1>4 DEF HasNames

(* A new environment is within that of env. *)
Within(es, vs, env) == Append(es, [values |-> vs, enclosing |-> env])

(***************************************************************************)
(* Environment(enclosing): a new environment leaves the others as they     *)
(* are.                                                                    *)
(***************************************************************************)
LEMMA EnvironmentAdded ==
  ASSUME NEW es, EnvironmentsOk(es), NEW env, env \in 1 .. Len(es), NEW vs
  PROVE  /\ EnvironmentsOk(Within(es, vs, env))
         /\ Grows(es, Within(es, vs, env))
         /\ Len(Within(es, vs, env)) = Len(es) + 1
         /\ Within(es, vs, env)[Len(es) + 1] = [values |-> vs, enclosing |-> env]
         /\ \A e \in 1 .. Len(es) : Within(es, vs, env)[e] = es[e]
<1> DEFINE later == Within(es, vs, env)
<1>1. /\ IsSeq(later) /\ Len(later) = Len(es) + 1 /\ Len(es) \in Nat
      /\ \A e \in 1 .. Len(es) : later[e] = es[e]
      /\ later[Len(es) + 1] = [values |-> vs, enclosing |-> env]
  BY AppendFacts, SeqFacts DEF EnvironmentsOk, Within
<1> HIDE DEF later
<1>2. Grows(es, later)
  BY <1>1 DEF Grows
<1>3. \A e \in 1 .. Len(later) : later[e] = [values |-> later[e].values, enclosing |-> later[e].enclosing]
  <2> TAKE e \in 1 .. Len(later)
  <2>1. CASE e \in 1 .. Len(es)
    BY <1>1, <2>1 DEF EnvironmentsOk
  <2>2. CASE e = Len(es) + 1
    BY <1>1, <2>2
  <2> QED
    BY <1>1, <2>1, <2>2
<1>4. later[Global].enclosing = 0
  BY <1>1 DEF EnvironmentsOk, Global
<1>5. \A e \in 2 .. Len(later) : later[e].enclosing \in 1 .. e - 1
  <2> TAKE e \in 2 .. Len(later)
  <2>1. CASE e \in 2 .. Len(es)
    BY <1>1, <2>1 DEF EnvironmentsOk
  <2>2. CASE e = Len(es) + 1
    BY <1>1, <2>2
  <2> QED
    BY <1>1, <2>1, <2>2
<1>6. EnvironmentsOk(later)
  <2>1. Len(later) >= 1
    BY <1>1 DEF EnvironmentsOk
  <2> QED
    BY <1>1, <1>3, <1>4, <1>5, <2>1 DEF EnvironmentsOk
<1> QED
  BY <1>1, <1>2, <1>6 DEF later

(* A new environment with these names is the innermost scope. *)
LEMMA NamesInner ==
  ASSUME NEW es, EnvironmentsOk(es), NEW scopes, NEW env, HasNames(es, scopes, env), NEW vs,
         NEW names, names \subseteq DOMAIN vs
  PROVE  HasNames(Within(es, vs, env), <<names>> \o scopes, Len(es) + 1)
<1> DEFINE later == Within(es, vs, env)
           e == Len(es) + 1
           inner == <<names>> \o scopes
<1>0. e = Len(es) + 1
  OBVIOUS
<1> HIDE DEF e, inner
<1>1. /\ EnvironmentsOk(later) /\ Grows(es, later) /\ Len(later) = Len(es) + 1 /\ Len(es) \in Nat
      /\ later[e] = [values |-> vs, enclosing |-> env]
      /\ env \in 1 .. Len(es) /\ env \in 0 .. Len(es)
  <2>1. env \in 1 .. Len(es)
    BY DEF HasNames
  <2>2. IsSeq(es)
    BY DEF EnvironmentsOk
  <2>3. Len(es) \in Nat /\ env \in 0 .. Len(es)
    BY <2>1, <2>2, SeqFacts
  <2>4. /\ EnvironmentsOk(later) /\ Grows(es, later) /\ Len(later) = Len(es) + 1
        /\ later[Len(es) + 1] = [values |-> vs, enclosing |-> env]
    BY <2>1, EnvironmentAdded
  <2> QED
    BY <1>0, <2>1, <2>3, <2>4
<1> HIDE DEF later
<1> USE DEF e, inner
<1>11. later[e].values = vs
  BY <1>1
<1>2. Outwards(later, e) = <<e>> \o Outwards(es, env)
  <2>1. e \in 0 .. Len(later) /\ e # 0 /\ later[e].enclosing = env
    BY <1>1
  <2>2. Outwards(later, e) = <<e>> \o Outwards(later, env)
    <3> HIDE DEF e
    <3> QED
      BY <1>1, <2>1, OutwardsStep
  <2>3. Outwards(later, env) = Outwards(es, env)
    BY <1>1, OutwardsLater
  <2> QED
    BY <2>2, <2>3
<1>3. HasNames(later, scopes, env)
  BY <1>1, NamesLater
<1>4. Outwards(es, env) \in Seq(1 .. Len(es)) /\ Outwards(later, env) = Outwards(es, env)
  BY <1>1, OutwardsFacts, OutwardsLater
<1>5. IsSeq(scopes) /\ Len(scopes) \in Nat /\ scopes \in Seq(Range(scopes))
  BY SeqFacts DEF HasNames, IsSeq
<1>6. /\ IsSeq(inner) /\ Len(inner) = Len(scopes) + 1
      /\ \A k \in 1 .. Len(scopes) + 1 : inner[k] = IF k = 1 THEN names ELSE scopes[k - 1]
  <2> DEFINE S == Range(scopes) \cup {names}
  <2>1. <<names>> \in Seq(S) /\ Len(<<names>>) = 1 /\ <<names>>[1] = names /\ scopes \in Seq(S)
    BY <1>5, SeqMonotonic
  <2>2. /\ inner \in Seq(S) /\ Len(inner) = 1 + Len(scopes)
        /\ \A k \in 1 .. 1 + Len(scopes) : inner[k] = IF k <= 1 THEN <<names>>[k] ELSE scopes[k - 1]
    <3> HIDE DEF S
    <3> QED
      BY <2>1, ConcatProperties
  <2>3. IsSeq(inner)
    <3> HIDE DEF S, inner
    <3> QED
      BY <2>2, SeqIsSeq
  <2> HIDE DEF inner
  <2> QED
    BY <1>5, <2>1, <2>2, <2>3
<1>7. /\ Len(Outwards(later, e)) = Len(scopes) + 2
      /\ \A k \in 1 .. Len(scopes) + 2 : Outwards(later, e)[k] = IF k = 1 THEN e ELSE Outwards(es, env)[k - 1]
  <2> DEFINE o == Outwards(es, env)
  <2>1. <<e>> \in Seq(Nat) /\ Len(<<e>>) = 1 /\ <<e>>[1] = e
    BY <1>1
  <2>2. o \in Seq(Nat) /\ Len(o) = Len(scopes) + 1
    <3>1. o \in Seq(Nat)
      BY <1>4, SeqMonotonic
    <3> QED
      BY <3>1 DEF HasNames
  <2>3. /\ Len(<<e>> \o o) = 1 + Len(o)
        /\ \A k \in 1 .. 1 + Len(o) : (<<e>> \o o)[k] = IF k <= 1 THEN <<e>>[k] ELSE o[k - 1]
    <3> HIDE DEF e, o
    <3> QED
      BY <2>1, <2>2, ConcatProperties
  <2> HIDE DEF e, o
  <2> QED
    BY <1>2, <1>5, <2>1, <2>2, <2>3 DEF o
<1>8. ASSUME NEW k \in 1 .. Len(inner) PROVE inner[k] \subseteq DOMAIN later[Outwards(later, e)[k]].values
  <2> HIDE DEF inner, e
  <2>1. CASE k = 1
    <3>1. inner[k] = names /\ Outwards(later, e)[k] = e
      BY <1>5, <1>6, <1>7, <2>1
    <3> QED
      BY <1>11, <3>1
  <2>2. CASE k # 1
    <3>1. k - 1 \in 1 .. Len(scopes) /\ k \in 1 .. Len(scopes) + 1 /\ k \in 1 .. Len(scopes) + 2
      BY <1>5, <1>6, <2>2
    <3>2. inner[k] = scopes[k - 1] /\ Outwards(later, e)[k] = Outwards(later, env)[k - 1]
      BY <1>4, <1>6, <1>7, <2>2, <3>1
    <3> QED
      BY <1>3, <3>1, <3>2 DEF HasNames
  <2> QED
    BY <2>1, <2>2
<1>9. e \in 1 .. Len(later) /\ Len(scopes) + 2 = (Len(scopes) + 1) + 1
  BY <1>1, <1>5
<1> HIDE DEF inner, e
<1>10. HasNames(later, inner, e)
  BY <1>6, <1>7, <1>8, <1>9 DEF HasNames
<1> QED
  BY <1>10 DEF inner, e, later

(* A variable is defined in an environment. *)
Holds(es, env, name, v) ==
  [es EXCEPT ![env] = [values |-> Holding(es[env].values, name, v), enclosing |-> es[env].enclosing]]

(* A variable that is defined changes its own environment and no other. *)
LEMMA VariableDefined ==
  ASSUME NEW es, EnvironmentsOk(es), NEW env, env \in 1 .. Len(es), NEW name, NEW v
  PROVE  /\ EnvironmentsOk(Holds(es, env, name, v))
         /\ Grows(es, Holds(es, env, name, v))
         /\ Len(Holds(es, env, name, v)) = Len(es)
         /\ \A e \in 1 .. Len(es) : e # env => Holds(es, env, name, v)[e] = es[e]
         /\ DOMAIN Holds(es, env, name, v)[env].values = DOMAIN es[env].values \cup {name}
         /\ \A n \in DOMAIN es[env].values \cup {name} :
              Holds(es, env, name, v)[env].values[n] = IF n = name THEN v ELSE es[env].values[n]
<1> DEFINE new == [values |-> Holding(es[env].values, name, v), enclosing |-> es[env].enclosing]
           later == Holds(es, env, name, v)
<1>1. Len(es) \in Nat /\ DOMAIN es = 1 .. Len(es)
  BY SeqFacts DEF EnvironmentsOk
<1>2. later = [es EXCEPT ![env] = new]
  BY DEF Holds
<1>4. /\ new = [values |-> new.values, enclosing |-> new.enclosing]
      /\ new.enclosing = es[env].enclosing
      /\ new.values = Holding(es[env].values, name, v)
  OBVIOUS
<1> HIDE DEF later, new
<1>3. /\ IsSeq(later) /\ Len(later) = Len(es)
      /\ \A e \in 1 .. Len(es) : later[e] = IF e = env THEN new ELSE es[e]
  <2>1. IsSeq(es)
    BY DEF EnvironmentsOk
  <2>2. IsSeq(later) /\ Len(later) = Len(es)
    BY <1>2, <2>1, ExceptFacts
  <2>3. \A e \in 1 .. Len(es) : later[e] = IF e = env THEN new ELSE es[e]
    BY <1>1, <1>2
  <2> QED
    BY <2>2, <2>3
<1>5. /\ DOMAIN new.values = DOMAIN es[env].values \cup {name}
      /\ \A n \in DOMAIN new.values : new.values[n] = IF n = name THEN v ELSE es[env].values[n]
  BY <1>4 DEF Holding
<1>6. \A e \in 1 .. Len(es) : later[e].enclosing = es[e].enclosing
  BY <1>3, <1>4
<1>7. \A e \in 1 .. Len(es) : later[e] = [values |-> later[e].values, enclosing |-> later[e].enclosing]
  BY <1>3, <1>4 DEF EnvironmentsOk
<1>8. EnvironmentsOk(later)
  <2>1. Global \in 1 .. Len(es)
    BY <1>1 DEF EnvironmentsOk, Global
  <2>2. \A e \in 2 .. Len(es) : e \in 1 .. Len(es)
    BY <1>1
  <2> QED
    BY <1>3, <1>6, <1>7, <2>1, <2>2 DEF EnvironmentsOk
<1>9. Grows(es, later)
  <2>1. \A e \in 1 .. Len(es) : DOMAIN es[e].values \subseteq DOMAIN later[e].values
    <3> TAKE e \in 1 .. Len(es)
    <3>1. CASE e = env
      BY <1>3, <1>5, <3>1
    <3>2. CASE e # env
      <4>1. later[e] = es[e]
        BY <1>3, <3>2
      <4> QED
        BY <4>1
    <3> QED
      BY <3>1, <3>2
  <2> QED
    BY <1>1, <1>3, <1>6, <2>1 DEF Grows
<1> QED
  BY <1>3, <1>5, <1>8, <1>9 DEF later

(* As Interpreter writes it. *)
LEMMA HoldsIs ==
  ASSUME NEW es, EnvironmentsOk(es), NEW env, env \in 1 .. Len(es), NEW name, NEW v
  PROVE  [es EXCEPT ![env].values = Holding(@, name, v)] = Holds(es, env, name, v)
<1>1. es[env] = [values |-> es[env].values, enclosing |-> es[env].enclosing]
  BY DEF EnvironmentsOk
<1>2. [es[env] EXCEPT !.values = Holding(@, name, v)]
        = [values |-> Holding(es[env].values, name, v), enclosing |-> es[env].enclosing]
  BY <1>1
<1> QED
  BY <1>2 DEF Holds

(***************************************************************************)
(* A point of what is left to do: the environment that is in force there,  *)
(* the number of values, and of those that the block it is in began with,  *)
(* and how a visit at that point would be made.                            *)
(***************************************************************************)
At(env, floor, height, scopes, waiting, in_function) ==
  [env |-> env, floor |-> floor, height |-> height, scopes |-> scopes, waiting |-> waiting,
   in_function |-> in_function]

Finish == At(Global, 0, 0, <<>>, {}, FALSE)

(* The values of a block lie above those in front of it. *)
PointOk(p) ==
  /\ p = At(p.env, p.floor, p.height, p.scopes, p.waiting, p.in_function)
  /\ p.height \in Nat /\ p.floor \in 0 .. p.height

(* The same but for the number of values. *)
WithHeight(p, height) == At(p.env, p.floor, height, p.scopes, p.waiting, p.in_function)

(* In the same block, or outside of all. *)
Stays(p, q) == q.env = p.env /\ q.floor = p.floor /\ q.in_function = p.in_function

(* A node that is to be visited declares a variable, if anything. *)
NodeKinds == Expressions \cup Statements_ \cup Declarations

(* A visit of the node at this point is among the visits. *)
Visited(visits, p, node) == VisitOf(node, p.scopes, p.waiting, p.in_function) \in visits

(***************************************************************************)
(* A node that is visited leaves behind what was there, and a declaration  *)
(* its name.                                                               *)
(***************************************************************************)
GoesVisit(visits, p, task, q) ==
  /\ task.kind \in NodeKinds
  /\ IF task.kind = "Literal" THEN ~IsCallable(task.value) ELSE Visited(visits, p, task)
  /\ Stays(p, q) /\ q.height = p.height /\ q.waiting = p.waiting
  /\ IF task.kind \in Declarations
     THEN p.waiting = {} /\ q.scopes = WithNames(p.scopes, {task.name})
     ELSE q.scopes = p.scopes

(* A value is put aside. *)
GoesKeep(p, task, q) ==
  /\ task.kind = "keep"
  /\ Stays(p, q) /\ q.height = p.height + 1 /\ q.waiting = p.waiting /\ q.scopes = p.scopes

(* The values that are used up. *)
Taken(node) ==
  IF node.kind = "Binary" THEN 1 ELSE IF node.kind = "Call" THEN Len(node.arguments) + 1 ELSE 0

(* An operator uses up values. *)
GoesApply(visits, p, task, q) ==
  /\ task.kind = "apply" /\ task.node.kind # "Var" /\ Visited(visits, p, task.node)
  /\ Stays(p, q) /\ q.height = p.height - Taken(task.node) /\ q.waiting = p.waiting /\ q.scopes = p.scopes

(* A variable gets its value, and its name waits for it no longer. *)
GoesDefine(p, task, q) ==
  /\ task.kind = "apply" /\ task.node.kind = "Var" /\ p.waiting \subseteq {task.node.name}
  /\ Stays(p, q) /\ q.height = p.height /\ q.waiting = {}
  /\ q.scopes = WithNames(p.scopes, {task.node.name})

(***************************************************************************)
(* The end of a block or call goes back to the environment that the task   *)
(* has kept.                                                               *)
(***************************************************************************)
GoesLeave(es, p, task, q) ==
  /\ task.kind \in {"leave_block", "leave_call"}
  /\ p.waiting = {} /\ p.floor = p.height /\ p.height = task.depth
  /\ q.env = task.env /\ q.height = task.depth
  /\ HasNames(es, q.scopes, q.env)
  /\ task.kind = "leave_block" =>
       p.env \in 1 .. Len(es) /\ es[p.env].enclosing = task.env /\ q.in_function = p.in_function

(* Where a task leads to from a point. *)
Goes(visits, es, p, task, q) ==
  /\ PointOk(p) /\ PointOk(q)
  /\ \/ GoesVisit(visits, p, task, q)
     \/ GoesKeep(p, task, q)
     \/ GoesApply(visits, p, task, q)
     \/ GoesDefine(p, task, q)
     \/ GoesLeave(es, p, task, q)

(* A plan has a point before each of the tasks, and one after the last. *)
IsPlan(visits, es, tasks, plan) ==
  \A i \in 1 .. Len(tasks) : Goes(visits, es, plan[i], tasks[i], plan[i + 1])

(* Where tasks one after the other lead to. *)
Leads(visits, es, tasks, p, q) ==
  \E plan : plan[1] = p /\ plan[Len(tasks) + 1] = q /\ IsPlan(visits, es, tasks, plan)

-----------------------------------------------------------------------------
(* Nothing to do leads nowhere. *)
LEMMA LeadsNowhere ==
  ASSUME NEW visits, NEW es, NEW p
  PROVE  Leads(visits, es, <<>>, p, p)
<1> DEFINE plan == [i \in 1 .. 1 |-> p]
<1>1. plan[1] = p /\ Len(<<>>) = 0 /\ 0 + 1 = 1
  OBVIOUS
<1>2. IsPlan(visits, es, <<>>, plan)
  BY <1>1 DEF IsPlan
<1> QED
  BY <1>1, <1>2 DEF Leads

(* One task leads where it goes. *)
LEMMA LeadsBy ==
  ASSUME NEW visits, NEW es, NEW p, NEW task, NEW q, Goes(visits, es, p, task, q)
  PROVE  Leads(visits, es, <<task>>, p, q) /\ IsSeq(<<task>>)
<1> DEFINE plan == [i \in 1 .. 2 |-> IF i = 1 THEN p ELSE q]
<1>1. plan[1] = p /\ plan[2] = q /\ Len(<<task>>) = 1 /\ <<task>>[1] = task /\ 1 + 1 = 2
  OBVIOUS
<1>2. IsSeq(<<task>>)
  <2>1. <<task>> \in Seq({task})
    OBVIOUS
  <2> QED
    BY <2>1, SeqIsSeq
<1> HIDE DEF plan
<1>3. \A i \in 1 .. 1 : i = 1
  OBVIOUS
<1>4. IsPlan(visits, es, <<task>>, plan)
  BY <1>1, <1>3 DEF IsPlan
<1> QED
  BY <1>1, <1>2, <1>4 DEF Leads

(* Tasks lead to where those behind them begin, and on from there. *)
LEMMA LeadsJoin ==
  ASSUME NEW visits, NEW es, NEW a, NEW b, IsSeq(a), IsSeq(b), NEW p, NEW r, NEW q,
         Leads(visits, es, a, p, r), Leads(visits, es, b, r, q)
  PROVE  Leads(visits, es, a \o b, p, q) /\ IsSeq(a \o b)
<1>1. PICK one : one[1] = p /\ one[Len(a) + 1] = r /\ IsPlan(visits, es, a, one)
  BY DEF Leads
<1>2. PICK two : two[1] = r /\ two[Len(b) + 1] = q /\ IsPlan(visits, es, b, two)
  BY DEF Leads
<1> DEFINE m == Len(a)
           n == Len(b)
           plan == [i \in 1 .. m + n + 1 |-> IF i <= m THEN one[i] ELSE two[i - m]]
<1>3. m \in Nat /\ n \in Nat
  BY SeqFacts
<1>4. /\ IsSeq(a \o b) /\ Len(a \o b) = m + n
      /\ \A i \in 1 .. m + n : (a \o b)[i] = IF i <= m THEN a[i] ELSE b[i - m]
  <2>1. a \in Seq(Range(a) \cup Range(b)) /\ b \in Seq(Range(a) \cup Range(b))
    BY SeqMonotonic DEF IsSeq
  <2>2. a \o b \in Seq(Range(a) \cup Range(b))
    BY <2>1, ConcatProperties
  <2>3. IsSeq(a \o b)
    BY <2>2, SeqIsSeq
  <2> QED
    BY <2>1, <2>3, ConcatProperties
<1> HIDE DEF m, n
<1>5. \A i \in 1 .. m + n + 1 : plan[i] = IF i <= m THEN one[i] ELSE two[i - m]
  OBVIOUS
<1> HIDE DEF plan
<1>6. plan[m + 1] = r /\ plan[m + n + 1] = q
  <2>1. m + 1 \in 1 .. m + n + 1 /\ ~(m + 1 <= m) /\ (m + 1) - m = 1
    BY <1>3
  <2>2. m + n + 1 \in 1 .. m + n + 1 /\ ~(m + n + 1 <= m) /\ (m + n + 1) - m = n + 1
    BY <1>3
  <2> QED
    BY <1>2, <1>5, <2>1, <2>2 DEF n
<1>7. plan[1] = p
  <2>1. CASE m = 0
    BY <1>1, <1>6, <2>1 DEF m
  <2>2. CASE m # 0
    <3>1. 1 \in 1 .. m + n + 1 /\ 1 <= m
      BY <1>3, <2>2
    <3> QED
      BY <1>1, <1>5, <3>1
  <2> QED
    BY <2>1, <2>2
<1>8. ASSUME NEW i \in 1 .. m + n
      PROVE  Goes(visits, es, plan[i], (a \o b)[i], plan[i + 1])
  <2>1. CASE i <= m
    <3>1. i \in 1 .. m + n + 1 /\ i \in 1 .. m
      BY <1>3, <2>1
    <3>2. plan[i + 1] = one[i + 1]
      <4>1. CASE i = m
        BY <1>1, <1>6, <4>1 DEF m
      <4>2. CASE i # m
        <5>1. i + 1 \in 1 .. m + n + 1 /\ i + 1 <= m
          BY <1>3, <2>1, <4>2
        <5> QED
          BY <1>5, <5>1
      <4> QED
        BY <4>1, <4>2
    <3>3. Goes(visits, es, one[i], a[i], one[i + 1])
      BY <1>1, <3>1 DEF IsPlan, m
    <3>4. plan[i] = one[i] /\ (a \o b)[i] = a[i]
      BY <1>4, <1>5, <2>1, <3>1
    <3> QED
      BY <3>2, <3>3, <3>4
  <2>2. CASE ~(i <= m)
    <3>1. /\ i \in 1 .. m + n + 1 /\ i + 1 \in 1 .. m + n + 1 /\ ~(i + 1 <= m)
          /\ i - m \in 1 .. n /\ (i + 1) - m = (i - m) + 1
      BY <1>3, <2>2
    <3>2. plan[i] = two[i - m] /\ plan[i + 1] = two[(i - m) + 1] /\ (a \o b)[i] = b[i - m]
      BY <1>4, <1>5, <2>2, <3>1
    <3>3. Goes(visits, es, two[i - m], b[i - m], two[(i - m) + 1])
      BY <1>2, <3>1 DEF IsPlan, n
    <3> QED
      BY <3>2, <3>3
  <2> QED
    BY <2>1, <2>2
<1>9. IsPlan(visits, es, a \o b, plan)
  BY <1>4, <1>8 DEF IsPlan
<1> QED
  BY <1>4, <1>6, <1>7, <1>9 DEF Leads

(* What is left to do from the n-th of the tasks on. *)
LEMMA LeadsFrom ==
  ASSUME NEW visits, NEW es, NEW tasks, IsSeq(tasks), NEW plan, IsPlan(visits, es, tasks, plan),
         NEW n \in 1 .. Len(tasks) + 1
  PROVE  /\ IsSeq(SubSeq(tasks, n, Len(tasks)))
         /\ Leads(visits, es, SubSeq(tasks, n, Len(tasks)), plan[n], plan[Len(tasks) + 1])
<1> DEFINE m == Len(tasks)
           rest == SubSeq(tasks, n, m)
           from == [i \in 1 .. m - n + 2 |-> plan[(n - 1) + i]]
<1>1. m \in Nat /\ n \in 1 .. m + 1
  BY SeqFacts
<1>2. tasks \in Seq(Range(tasks))
  BY DEF IsSeq
<1>3. /\ IsSeq(rest) /\ Len(rest) = m - n + 1
      /\ \A i \in 1 .. m - n + 1 : rest[i] = tasks[(n - 1) + i]
  <2>1. n \in 1 .. m + 1 /\ m \in n - 1 .. m
    BY <1>1
  <2>2. /\ rest \in Seq(Range(tasks))
        /\ Len(rest) = IF n <= m THEN m - n + 1 ELSE 0
        /\ \A i \in 1 .. m - n + 1 : rest[i] = tasks[n + i - 1]
    BY <1>1, <1>2, SubSeqProperties
  <2>3. IsSeq(rest)
    BY <2>2, SeqIsSeq
  <2> HIDE DEF rest, m
  <2>4. \A i \in 1 .. m - n + 1 : n + i - 1 = (n - 1) + i
    BY <1>1
  <2> QED
    BY <1>1, <2>2, <2>3, <2>4
<1> HIDE DEF rest, m
<1>4. /\ 1 \in 1 .. m - n + 2 /\ (n - 1) + 1 = n
      /\ m - n + 2 \in 1 .. m - n + 2 /\ (n - 1) + (m - n + 2) = m + 1 /\ (m - n + 1) + 1 = m - n + 2
  BY <1>1
<1>5. from[1] = plan[n] /\ from[(m - n + 1) + 1] = plan[m + 1]
  BY <1>4
<1>6. ASSUME NEW i \in 1 .. m - n + 1
      PROVE  Goes(visits, es, from[i], rest[i], from[i + 1])
  <2>1. /\ i \in 1 .. m - n + 2 /\ i + 1 \in 1 .. m - n + 2
        /\ (n - 1) + i \in 1 .. m /\ (n - 1) + (i + 1) = ((n - 1) + i) + 1
    BY <1>1
  <2>2. from[i] = plan[(n - 1) + i] /\ from[i + 1] = plan[((n - 1) + i) + 1]
    BY <2>1
  <2> HIDE DEF from
  <2>3. Goes(visits, es, plan[(n - 1) + i], tasks[(n - 1) + i], plan[((n - 1) + i) + 1])
    BY <2>1 DEF IsPlan, m
  <2> QED
    BY <1>3, <2>2, <2>3
<1> HIDE DEF from
<1>7. IsPlan(visits, es, rest, from)
  BY <1>3, <1>6 DEF IsPlan
<1>8. Leads(visits, es, rest, plan[n], plan[m + 1])
  BY <1>3, <1>5, <1>7 DEF Leads
<1> QED
  BY <1>3, <1>8 DEF rest, m

(* The first of the tasks, and the others. *)
LEMMA LeadsFirst ==
  ASSUME NEW visits, NEW es, NEW tasks, IsSeq(tasks), tasks # <<>>, NEW p, NEW q,
         Leads(visits, es, tasks, p, q)
  PROVE  /\ IsSeq(Tail(tasks))
         /\ \E r : Goes(visits, es, p, Head(tasks), r) /\ Leads(visits, es, Tail(tasks), r, q)
<1>1. PICK plan : plan[1] = p /\ plan[Len(tasks) + 1] = q /\ IsPlan(visits, es, tasks, plan)
  BY DEF Leads
<1>2. Len(tasks) \in Nat /\ Len(tasks) # 0 /\ tasks \in Seq(Range(tasks))
  BY SeqFacts, EmptySeq DEF IsSeq
<1>3. 1 \in 1 .. Len(tasks) /\ 2 \in 1 .. Len(tasks) + 1 /\ 1 + 1 = 2
  BY <1>2
<1>4. Head(tasks) = tasks[1] /\ Tail(tasks) = SubSeq(tasks, 2, Len(tasks))
  BY <1>2, HeadTailProperties
<1>5. Goes(visits, es, p, Head(tasks), plan[2])
  BY <1>1, <1>3, <1>4 DEF IsPlan
<1>6. IsSeq(Tail(tasks)) /\ Leads(visits, es, Tail(tasks), plan[2], q)
  BY <1>1, <1>3, <1>4, LeadsFrom
<1> QED
  BY <1>5, <1>6

(* Plans hold when there are more environments and variables. *)
LEMMA LeadsLater ==
  ASSUME NEW es, EnvironmentsOk(es), NEW later, EnvironmentsOk(later), Grows(es, later),
         NEW visits, NEW tasks, NEW p, NEW q, Leads(visits, es, tasks, p, q)
  PROVE  Leads(visits, later, tasks, p, q)
<1>1. PICK plan : plan[1] = p /\ plan[Len(tasks) + 1] = q /\ IsPlan(visits, es, tasks, plan)
  BY DEF Leads
<1>2. ASSUME NEW a, NEW b, NEW task, Goes(visits, es, a, task, b)
      PROVE  Goes(visits, later, a, task, b)
  <2>1. ASSUME GoesLeave(es, a, task, b) PROVE GoesLeave(later, a, task, b)
    <3>1. HasNames(later, b.scopes, b.env)
      BY <2>1, NamesLater DEF GoesLeave
    <3>2. Len(es) \in Nat /\ Len(later) \in Nat /\ Len(es) <= Len(later)
      BY SeqFacts DEF EnvironmentsOk, Grows
    <3>3. a.env \in 1 .. Len(es) => a.env \in 1 .. Len(later) /\ later[a.env].enclosing = es[a.env].enclosing
      BY <3>2 DEF Grows
    <3> QED
      BY <2>1, <3>1, <3>3 DEF GoesLeave
  <2> QED
    BY <1>2, <2>1 DEF Goes
<1>3. IsPlan(visits, later, tasks, plan)
  BY <1>1, <1>2 DEF IsPlan
<1> QED
  BY <1>1, <1>3 DEF Leads

(* declare and define add names to the innermost scope, if there is one. *)
LEMMA WithNamesFacts ==
  ASSUME NEW scopes, IsSeq(scopes), NEW names
  PROVE  /\ IsSeq(WithNames(scopes, names)) /\ Len(WithNames(scopes, names)) = Len(scopes)
         /\ \A k \in 1 .. Len(scopes) :
              WithNames(scopes, names)[k] = IF k = 1 THEN scopes[1] \cup names ELSE scopes[k]
<1> DEFINE inner == <<scopes[1] \cup names>>
           S == Range(scopes) \cup {scopes[1] \cup names}
<1>1. CASE scopes = <<>>
  BY <1>1, EmptyFacts DEF WithNames
<1>2. CASE scopes # <<>>
  <2>1. scopes \in Seq(Range(scopes)) /\ Len(scopes) \in Nat /\ Len(scopes) # 0
    BY <1>2, SeqFacts, EmptySeq DEF IsSeq
  <2>2. /\ Tail(scopes) \in Seq(Range(scopes)) /\ Len(Tail(scopes)) = Len(scopes) - 1
        /\ \A i \in 1 .. Len(scopes) - 1 : Tail(scopes)[i] = scopes[i + 1]
    BY <1>2, <2>1, HeadTailProperties
  <2>3. /\ inner \in Seq(S) /\ Len(inner) = 1 /\ inner[1] = scopes[1] \cup names
        /\ Tail(scopes) \in Seq(S)
    BY <2>2, SeqMonotonic
  <2>4. WithNames(scopes, names) = inner \o Tail(scopes)
    BY <1>2 DEF WithNames
  <2> HIDE DEF inner, S
  <2>5. /\ inner \o Tail(scopes) \in Seq(S) /\ Len(inner \o Tail(scopes)) = 1 + (Len(scopes) - 1)
        /\ \A i \in 1 .. 1 + (Len(scopes) - 1) :
             (inner \o Tail(scopes))[i] = IF i <= 1 THEN inner[i] ELSE Tail(scopes)[i - 1]
    BY <2>2, <2>3, ConcatProperties
  <2>6. ASSUME NEW k \in 1 .. Len(scopes)
        PROVE  (inner \o Tail(scopes))[k] = IF k = 1 THEN scopes[1] \cup names ELSE scopes[k]
    <3>1. k \in 1 .. 1 + (Len(scopes) - 1)
      BY <2>1
    <3>2. CASE k = 1
      BY <2>3, <2>5, <3>1, <3>2
    <3>3. CASE k # 1
      <4>1. k - 1 \in 1 .. Len(scopes) - 1 /\ (k - 1) + 1 = k /\ ~(k <= 1)
        BY <2>1, <3>3
      <4> QED
        BY <2>2, <2>5, <3>1, <3>3, <4>1
    <3> QED
      BY <3>2, <3>3
  <2>7. IsSeq(inner \o Tail(scopes))
    BY <2>5, SeqIsSeq
  <2>8. 1 + (Len(scopes) - 1) = Len(scopes)
    BY <2>1
  <2> QED
    BY <2>4, <2>5, <2>6, <2>7, <2>8
<1> QED
  BY <1>1, <1>2

(* Sequences with the same elements are the same. *)
LEMMA SameSeq ==
  ASSUME NEW a, NEW b, IsSeq(a), IsSeq(b), Len(a) = Len(b), \A i \in 1 .. Len(a) : a[i] = b[i]
  PROVE  a = b
<1>1. a \in Seq(Range(a) \cup Range(b)) /\ b \in Seq(Range(a) \cup Range(b))
  BY SeqMonotonic DEF IsSeq
<1> QED
  BY <1>1, SeqEqual

(* To declare nothing changes no scope. *)
LEMMA WithNoNames ==
  ASSUME NEW scopes, IsSeq(scopes)
  PROVE  WithNames(scopes, {}) = scopes
<1>1. /\ IsSeq(WithNames(scopes, {})) /\ Len(WithNames(scopes, {})) = Len(scopes)
      /\ \A k \in 1 .. Len(scopes) :
           WithNames(scopes, {})[k] = IF k = 1 THEN scopes[1] \cup {} ELSE scopes[k]
  BY WithNamesFacts
<1>2. \A k \in 1 .. Len(scopes) : WithNames(scopes, {})[k] = scopes[k]
  BY <1>1
<1> QED
  BY <1>1, <1>2, SameSeq

(* Names are declared one after the other, or all at once. *)
LEMMA WithMoreNames ==
  ASSUME NEW scopes, IsSeq(scopes), NEW a, NEW b
  PROVE  WithNames(WithNames(scopes, a), b) = WithNames(scopes, a \cup b)
<1> DEFINE once == WithNames(scopes, a)
           twice == WithNames(once, b)
           both == WithNames(scopes, a \cup b)
<1>1. /\ IsSeq(once) /\ Len(once) = Len(scopes)
      /\ \A k \in 1 .. Len(scopes) : once[k] = IF k = 1 THEN scopes[1] \cup a ELSE scopes[k]
  BY WithNamesFacts
<1>2. /\ IsSeq(both) /\ Len(both) = Len(scopes)
      /\ \A k \in 1 .. Len(scopes) : both[k] = IF k = 1 THEN scopes[1] \cup (a \cup b) ELSE scopes[k]
  BY WithNamesFacts
<1>3. /\ IsSeq(twice) /\ Len(twice) = Len(once)
      /\ \A k \in 1 .. Len(once) : twice[k] = IF k = 1 THEN once[1] \cup b ELSE once[k]
  <2>1. IsSeq(once)
    BY <1>1
  <2> HIDE DEF once
  <2> QED
    BY <2>1, WithNamesFacts
<1> HIDE DEF once, twice, both
<1>4. \A k \in 1 .. Len(twice) : twice[k] = both[k]
  <2> TAKE k \in 1 .. Len(twice)
  <2>1. CASE k = 1
    <3>1. twice[1] = once[1] \cup b /\ once[1] = scopes[1] \cup a /\ both[1] = scopes[1] \cup (a \cup b)
      BY <1>1, <1>2, <1>3, <2>1
    <3> QED
      BY <2>1, <3>1
  <2>2. CASE k # 1
    BY <1>1, <1>2, <1>3, <2>2
  <2> QED
    BY <2>1, <2>2
<1>5. twice = both
  BY <1>1, <1>2, <1>3, <1>4, SameSeq
<1> QED
  BY <1>5 DEF once, twice, both

(* Scopes with more names where the environments have them. *)
LEMMA NamesDefined ==
  ASSUME NEW es, EnvironmentsOk(es), NEW scopes, NEW env, HasNames(es, scopes, env), NEW name, NEW v
  PROVE  HasNames(Holds(es, env, name, v), WithNames(scopes, {name}), env)
<1> DEFINE later == Holds(es, env, name, v)
           more == WithNames(scopes, {name})
<1>0. env \in 1 .. Len(es) /\ IsSeq(scopes)
  BY DEF HasNames
<1>1. EnvironmentsOk(later) /\ Grows(es, later) /\ DOMAIN later[env].values = DOMAIN es[env].values \cup {name}
  BY <1>0, VariableDefined
<1> HIDE DEF later
<1>2. HasNames(later, scopes, env)
  BY <1>1, NamesLater
<1>3. /\ IsSeq(more) /\ Len(more) = Len(scopes)
      /\ \A k \in 1 .. Len(scopes) : more[k] = IF k = 1 THEN scopes[1] \cup {name} ELSE scopes[k]
  BY <1>0, WithNamesFacts
<1> HIDE DEF more
<1>4. Outwards(later, env)[1] = env
  BY <1>1, <1>2, OutwardsFacts DEF HasNames
<1>5. \A k \in 1 .. Len(scopes) : more[k] \subseteq DOMAIN later[Outwards(later, env)[k]].values
  <2> TAKE k \in 1 .. Len(scopes)
  <2>1. scopes[k] \subseteq DOMAIN later[Outwards(later, env)[k]].values
    BY <1>2 DEF HasNames
  <2>2. CASE k = 1
    <3>1. more[k] = scopes[k] \cup {name} /\ Outwards(later, env)[k] = env
      BY <1>3, <1>4, <2>2
    <3> QED
      BY <1>1, <2>1, <3>1
  <2>3. CASE k # 1
    BY <1>3, <2>1, <2>3
  <2> QED
    BY <2>2, <2>3
<1>6. HasNames(later, more, env)
  BY <1>2, <1>3, <1>5 DEF HasNames
<1> QED
  BY <1>6 DEF later, more

-----------------------------------------------------------------------------
(* Plans for what a visit puts in front *)

(* A visit that follows from one that was made. *)
LEMMA VisitGoes ==
  ASSUME NEW visits, NEW known, FollowRules(visits, known), NEW es, NEW p, PointOk(p), NEW node,
         node.kind \in Expressions \cup Statements_, Visited(visits, p, node)
  PROVE  Goes(visits, es, p, node, p)
<1> DEFINE v == VisitOf(node, p.scopes, p.waiting, p.in_function)
<1>1. v \in visits /\ v.node = node
  BY DEF Visited, VisitOf
<1> HIDE DEF v
<1>2. WellBuilt(node)
  BY <1>1 DEF FollowRules
<1>3. node.kind = "Literal" => ~IsCallable(node.value)
  BY <1>2 DEF WellBuilt
<1>4. node.kind \in NodeKinds /\ node.kind \notin Declarations
  BY DEF NodeKinds, Expressions, Statements_, Declarations
<1>5. GoesVisit(visits, p, node, p)
  BY <1>3, <1>4 DEF GoesVisit, Stays
<1> QED
  BY <1>5 DEF Goes

(* Statements and declarations one after the other. *)
LEMMA SequenceGoes ==
  ASSUME NEW visits, NEW known, FollowRules(visits, known), NEW es,
         NEW nodes, Each(nodes, Statements_ \cup Declarations), NEW scopes, IsSeq(scopes),
         NEW in_function, InSequence(nodes, scopes, in_function) \subseteq visits,
         NEW env, NEW height \in Nat, NEW floor \in 0 .. height
  PROVE  \E names : Leads(visits, es, nodes, At(env, floor, height, scopes, {}, in_function),
                          At(env, floor, height, WithNames(scopes, names), {}, in_function))
<1> DEFINE n == Len(nodes)
           point(i) == At(env, floor, height, WithNames(scopes, DeclaredBefore(nodes, i)), {}, in_function)
           plan == [i \in 1 .. n + 1 |-> point(i)]
<1>1. IsSeq(nodes) /\ n \in Nat /\ DOMAIN nodes = 1 .. n
  BY SeqFacts DEF Each, IsSeq
<1>2. \A i \in 1 .. n + 1 : PointOk(point(i))
  BY DEF PointOk, At
<1>3. ASSUME NEW i \in 1 .. n
      PROVE  Goes(visits, es, point(i), nodes[i], point(i + 1))
  <2> DEFINE p == point(i)
             q == point(i + 1)
             node == nodes[i]
             v == VisitOf(node, WithNames(scopes, DeclaredBefore(nodes, i)), {}, in_function)
  <2>1. node.kind \in Statements_ \cup Declarations
    BY <1>1 DEF Each
  <2>2. v \in visits /\ Visited(visits, p, node)
    BY <1>1 DEF InSequence, Visited, At
  <2>3. /\ p.env = env /\ p.floor = floor /\ p.height = height /\ p.waiting = {} /\ p.in_function = in_function
        /\ p.scopes = WithNames(scopes, DeclaredBefore(nodes, i))
        /\ q.env = env /\ q.floor = floor /\ q.height = height /\ q.waiting = {} /\ q.in_function = in_function
        /\ q.scopes = WithNames(scopes, DeclaredBefore(nodes, i + 1))
    BY DEF At
  <2>4. PointOk(p) /\ PointOk(q)
    BY <1>1, <1>2
  <2>5. node.kind # "Literal" /\ node.kind \in NodeKinds
    BY <2>1 DEF Statements_, Declarations, NodeKinds
  <2>6. i \in Nat /\ 1 .. (i + 1) - 1 = (1 .. i - 1) \cup {i}
    BY <1>1
  <2>7. DeclaredBefore(nodes, i + 1)
          = IF node.kind \in Declarations THEN DeclaredBefore(nodes, i) \cup {node.name} ELSE DeclaredBefore(nodes, i)
    BY <2>6 DEF DeclaredBefore
  <2> HIDE DEF p, q, node
  <2>8. IF node.kind \in Declarations THEN q.scopes = WithNames(p.scopes, {node.name}) ELSE q.scopes = p.scopes
    <3>1. WithNames(WithNames(scopes, DeclaredBefore(nodes, i)), {node.name})
            = WithNames(scopes, DeclaredBefore(nodes, i) \cup {node.name})
      BY WithMoreNames
    <3> QED
      BY <2>3, <2>7, <3>1
  <2>9. GoesVisit(visits, p, node, q)
    BY <2>2, <2>3, <2>5, <2>8 DEF GoesVisit, Stays
  <2>10. Goes(visits, es, p, node, q)
    BY <2>4, <2>9 DEF Goes
  <2> QED
    BY <2>10 DEF p, q, node
<1>4. \A i \in 1 .. n + 1 : plan[i] = point(i)
  OBVIOUS
<1>5. 1 \in 1 .. n + 1 /\ n + 1 \in 1 .. n + 1 /\ \A i \in 1 .. n : i \in 1 .. n + 1 /\ i + 1 \in 1 .. n + 1
  BY <1>1
<1>6. point(1) = At(env, floor, height, scopes, {}, in_function)
  <2>1. DeclaredBefore(nodes, 1) = {}
    BY DEF DeclaredBefore
  <2>2. WithNames(scopes, {}) = scopes
    BY WithNoNames
  <2> QED
    BY <2>1, <2>2
<1>7. point(n + 1) = At(env, floor, height, WithNames(scopes, DeclaredBefore(nodes, n + 1)), {}, in_function)
  OBVIOUS
<1> HIDE DEF point
<1>8. IsPlan(visits, es, nodes, plan)
  <2>1. \A i \in 1 .. n : plan[i] = point(i) /\ plan[i + 1] = point(i + 1)
    BY <1>4, <1>5
  <2> HIDE DEF plan
  <2> QED
    BY <1>3, <2>1 DEF IsPlan
<1>9. plan[1] = point(1) /\ plan[n + 1] = point(n + 1)
  BY <1>4, <1>5
<1> HIDE DEF plan
<1>10. Leads(visits, es, nodes, point(1), point(n + 1))
  BY <1>8, <1>9 DEF Leads
<1> QED
  BY <1>6, <1>7, <1>10

(* Expressions each of whose values is kept. *)
LEMMA KeptGoes ==
  ASSUME NEW visits, NEW known, FollowRules(visits, known), NEW es, NEW p, PointOk(p),
         NEW nodes, IsSeq(nodes),
         \A i \in 1 .. Len(nodes) : nodes[i].kind \in Expressions /\ Visited(visits, p, nodes[i])
  PROVE  IsSeq(Kept(nodes)) /\ Leads(visits, es, Kept(nodes), p, WithHeight(p, p.height + Len(nodes)))
<1> DEFINE n == Len(nodes)
           point(i) == WithHeight(p, p.height + ((i - 1) \div 2))
           plan == [i \in 1 .. 2 * n + 1 |-> point(i)]
           tasks == Kept(nodes)
<1>1. n \in Nat /\ p.height \in Nat /\ p.floor \in 0 .. p.height /\ p = WithHeight(p, p.height)
  BY SeqFacts DEF PointOk, WithHeight
<1>2. IsSeq(tasks) /\ Len(tasks) = 2 * n
  <2> HIDE DEF n
  <2>1. 2 * n \in Nat /\ DOMAIN tasks = 1 .. 2 * n /\ tasks = [i \in 1 .. 2 * n |-> tasks[i]]
    BY <1>1 DEF Kept, n
  <2> HIDE DEF tasks
  <2> QED
    BY <2>1, FunctionIsSeq
<1>3. ASSUME NEW i \in 1 .. 2 * n
      PROVE  Goes(visits, es, point(i), tasks[i], point(i + 1))
  <2> DEFINE a == point(i)
             b == point(i + 1)
  <2>1. /\ a.env = p.env /\ a.floor = p.floor /\ a.scopes = p.scopes /\ a.waiting = p.waiting
        /\ a.in_function = p.in_function /\ a.height = p.height + ((i - 1) \div 2)
        /\ b.env = p.env /\ b.floor = p.floor /\ b.scopes = p.scopes /\ b.waiting = p.waiting
        /\ b.in_function = p.in_function /\ b.height = p.height + ((i + 1 - 1) \div 2)
    BY DEF WithHeight, At
  <2>2. PointOk(a) /\ PointOk(b)
    <3>1. (i - 1) \div 2 \in Nat /\ (i + 1 - 1) \div 2 \in Nat
      BY <1>1
    <3>2. a.height \in Nat /\ a.floor \in 0 .. a.height /\ b.height \in Nat /\ b.floor \in 0 .. b.height
      <4> HIDE DEF a, b
      <4> QED
        BY <1>1, <2>1, <3>1
    <3>3. /\ a = At(a.env, a.floor, a.height, a.scopes, a.waiting, a.in_function)
          /\ b = At(b.env, b.floor, b.height, b.scopes, b.waiting, b.in_function)
      BY DEF WithHeight, At
    <3> HIDE DEF a, b
    <3> QED
      BY <3>2, <3>3 DEF PointOk
  <2>3. CASE i % 2 = 1
    <3>1. (i + 1) \div 2 \in 1 .. n /\ (i - 1) \div 2 = (i + 1 - 1) \div 2
      BY <1>1, <2>3
    <3>2. tasks[i] = nodes[(i + 1) \div 2]
      BY <2>3 DEF Kept
    <3> DEFINE node == nodes[(i + 1) \div 2]
    <3>3. node.kind \in Expressions /\ Visited(visits, p, node)
      BY <3>1
    <3> HIDE DEF a, b, node
    <3>4. b.height = a.height
      BY <2>1, <3>1
    <3>5. Visited(visits, a, node)
      BY <2>1, <3>3 DEF Visited
    <3>6. Goes(visits, es, a, node, a)
      BY <2>2, <3>3, <3>5, VisitGoes
    <3>7. b = a
      BY <2>1, <2>2, <3>4 DEF PointOk
    <3>8. Goes(visits, es, a, tasks[i], b)
      BY <3>2, <3>6, <3>7 DEF node
    <3> QED
      BY <3>8 DEF a, b
  <2>4. CASE i % 2 # 1
    <3>1. (i + 1 - 1) \div 2 = (i - 1) \div 2 + 1 /\ (i - 1) \div 2 \in Nat
      BY <1>1, <2>4
    <3>2. tasks[i] = Keep
      BY <2>4 DEF Kept
    <3> HIDE DEF a, b
    <3>3. b.height = a.height + 1
      <4>1. PICK k \in Nat : k = (i - 1) \div 2
        BY <3>1
      <4>2. a.height = p.height + k /\ b.height = p.height + (k + 1)
        BY <2>1, <3>1, <4>1
      <4> QED
        BY <1>1, <4>1, <4>2
    <3>4. GoesKeep(a, tasks[i], b)
      BY <2>1, <3>2, <3>3 DEF GoesKeep, Keep, Stays
    <3>5. Goes(visits, es, a, tasks[i], b)
      BY <2>2, <3>4 DEF Goes
    <3> QED
      BY <3>5 DEF a, b
  <2> QED
    BY <2>3, <2>4
<1>4. /\ 1 \in 1 .. 2 * n + 1 /\ 2 * n + 1 \in 1 .. 2 * n + 1 /\ (1 - 1) \div 2 = 0 /\ (2 * n + 1 - 1) \div 2 = n
      /\ \A i \in 1 .. 2 * n : i \in 1 .. 2 * n + 1 /\ i + 1 \in 1 .. 2 * n + 1
  BY <1>1
<1>5. \A i \in 1 .. 2 * n + 1 : plan[i] = point(i)
  OBVIOUS
<1>6. point(1) = p /\ point(2 * n + 1) = WithHeight(p, p.height + n)
  <2>1. point(1) = WithHeight(p, p.height + 0) /\ point(2 * n + 1) = WithHeight(p, p.height + n)
    BY <1>4
  <2>2. p.height + 0 = p.height
    BY <1>1
  <2> QED
    BY <1>1, <2>1, <2>2
<1> HIDE DEF point, plan, tasks, n
<1>7. \A i \in 1 .. 2 * n : plan[i] = point(i) /\ plan[i + 1] = point(i + 1)
  BY <1>4, <1>5
<1>8. IsPlan(visits, es, tasks, plan)
  BY <1>2, <1>3, <1>7 DEF IsPlan
<1>9. plan[1] = p /\ plan[Len(tasks) + 1] = WithHeight(p, p.height + n)
  BY <1>2, <1>4, <1>5, <1>6
<1> QED
  BY <1>2, <1>8, <1>9 DEF Leads, tasks, n

(* The ends of blocks and calls. *)
Leaves == {"leave_block", "leave_call"}

(* A variable gets its value before the n-th of the tasks. *)
Gets(tasks, name, n) ==
  \E j \in 1 .. n - 1 : tasks[j].kind = "apply" /\ tasks[j].node.kind = "Var" /\ tasks[j].node.name = name

(* Up to the end of a block the environment stays, and what waits for a value gets it. *)
LEMMA StaysUntil ==
  ASSUME NEW visits, NEW es, NEW tasks, IsSeq(tasks), NEW plan, IsPlan(visits, es, tasks, plan),
         NEW n \in 1 .. Len(tasks) + 1, \A j \in 1 .. n - 1 : tasks[j].kind \notin Leaves
  PROVE  /\ Stays(plan[1], plan[n])
         /\ \A name \in plan[1].waiting : name \in plan[n].waiting \/ Gets(tasks, name, n)
<1> DEFINE P(m) == /\ Stays(plan[1], plan[m])
                   /\ \A name \in plan[1].waiting : name \in plan[m].waiting \/ Gets(tasks, name, m)
           S == {m \in Nat : m + 1 <= n => P(m + 1)}
<1>1. Len(tasks) \in Nat
  BY SeqFacts
<1>2. 0 \in S
  <2>1. P(1)
    BY DEF Stays
  <2> HIDE DEF P
  <2> QED
    BY <2>1
<1>3. ASSUME NEW m \in Nat, m \in S PROVE m + 1 \in S
  <2> SUFFICES ASSUME m + 1 + 1 <= n PROVE P(m + 1 + 1)
    OBVIOUS
  <2> DEFINE i == m + 1
             task == tasks[i]
             p == plan[i]
             q == plan[i + 1]
  <2>1. i \in 1 .. n - 1 /\ i \in 1 .. Len(tasks) /\ i <= n /\ i + 1 - 1 = i /\ i \in Nat
    BY <1>1
  <2>2. P(i)
    <3> HIDE DEF P
    <3> QED
      BY <1>3, <2>1
  <2>3. Goes(visits, es, p, task, q)
    BY <2>1 DEF IsPlan
  <2>4. task.kind \notin Leaves
    BY <2>1
  <2> HIDE DEF i
  <2>5. /\ Stays(p, q)
        /\ \A name \in p.waiting : name \in q.waiting \/ (/\ task.kind = "apply" /\ task.node.kind = "Var"
                                                          /\ task.node.name = name)
    <3> HIDE DEF p, q, task
    <3>1. CASE GoesVisit(visits, p, task, q)
      BY <3>1 DEF GoesVisit
    <3>2. CASE GoesKeep(p, task, q)
      BY <3>2 DEF GoesKeep
    <3>3. CASE GoesApply(visits, p, task, q)
      BY <3>3 DEF GoesApply
    <3>4. CASE GoesDefine(p, task, q)
      BY <3>4 DEF GoesDefine
    <3>5. ~GoesLeave(es, p, task, q)
      BY <2>4 DEF GoesLeave, Leaves
    <3> QED
      BY <2>3, <3>1, <3>2, <3>3, <3>4, <3>5 DEF Goes
  <2>6. Stays(plan[1], q)
    BY <2>2, <2>5 DEF Stays
  <2>7. ASSUME NEW name \in plan[1].waiting PROVE name \in q.waiting \/ Gets(tasks, name, i + 1)
    <3>1. name \in p.waiting \/ Gets(tasks, name, i)
      BY <2>2
    <3>2. ASSUME Gets(tasks, name, i) PROVE Gets(tasks, name, i + 1)
      <4>1. PICK j \in 1 .. i - 1 : /\ tasks[j].kind = "apply" /\ tasks[j].node.kind = "Var"
                                   /\ tasks[j].node.name = name
        BY <3>2 DEF Gets
      <4>2. j \in 1 .. i + 1 - 1
        BY <2>1
      <4> QED
        BY <2>1, <4>1, <4>2 DEF Gets
    <3>3. ASSUME name \in p.waiting PROVE name \in q.waiting \/ Gets(tasks, name, i + 1)
      <4>1. i \in 1 .. i + 1 - 1
        BY <2>1
      <4> QED
        BY <2>5, <3>3, <4>1 DEF Gets
    <3> QED
      BY <3>1, <3>2, <3>3
  <2> QED
    BY <2>6, <2>7 DEF i
<1>4. Nat \subseteq S
  <2> HIDE DEF S
  <2> QED
    BY <1>2, <1>3, Induction
<1>5. n - 1 \in Nat /\ (n - 1) + 1 = n /\ n <= n
  BY <1>1
<1>6. P(n)
  <2> HIDE DEF P
  <2>1. n - 1 \in S
    BY <1>4, <1>5
  <2> QED
    BY <1>5, <2>1
<1> QED
  BY <1>6

(* Up to the end of a call blocks may end: they are in the same function, and began with less. *)
LEMMA UntilCall ==
  ASSUME NEW visits, NEW es, NEW tasks, IsSeq(tasks), NEW plan, IsPlan(visits, es, tasks, plan),
         PointOk(plan[1]),
         NEW n \in 1 .. Len(tasks) + 1, \A j \in 1 .. n - 1 : tasks[j].kind # "leave_call"
  PROVE  /\ plan[n].in_function = plan[1].in_function
         /\ PointOk(plan[n])
         /\ plan[n].floor <= plan[1].floor
<1> DEFINE P(m) == /\ plan[m].in_function = plan[1].in_function
                   /\ PointOk(plan[m])
                   /\ plan[m].floor <= plan[1].floor
           S == {m \in Nat : m + 1 <= n => P(m + 1)}
<1>1. Len(tasks) \in Nat
  BY SeqFacts
<1>2. 0 \in S
  <2>1. P(1)
    BY DEF PointOk
  <2> HIDE DEF P
  <2> QED
    BY <2>1
<1>3. ASSUME NEW m \in Nat, m \in S PROVE m + 1 \in S
  <2> SUFFICES ASSUME m + 1 + 1 <= n PROVE P(m + 1 + 1)
    OBVIOUS
  <2> DEFINE i == m + 1
             task == tasks[i]
             p == plan[i]
             q == plan[i + 1]
  <2>1. i \in 1 .. n - 1 /\ i \in 1 .. Len(tasks) /\ i <= n
    BY <1>1
  <2>2. P(i)
    <3> HIDE DEF P
    <3> QED
      BY <1>3, <2>1
  <2>3. Goes(visits, es, p, task, q)
    BY <2>1 DEF IsPlan
  <2>4. task.kind # "leave_call"
    BY <2>1
  <2> HIDE DEF i
  <2>5. q.in_function = p.in_function /\ PointOk(p) /\ PointOk(q) /\ (q.floor = p.floor \/ q.floor <= p.floor)
    <3> HIDE DEF p, q, task
    <3>1. CASE GoesVisit(visits, p, task, q)
      BY <2>3, <3>1 DEF GoesVisit, Stays, Goes
    <3>2. CASE GoesKeep(p, task, q)
      BY <2>3, <3>2 DEF GoesKeep, Stays, Goes
    <3>3. CASE GoesApply(visits, p, task, q)
      BY <2>3, <3>3 DEF GoesApply, Stays, Goes
    <3>4. CASE GoesDefine(p, task, q)
      BY <2>3, <3>4 DEF GoesDefine, Stays, Goes
    <3>5. CASE GoesLeave(es, p, task, q)
      <4>1. q.in_function = p.in_function /\ q.height = p.floor
        BY <2>4, <3>5 DEF GoesLeave
      <4>2. PointOk(p) /\ PointOk(q)
        BY <2>3 DEF Goes
      <4>3. q.floor \in 0 .. q.height
        BY <4>2 DEF PointOk
      <4>4. q.floor <= p.floor
        BY <4>1, <4>3
      <4> QED
        BY <4>1, <4>2, <4>4
    <3> QED
      BY <2>3, <3>1, <3>2, <3>3, <3>4, <3>5 DEF Goes
  <2>6. q.floor <= plan[1].floor
    <3>1. plan[1].floor \in Int /\ p.floor \in Int /\ q.floor \in Int
      <4>1. plan[1].height \in Nat /\ plan[1].floor \in 0 .. plan[1].height
        BY DEF PointOk
      <4>2. p.height \in Nat /\ p.floor \in 0 .. p.height /\ q.height \in Nat /\ q.floor \in 0 .. q.height
        BY <2>5 DEF PointOk
      <4> HIDE DEF p, q
      <4> QED
        BY <4>1, <4>2
    <3>2. p.floor <= plan[1].floor
      BY <2>2
    <3> HIDE DEF p, q
    <3> QED
      BY <2>5, <3>1, <3>2
  <2>7. q.in_function = plan[1].in_function
    BY <2>2, <2>5
  <2> QED
    BY <2>5, <2>6, <2>7 DEF i
<1>4. Nat \subseteq S
  <2> HIDE DEF S
  <2> QED
    BY <1>2, <1>3, Induction
<1>5. n - 1 \in Nat /\ (n - 1) + 1 = n /\ n <= n
  BY <1>1
<1>6. P(n)
  <2> HIDE DEF P
  <2>1. n - 1 \in S
    BY <1>4, <1>5
  <2> QED
    BY <1>5, <2>1
<1> QED
  BY <1>6

(* The first task of some kinds, if there is one. *)
LEMMA CatchesFacts ==
  ASSUME IsSeq(todo), NEW kinds
  PROVE  \/ Catches(kinds) = 0 /\ \A i \in 1 .. Len(todo) : todo[i].kind \notin kinds
         \/ /\ Catches(kinds) \in 1 .. Len(todo) /\ todo[Catches(kinds)].kind \in kinds
            /\ \A j \in 1 .. Catches(kinds) - 1 : todo[j].kind \notin kinds
<1> DEFINE I == {i \in 1 .. Len(todo) : todo[i].kind \in kinds}
<1>1. Catches(kinds) = IF I # {} THEN Min(I) ELSE 0
  BY DEF Catches, SelectInSeq
<1>2. Len(todo) \in Nat /\ I \in SUBSET Nat
  BY SeqFacts
<1>3. CASE I = {}
  BY <1>1, <1>3
<1>4. CASE I # {}
  <2> DEFINE c == Catches(kinds)
  <2>1. c \in I /\ \A i \in I : c <= i
    <3> HIDE DEF I
    <3> QED
      BY <1>1, <1>2, <1>4, MinFacts
  <2>2. c \in 1 .. Len(todo) /\ todo[c].kind \in kinds
    BY <2>1
  <2>3. \A j \in 1 .. c - 1 : todo[j].kind \notin kinds
    <3> TAKE j \in 1 .. c - 1
    <3> HIDE DEF c
    <3>1. j \in 1 .. Len(todo) /\ ~(c <= j)
      BY <1>2, <2>2
    <3> QED
      BY <2>1, <3>1
  <2> QED
    BY <2>2, <2>3
<1> QED
  BY <1>3, <1>4

(* Where a name is found. *)
LEMMA HolderFacts ==
  ASSUME EnvironmentsOk(environments), NEW env, env \in 1 .. Len(environments), NEW name,
         Holder(env, name) # 0
  PROVE  Holder(env, name) \in 1 .. Len(environments) /\ name \in DOMAIN ValuesOf(Holder(env, name))
<1> DEFINE path == Outwards(environments, env)
           I == {i \in 1 .. Len(path) : name \in DOMAIN ValuesOf(path[i])}
           i == IF I # {} THEN Min(I) ELSE 0
<1>1. Holder(env, name) = IF i = 0 THEN 0 ELSE path[i]
  BY DEF Holder, SelectInSeq
<1>2. path \in Seq(1 .. Len(environments))
  BY OutwardsFacts
<1>3. I \in SUBSET Nat /\ I # {}
  BY <1>1, <1>2
<1>4. i \in I
  <2> HIDE DEF I
  <2> QED
    BY <1>3, MinFacts
<1> HIDE DEF i
<1>5. i \in 1 .. Len(path) /\ name \in DOMAIN ValuesOf(path[i])
  BY <1>4
<1> HIDE DEF I, path
<1>6. path[i] \in 1 .. Len(environments) /\ i # 0
  BY <1>2, <1>5
<1> QED
  BY <1>1, <1>5, <1>6

(* A callable that the interpreter has made. *)
Sane(cs, v) == IsCallable(v) => \E c \in 1 .. Len(cs) : v = Callable(c)

(* Those of the program at hand close over environments with the names that their visits say. *)
CallablesOk(visits, es, cs, prog) ==
  /\ IsSeq(cs) /\ Len(cs) >= 1
  /\ \A c \in 2 .. Len(cs) :
       /\ cs[c].program \in Nat /\ cs[c].program <= prog
       /\ cs[c].program = prog =>
            \E v \in visits : /\ v.node = cs[c].declaration /\ v.node.kind = "Function"
                              /\ HasNames(es, WithNames(v.scopes, {v.node.name}), cs[c].env)

(* Every value in sight is one that the interpreter has made. *)
ValuesOk(es, cs, vs, v) ==
  /\ IsSeq(vs) /\ \A i \in 1 .. Len(vs) : Sane(cs, vs[i])
  /\ Sane(cs, v)
  /\ \A e \in 1 .. Len(es) : \A n \in DOMAIN es[e].values : Sane(cs, es[e].values[n])

(* The visits and the point that show the state to be right. *)
Standing(visits, p) ==
  /\ FollowRules(visits, locals)
  /\ CallablesOk(visits, environments, callables, program)
  /\ p.env = current_env /\ p.height = Len(values) /\ HasNames(environments, p.scopes, p.env)
  /\ Leads(visits, environments, todo, p, Finish)

(* The inductive invariant. *)
IInv ==
  /\ EnvironmentsOk(environments)
  /\ ValuesOk(environments, callables, values, val)
  /\ IsSeq(todo)
  /\ program \in Nat
  /\ \E visits, p : Standing(visits, p)

(* The next task leads to r. *)
Facing(visits, p, r) ==
  /\ FollowRules(visits, locals)
  /\ CallablesOk(visits, environments, callables, program)
  /\ p.env = current_env /\ p.height = Len(values) /\ HasNames(environments, p.scopes, p.env)
  /\ Goes(visits, environments, p, Task, r)
  /\ IsSeq(Rest) /\ Leads(visits, environments, Rest, r, Finish)

(* The invariant says where the next task leads. *)
LEMMA FacingTask ==
  ASSUME IInv, todo # <<>>
  PROVE  \E visits, p, r : Facing(visits, p, r)
<1>1. PICK visits, p : Standing(visits, p)
  BY DEF IInv
<1>2. IsSeq(todo)
  BY DEF IInv
<1>3. IsSeq(Tail(todo)) /\ \E r : Goes(visits, environments, p, Head(todo), r)
                                  /\ Leads(visits, environments, Tail(todo), r, Finish)
  BY <1>1, <1>2, LeadsFirst DEF Standing
<1>4. PICK r : Goes(visits, environments, p, Head(todo), r) /\ Leads(visits, environments, Tail(todo), r, Finish)
  BY <1>3
<1>5. Facing(visits, p, r)
  BY <1>1, <1>3, <1>4 DEF Facing, Standing, Task, Rest
<1> QED
  BY <1>5

(* A visit puts tasks that lead to r in front. *)
LEMMA Continues ==
  ASSUME IInv, NEW visits, NEW p, NEW r, Facing(visits, p, r),
         NEW tasks, IsSeq(tasks), NEW q, Leads(visits, environments, tasks, q, r),
         q.env = current_env, q.height = Len(values'), HasNames(environments, q.scopes, q.env),
         Continue(tasks),
         locals' = locals, environments' = environments, current_env' = current_env,
         callables' = callables, program' = program,
         ValuesOk(environments, callables, values', val')
  PROVE  IInv'
<1>1. Leads(visits, environments, tasks \o Rest, q, Finish) /\ IsSeq(tasks \o Rest)
  BY LeadsJoin DEF Facing
<1>2. todo' = tasks \o Rest
  BY DEF Continue
<1>3. /\ FollowRules(visits, locals) /\ CallablesOk(visits, environments, callables, program)
  BY DEF Facing
<1>4. Standing(visits, q)'
  BY <1>1, <1>2, <1>3 DEF Standing
<1>5. EnvironmentsOk(environments) /\ program \in Nat
  BY DEF IInv
<1> QED
  BY <1>1, <1>2, <1>4, <1>5 DEF IInv

(* No task is put in front. *)
LEMMA ContinuesWithout ==
  ASSUME IInv, NEW visits, NEW p, NEW r, Facing(visits, p, r),
         r.env = current_env, r.height = Len(values'), HasNames(environments, r.scopes, r.env),
         Continue(<<>>),
         locals' = locals, environments' = environments, current_env' = current_env,
         callables' = callables, program' = program,
         ValuesOk(environments, callables, values', val')
  PROVE  IInv'
<1>1. IsSeq(<<>>) /\ Leads(visits, environments, <<>>, r, r)
  BY EmptyFacts, LeadsNowhere
<1> QED
  BY <1>1, Continues

(* Behind the last statement of a program the globals are in force. *)
LEMMA AtFinish ==
  ASSUME NEW es, EnvironmentsOk(es)
  PROVE  HasNames(es, <<>>, Global)
<1>1. Len(es) \in Nat /\ Len(es) >= 1 /\ Global \in 1 .. Len(es) /\ Global \in 0 .. Len(es) /\ Global # 0
  BY SeqFacts DEF EnvironmentsOk, Global
<1>2. Outwards(es, Global) = <<Global>> \o Outwards(es, 0)
  BY <1>1, OutwardsStep DEF EnvironmentsOk
<1>3. Outwards(es, 0) = <<>>
  BY OutwardsNowhere
<1>4. <<Global>> \o <<>> = <<Global>> /\ Len(<<Global>>) = 1
  <2>1. <<Global>> \in Seq({Global})
    OBVIOUS
  <2> QED
    BY <2>1, ConcatEmptySeq
<1>5. IsSeq(<<>>) /\ Len(<<>>) = 0 /\ 1 .. 0 = {} /\ 0 + 1 = 1
  BY EmptyFacts
<1>6. Len(Outwards(es, Global)) = Len(<<>>) + 1
  BY <1>2, <1>3, <1>4, <1>5
<1> QED
  BY <1>1, <1>5, <1>6 DEF HasNames

(* A part up to the end, and its first element. *)
LEMMA SuffixFacts ==
  ASSUME NEW s, IsSeq(s), NEW i \in 1 .. Len(s)
  PROVE  SubSeq(s, i, Len(s)) = <<s[i]>> \o SubSeq(s, i + 1, Len(s))
<1> DEFINE m == Len(s)
           S == Range(s)
           u == SubSeq(s, i, m)
           rest == SubSeq(s, i + 1, m)
           first == <<s[i]>>
<1>1. s \in Seq(S)
  BY DEF IsSeq
<1>2. m \in Nat /\ i \in 1 .. m /\ i + 1 \in 1 .. m + 1 /\ s[i] \in S
  BY SeqFacts
<1>3. first \in Seq(S) /\ Len(first) = 1 /\ first[1] = s[i]
  <2> HIDE DEF S
  <2> QED
    BY <1>2
<1>4. /\ Len(u) = m - i + 1 /\ u \in Seq(S)
      /\ \A k \in 1 .. m - i + 1 : u[k] = s[i + k - 1]
  <2>1. m = Len(s) /\ u = SubSeq(s, i, m)
    OBVIOUS
  <2> HIDE DEF m, S, u
  <2>2. m \in i - 1 .. m /\ i <= m /\ i \in 1 .. m + 1
    BY <1>2
  <2> QED
    BY <1>1, <2>1, <2>2, SubSeqProperties
<1>5. /\ Len(rest) = m - i /\ rest \in Seq(S)
      /\ \A k \in 1 .. m - i : rest[k] = s[i + k]
  <2>1. m = Len(s) /\ rest = SubSeq(s, i + 1, m)
    OBVIOUS
  <2> HIDE DEF m, S, rest
  <2>2. i + 1 \in 1 .. m + 1 /\ m \in (i + 1) - 1 .. m
    BY <1>2
  <2>3. /\ SubSeq(s, i + 1, m) \in Seq(S)
        /\ Len(SubSeq(s, i + 1, m)) = IF i + 1 <= m THEN m - (i + 1) + 1 ELSE 0
        /\ \A k \in 1 .. m - (i + 1) + 1 : SubSeq(s, i + 1, m)[k] = s[(i + 1) + k - 1]
    BY <1>1, <2>1, <2>2, SubSeqProperties
  <2>4. /\ m - (i + 1) + 1 = m - i /\ (~(i + 1 <= m) => m - i = 0)
        /\ \A k \in 1 .. m - i : (i + 1) + k - 1 = i + k
    BY <1>2
  <2> QED
    BY <2>1, <2>3, <2>4
<1>6. SubSeq(s, i, Len(s)) = u /\ SubSeq(s, i + 1, Len(s)) = rest
  OBVIOUS
<1> HIDE DEF m, S, u, rest, first
<1>7. /\ first \o rest \in Seq(S)
      /\ Len(first \o rest) = 1 + (m - i)
      /\ \A k \in 1 .. 1 + (m - i) : (first \o rest)[k] = IF k <= 1 THEN first[k] ELSE rest[k - 1]
  <2>1. /\ first \o rest \in Seq(S)
        /\ Len(first \o rest) = Len(first) + Len(rest)
        /\ \A k \in 1 .. Len(first) + Len(rest) :
             (first \o rest)[k] = IF k <= Len(first) THEN first[k] ELSE rest[k - Len(first)]
    BY <1>3, <1>5, ConcatProperties
  <2> QED
    BY <1>3, <1>5, <2>1
<1>8. ASSUME NEW k \in 1 .. Len(u) PROVE u[k] = (first \o rest)[k]
  <2>1. k \in 1 .. 1 + (m - i) /\ k \in 1 .. m - i + 1
    BY <1>2, <1>4
  <2>2. CASE k = 1
    <3>1. i + k - 1 = i
      BY <1>2, <2>2
    <3> QED
      BY <1>3, <1>4, <1>7, <2>1, <2>2, <3>1
  <2>3. CASE k # 1
    <3>1. k - 1 \in 1 .. m - i /\ ~(k <= 1) /\ i + (k - 1) = i + k - 1
      BY <1>2, <2>1, <2>3
    <3> QED
      BY <1>4, <1>5, <1>7, <2>1, <3>1
  <2> QED
    BY <2>2, <2>3
<1>9. IsSeq(u) /\ IsSeq(first \o rest)
  BY <1>4, <1>7, SeqIsSeq
<1>10. Len(u) = Len(first \o rest)
  BY <1>2, <1>4, <1>7
<1>11. u = first \o rest
  BY <1>8, <1>9, <1>10, SameSeq
<1> QED
  BY <1>6, <1>11 DEF first

(* An exception leads to the end of the block, or of everything. *)
LEMMA ThrowOk ==
  ASSUME IInv, NEW message, Throw(message)
  PROVE  IInv'
<1>1. PICK visits, p : Standing(visits, p)
  BY DEF IInv
<1>2. PICK plan : /\ plan[1] = p /\ plan[Len(todo) + 1] = Finish
                  /\ IsPlan(visits, environments, todo, plan)
  BY <1>1 DEF Standing, Leads
<1> DEFINE i == Catches({"leave_block", "leave_call"})
<1>3. /\ IsSeq(todo) /\ Len(todo) \in Nat /\ EnvironmentsOk(environments) /\ program \in Nat
      /\ ValuesOk(environments, callables, values, val)
  BY SeqFacts DEF IInv
<1>4. \/ i = 0 /\ \A j \in 1 .. Len(todo) : todo[j].kind \notin Leaves
      \/ i \in 1 .. Len(todo) /\ todo[i].kind \in Leaves /\ \A j \in 1 .. i - 1 : todo[j].kind \notin Leaves
  BY <1>3, CatchesFacts DEF Leaves
<1>5. /\ todo' = IF i = 0 THEN <<>> ELSE SubSeq(todo, i, Len(todo))
      /\ values' = IF i = 0 THEN <<>> ELSE SubSeq(values, 1, todo[i].depth)
      /\ locals' = locals /\ environments' = environments /\ current_env' = current_env
      /\ callables' = callables /\ program' = program /\ val' = val
  BY DEF Throw, Unwind
<1> HIDE DEF i
<1>6. CASE i = 0
  <2>1. PICK n \in 1 .. Len(todo) + 1 : n = Len(todo) + 1 /\ n - 1 = Len(todo)
    BY <1>3
  <2>2. Stays(plan[1], plan[Len(todo) + 1])
    <3>1. \A j \in 1 .. n - 1 : todo[j].kind \notin Leaves
      BY <1>4, <1>6, <2>1
    <3>2. Stays(plan[1], plan[n])
      BY <1>2, <1>3, <3>1, StaysUntil
    <3> QED
      BY <2>1, <3>2
  <2>3. current_env = Global /\ Finish.height = 0 /\ Finish.env = Global /\ Finish.scopes = <<>>
    BY <1>1, <1>2, <2>2 DEF Stays, Standing, Finish, At
  <2>4. Leads(visits, environments, <<>>, Finish, Finish) /\ HasNames(environments, <<>>, Global)
    BY <1>3, AtFinish, LeadsNowhere
  <2>5. todo' = <<>> /\ values' = <<>>
    BY <1>5, <1>6
  <2>6. Standing(visits, Finish)'
    BY <1>1, <1>5, <2>3, <2>4, <2>5, EmptyFacts DEF Standing
  <2>7. ValuesOk(environments, callables, values', val)
    BY <1>3, <2>5, EmptyFacts DEF ValuesOk
  <2> QED
    BY <1>3, <1>5, <2>5, <2>6, <2>7, EmptyFacts DEF IInv
<1>7. CASE i # 0
  <2>1. i \in 1 .. Len(todo) /\ i \in 1 .. Len(todo) + 1
    BY <1>3, <1>4, <1>7
  <2>2. Stays(p, plan[i])
    BY <1>2, <1>3, <1>4, <1>7, <2>1, StaysUntil
  <2> DEFINE a == plan[i]
             b == plan[i + 1]
             task == todo[i]
             rest == SubSeq(todo, i + 1, Len(todo))
             new == At(p.env, a.floor, a.height, p.scopes, {}, a.in_function)
  <2>3. Goes(visits, environments, a, task, b) /\ task.kind \in Leaves
    BY <1>2, <1>4, <1>7, <2>1 DEF IsPlan
  <2>4. PointOk(a) /\ PointOk(b) /\ GoesLeave(environments, a, task, b)
    <3> HIDE DEF a, b, task
    <3> QED
      BY <2>3 DEF Goes, GoesVisit, GoesKeep, GoesApply, GoesDefine, Leaves, NodeKinds, Expressions, Statements_,
                  Declarations
  <2>5. Goes(visits, environments, new, task, b)
    <3> DEFINE n == new
    <3>1. /\ n.env = p.env /\ n.floor = a.floor /\ n.height = a.height /\ n.waiting = {}
          /\ n.in_function = a.in_function
          /\ n = At(n.env, n.floor, n.height, n.scopes, n.waiting, n.in_function)
      BY DEF At
    <3> HIDE DEF n, a, b, task
    <3>2. a.env = p.env /\ a.waiting = {}
      BY <2>2, <2>4 DEF Stays, GoesLeave, a
    <3>3. PointOk(n)
      BY <2>4, <3>1 DEF PointOk
    <3>4. GoesLeave(environments, n, task, b)
      BY <2>4, <3>1, <3>2 DEF GoesLeave
    <3>5. Goes(visits, environments, n, task, b)
      BY <2>4, <3>3, <3>4 DEF Goes
    <3> QED
      BY <3>5 DEF n, a
  <2>6. /\ IsSeq(rest) /\ Leads(visits, environments, rest, b, Finish)
    <3>1. i + 1 \in 1 .. Len(todo) + 1
      BY <1>3, <2>1
    <3> QED
      BY <1>2, <1>3, <3>1, LeadsFrom
  <2>7. todo' = <<task>> \o rest
    BY <1>3, <1>5, <1>7, <2>1, SuffixFacts
  <2>8. Leads(visits, environments, todo', new, Finish) /\ IsSeq(todo')
    <3> HIDE DEF new, rest, a, b, task
    <3>1. Leads(visits, environments, <<task>>, new, b) /\ IsSeq(<<task>>)
      BY <2>5, LeadsBy
    <3> QED
      BY <2>6, <2>7, <3>1, LeadsJoin
  <2>9. a.height = todo[i].depth /\ a.height \in 0 .. Len(values)
    <3>1. a.height = todo[i].depth /\ a.height = a.floor /\ a.floor = p.floor
      BY <2>2, <2>4 DEF GoesLeave, Stays
    <3>2. Len(values) \in Nat /\ p.height = Len(values)
      BY <1>1, <1>3, SeqFacts DEF Standing, ValuesOk
    <3>3. PointOk(p)
      <4>1. CASE 1 \in 1 .. Len(todo)
        BY <1>2, <4>1 DEF IsPlan, Goes
      <4> QED
        BY <2>1, <4>1, <1>3
    <3> QED
      BY <3>1, <3>2, <3>3 DEF PointOk
  <2>10. /\ values' = SubSeq(values, 1, a.height) /\ IsSeq(values') /\ Len(values') = a.height
         /\ \A k \in 1 .. a.height : values'[k] = values[k]
    <3>1. values' = SubSeq(values, 1, a.height)
      BY <1>5, <1>7, <2>9
    <3>2. IsSeq(values)
      BY <1>3 DEF ValuesOk
    <3> HIDE DEF a
    <3> QED
      BY <2>9, <3>1, <3>2, PrefixFacts
  <2>11. ValuesOk(environments, callables, values', val)
    <3>1. \A k \in 1 .. a.height : k \in 1 .. Len(values)
      <4>1. Len(values) \in Nat
        BY <1>3, SeqFacts DEF ValuesOk
      <4> HIDE DEF a
      <4> QED
        BY <2>9, <4>1
    <3> QED
      BY <1>3, <2>10, <3>1 DEF ValuesOk
  <2>12. PICK n : n = new
    OBVIOUS
  <2>13. Standing(visits, n)'
    <3>1. n.env = p.env /\ n.height = a.height /\ n.scopes = p.scopes
      BY <2>12 DEF At
    <3>2. Leads(visits, environments, todo', n, Finish)
      BY <2>8, <2>12
    <3>3. Len(values') = n.height
      BY <2>10, <3>1
    <3> HIDE DEF new, a, b, task, rest
    <3>4. /\ FollowRules(visits, locals) /\ CallablesOk(visits, environments, callables, program)
          /\ n.env = current_env /\ HasNames(environments, n.scopes, n.env)
      BY <1>1, <3>1 DEF Standing
    <3> QED
      BY <1>5, <3>2, <3>3, <3>4 DEF Standing
  <2> QED
    BY <1>3, <1>5, <2>8, <2>11, <2>13 DEF IInv
<1> QED
  BY <1>6, <1>7

(* What is known of a node that is visited, and of its parts. *)
LEMMA VisitedFacts ==
  ASSUME NEW visits, NEW known, FollowRules(visits, known), NEW p, NEW node, Visited(visits, p, node)
  PROVE  /\ WellBuilt(node)
         /\ Accepted(VisitOf(node, p.scopes, p.waiting, p.in_function), known)
         /\ Following(VisitOf(node, p.scopes, p.waiting, p.in_function)) \subseteq visits
<1> DEFINE v == VisitOf(node, p.scopes, p.waiting, p.in_function)
<1>1. v \in visits /\ v.node = node
  BY DEF Visited, VisitOf
<1> HIDE DEF v
<1>2. WellBuilt(v.node) /\ Accepted(v, known) /\ Following(v) \subseteq visits
  BY <1>1 DEF FollowRules
<1> QED
  BY <1>1, <1>2 DEF v

(* What a point consists of. *)
LEMMA SamePoint ==
  ASSUME NEW p, NEW q, PointOk(p), PointOk(q), Stays(p, q), q.height = p.height, q.waiting = p.waiting,
         q.scopes = p.scopes
  PROVE  q = p
BY DEF PointOk, Stays

(* The visit of a node that declares nothing leaves all as it is. *)
LEMMA VisitTask ==
  ASSUME NEW visits, NEW p, NEW r, Facing(visits, p, r), Task.kind \in Expressions \cup Statements_
  PROVE  /\ PointOk(p) /\ r = p
         /\ IF Task.kind = "Literal" THEN ~IsCallable(Task.value) ELSE Visited(visits, p, Task)
<1>1. Goes(visits, environments, p, Task, r)
  BY DEF Facing
<1>2. Task.kind \notin Declarations \cup {"keep", "apply"} \cup {"leave_block", "leave_call"}
  BY DEF Expressions, Statements_, Declarations
<1>3. GoesVisit(visits, p, Task, r) /\ PointOk(p) /\ PointOk(r)
  BY <1>1, <1>2 DEF Goes, GoesKeep, GoesApply, GoesDefine, GoesLeave
<1>4. /\ Stays(p, r) /\ r.height = p.height /\ r.waiting = p.waiting /\ r.scopes = p.scopes
      /\ IF Task.kind = "Literal" THEN ~IsCallable(Task.value) ELSE Visited(visits, p, Task)
  BY <1>2, <1>3 DEF GoesVisit
<1> QED
  BY <1>3, <1>4, SamePoint

(* What comes after the operands. *)
LEMMA ApplyTask ==
  ASSUME NEW visits, NEW p, NEW r, Facing(visits, p, r), Task.kind = "apply", Task.node.kind # "Var"
  PROVE  /\ PointOk(p) /\ PointOk(r) /\ Visited(visits, p, Task.node)
         /\ Stays(p, r) /\ r.height = p.height - Taken(Task.node) /\ r.waiting = p.waiting
         /\ r.scopes = p.scopes
         /\ Taken(Task.node) = 0 => r = p
<1>1. Goes(visits, environments, p, Task, r)
  BY DEF Facing
<1>2. GoesApply(visits, p, Task, r) /\ PointOk(p) /\ PointOk(r)
  BY <1>1 DEF Goes, GoesVisit, GoesKeep, GoesDefine, GoesLeave, NodeKinds, Expressions, Statements_, Declarations
<1>3. /\ Visited(visits, p, Task.node) /\ Stays(p, r) /\ r.height = p.height - Taken(Task.node)
      /\ r.waiting = p.waiting /\ r.scopes = p.scopes
  BY <1>2 DEF GoesApply
<1>4. ASSUME Taken(Task.node) = 0 PROVE r = p
  <2>1. r.height = p.height
    BY <1>2, <1>3, <1>4 DEF PointOk
  <2> QED
    BY <1>2, <1>3, <2>1, SamePoint
<1> QED
  BY <1>2, <1>3, <1>4

(* A sequence of one task. *)
LEMMA OfOne ==
  ASSUME NEW a
  PROVE  IsSeq(<<a>>) /\ Len(<<a>>) = 1 /\ <<a>>[1] = a
<1>1. <<a>> \in Seq({a}) /\ Len(<<a>>) = 1 /\ <<a>>[1] = a
  OBVIOUS
<1> QED
  BY <1>1, SeqIsSeq

(* A sequence of two tasks. *)
LEMMA OfTwo ==
  ASSUME NEW a, NEW b
  PROVE  IsSeq(<<a, b>>) /\ <<a, b>> = <<a>> \o <<b>> /\ Len(<<a, b>>) = 2 /\ <<a, b>>[1] = a /\ <<a, b>>[2] = b
<1>1. <<a, b>> \in Seq({a, b}) /\ Len(<<a, b>>) = 2 /\ <<a, b>>[1] = a /\ <<a, b>>[2] = b
  OBVIOUS
<1>2. IsSeq(<<a, b>>)
  BY <1>1, SeqIsSeq
<1>3. <<a, b>> = <<a>> \o <<b>>
  <2> DEFINE S == {a, b}
             one == <<a>>
             two == <<b>>
             both == <<a, b>>
  <2>1. one \in Seq(S) /\ two \in Seq(S) /\ Len(one) = 1 /\ Len(two) = 1 /\ one[1] = a /\ two[1] = b
    OBVIOUS
  <2>2. IsSeq(both) /\ Len(both) = 2 /\ both[1] = a /\ both[2] = b
    BY <1>1, <1>2
  <2> HIDE DEF S, one, two, both
  <2>3. /\ one \o two \in Seq(S) /\ Len(one \o two) = Len(one) + Len(two)
        /\ \A i \in 1 .. Len(one) + Len(two) : (one \o two)[i] = IF i <= Len(one) THEN one[i] ELSE two[i - Len(one)]
    BY <2>1, ConcatProperties
  <2>4. IsSeq(one \o two)
    BY <2>3, SeqIsSeq
  <2>5. Len(both) = Len(one \o two) /\ \A i \in 1 .. Len(both) : both[i] = (one \o two)[i]
    <3>1. Len(one \o two) = 2
      BY <2>1, <2>3
    <3>2. (one \o two)[1] = a
      BY <2>1, <2>3
    <3>3. (one \o two)[2] = b
      BY <2>1, <2>3
    <3>4. \A i \in 1 .. 2 : i = 1 \/ i = 2
      OBVIOUS
    <3> QED
      BY <2>2, <3>1, <3>2, <3>3, <3>4
  <2>6. both = one \o two
    BY <2>2, <2>4, <2>5, SameSeq
  <2> QED
    BY <2>6 DEF both, one, two
<1> QED
  BY <1>1, <1>2, <1>3

(* A sequence of four tasks. *)
LEMMA OfFour ==
  ASSUME NEW a, NEW b, NEW c, NEW d
  PROVE  <<a, b, c, d>> = <<a, b>> \o <<c, d>>
OBVIOUS

(* Nodes that declare nothing, one after the other. *)
LEMMA AllGo ==
  ASSUME NEW visits, NEW known, FollowRules(visits, known), NEW es, NEW p, PointOk(p),
         NEW nodes, IsSeq(nodes),
         \A i \in 1 .. Len(nodes) : nodes[i].kind \in Expressions \cup Statements_ /\ Visited(visits, p, nodes[i])
  PROVE  Leads(visits, es, nodes, p, p)
<1> DEFINE plan == [i \in 1 .. Len(nodes) + 1 |-> p]
<1>1. Len(nodes) \in Nat
  BY SeqFacts
<1>2. plan[1] = p /\ plan[Len(nodes) + 1] = p /\ \A i \in 1 .. Len(nodes) : plan[i] = p /\ plan[i + 1] = p
  BY <1>1
<1> HIDE DEF plan
<1>3. \A i \in 1 .. Len(nodes) : Goes(visits, es, p, nodes[i], p)
  BY VisitGoes
<1>4. IsPlan(visits, es, nodes, plan)
  BY <1>2, <1>3 DEF IsPlan
<1> QED
  BY <1>2, <1>4 DEF Leads

(* The operator of a node uses up the values of its operands. *)
LEMMA ApplyGoes ==
  ASSUME NEW visits, NEW es, NEW p, PointOk(p), NEW node, node.kind # "Var", Visited(visits, p, node),
         NEW n \in Nat, n = Taken(node)
  PROVE  /\ PointOk(WithHeight(p, p.height + n))
         /\ Leads(visits, es, <<Apply(node)>>, WithHeight(p, p.height + n), p)
<1> DEFINE a == WithHeight(p, p.height + n)
<1>1. /\ a.env = p.env /\ a.floor = p.floor /\ a.height = p.height + n /\ a.scopes = p.scopes
      /\ a.waiting = p.waiting /\ a.in_function = p.in_function
      /\ a = At(a.env, a.floor, a.height, a.scopes, a.waiting, a.in_function)
  BY DEF WithHeight, At
<1>2. Apply(node).kind = "apply" /\ Apply(node).node = node
  BY DEF Apply
<1> HIDE DEF a
<1>3. PointOk(a) /\ p.height = a.height - n
  BY <1>1 DEF PointOk
<1>4. GoesApply(visits, a, Apply(node), p)
  BY <1>1, <1>2, <1>3 DEF GoesApply, Stays, Visited
<1>5. Goes(visits, es, a, Apply(node), p)
  BY <1>3, <1>4 DEF Goes
<1> QED
  BY <1>3, <1>5, LeadsBy DEF a

(* An operator with one operand finds it in the last value. *)
LEMMA OperatorGoes ==
  ASSUME NEW visits, NEW es, NEW p, PointOk(p), NEW node, node.kind # "Var", Visited(visits, p, node),
         Taken(node) = 0
  PROVE  Leads(visits, es, <<Apply(node)>>, p, p)
<1>1. WithHeight(p, p.height + 0) = p
  <2>1. p.height + 0 = p.height
    BY DEF PointOk
  <2> QED
    BY <2>1 DEF PointOk, WithHeight
<1>2. Leads(visits, es, <<Apply(node)>>, WithHeight(p, p.height + 0), p)
  <2>1. PICK n \in Nat : n = 0
    OBVIOUS
  <2>2. Leads(visits, es, <<Apply(node)>>, WithHeight(p, p.height + n), p)
    BY <2>1, ApplyGoes
  <2> QED
    BY <2>1, <2>2
<1> QED
  BY <1>1, <1>2

-----------------------------------------------------------------------------
(* Expressions *)

(* A literal keeps the invariant. *)
LEMMA LiteralOk == IInv /\ VisitLiteral => IInv'
<1> SUFFICES ASSUME IInv, VisitLiteral PROVE IInv'
  OBVIOUS
<1>1. /\ todo # <<>> /\ Task.kind = "Literal" /\ val' = Task.value /\ Continue(<<>>) /\ values' = values
      /\ locals' = locals /\ environments' = environments /\ current_env' = current_env
      /\ callables' = callables /\ program' = program
  BY DEF VisitLiteral, Doing, Quiet
<1>2. PICK visits, p, r : Facing(visits, p, r)
  BY <1>1, FacingTask
<1>3. r = p /\ ~IsCallable(Task.value)
  <2>1. Task.kind \in Expressions \cup Statements_
    BY <1>1 DEF Expressions
  <2> QED
    BY <1>1, <1>2, <2>1, VisitTask
<1>4. ValuesOk(environments, callables, values', val')
  BY <1>1, <1>3 DEF IInv, ValuesOk, Sane
<1>5. r.env = current_env /\ r.height = Len(values') /\ HasNames(environments, r.scopes, r.env)
  BY <1>1, <1>2, <1>3 DEF Facing
<1> QED
  BY <1>1, <1>2, <1>4, <1>5, ContinuesWithout

(* What is the same in all the operations whose effect is on `val' and `values' only. *)
LEMMA EvaluationOk ==
  ASSUME IInv, NEW visits, NEW p, NEW r, Facing(visits, p, r), NEW tasks, IsSeq(tasks),
         Leads(visits, environments, tasks, p, r), Continue(tasks),
         values' = values, Sane(callables, val'),
         locals' = locals, environments' = environments, current_env' = current_env,
         callables' = callables, program' = program
  PROVE  IInv'
<1>1. ValuesOk(environments, callables, values', val')
  BY DEF IInv, ValuesOk
<1>2. p.env = current_env /\ p.height = Len(values') /\ HasNames(environments, p.scopes, p.env)
  BY DEF Facing
<1> QED
  BY <1>1, <1>2, Continues

(***************************************************************************)
(* The operands of a node are visited, and their values kept, in front of  *)
(* its operator.                                                           *)
(***************************************************************************)
LEMMA OperandsGo ==
  ASSUME NEW visits, NEW known, FollowRules(visits, known), NEW es, NEW p, PointOk(p), NEW node,
         node.kind \in {"Grouping", "Unary", "Assign", "Logical", "Binary", "Call", "Expression", "Print",
                        "If", "While"},
         Visited(visits, p, node)
  PROVE  IsSeq(Operands(node)) /\ Leads(visits, es, Operands(node), p, p)
<1> DEFINE v == VisitOf(node, p.scopes, p.waiting, p.in_function)
<1>0. /\ v.node = node /\ v.scopes = p.scopes /\ v.waiting = p.waiting /\ v.in_function = p.in_function
  BY DEF VisitOf
<1>1. WellBuilt(node) /\ Following(v) \subseteq visits
  BY VisitedFacts
<1> HIDE DEF v
<1>2. ASSUME NEW x, x.kind \in Expressions, Visited(visits, p, x)
      PROVE  Leads(visits, es, <<x>>, p, p) /\ IsSeq(<<x>>)
  BY <1>2, VisitGoes, LeadsBy
<1>3. ASSUME NEW x, x.kind \in Expressions, Visited(visits, p, x), Taken(node) = 0, node.kind # "Var"
      PROVE  Leads(visits, es, <<x, Apply(node)>>, p, p) /\ IsSeq(<<x, Apply(node)>>)
  <2>1. Leads(visits, es, <<Apply(node)>>, p, p)
    BY <1>3, OperatorGoes
  <2>2. Leads(visits, es, <<x>>, p, p) /\ IsSeq(<<x>>)
    BY <1>2, <1>3
  <2>3. IsSeq(<<Apply(node)>>) /\ IsSeq(<<x, Apply(node)>>) /\ <<x, Apply(node)>> = <<x>> \o <<Apply(node)>>
    BY OfOne, OfTwo
  <2> QED
    BY <2>1, <2>2, <2>3, LeadsJoin
<1>4. CASE node.kind \in {"Grouping", "Expression"}
  <2>1. node.expr.kind \in Expressions /\ Operands(node) = <<node.expr>>
    BY <1>1, <1>4 DEF WellBuilt, Operands
  <2>2. Visited(visits, p, node.expr)
    BY <1>0, <1>1, <1>4 DEF Following, Visited
  <2> QED
    BY <1>2, <2>1, <2>2
<1>5. CASE node.kind = "Print"
  <2>1. node.expr.kind \in Expressions /\ Operands(node) = <<node.expr, Apply(node)>> /\ Taken(node) = 0
    BY <1>1, <1>5 DEF WellBuilt, Operands, Taken
  <2>2. Visited(visits, p, node.expr)
    BY <1>0, <1>1, <1>5 DEF Following, Visited
  <2> QED
    BY <1>3, <1>5, <2>1, <2>2
<1>6. CASE node.kind = "Unary"
  <2>1. node.right.kind \in Expressions /\ Operands(node) = <<node.right, Apply(node)>> /\ Taken(node) = 0
    BY <1>1, <1>6 DEF WellBuilt, Operands, Taken
  <2>2. Visited(visits, p, node.right)
    BY <1>0, <1>1, <1>6 DEF Following, Visited
  <2> QED
    BY <1>3, <1>6, <2>1, <2>2
<1>7. CASE node.kind = "Assign"
  <2>1. node.value.kind \in Expressions /\ Operands(node) = <<node.value, Apply(node)>> /\ Taken(node) = 0
    BY <1>1, <1>7 DEF WellBuilt, Operands, Taken
  <2>2. Visited(visits, p, node.value)
    BY <1>0, <1>1, <1>7 DEF Following, Visited
  <2> QED
    BY <1>3, <1>7, <2>1, <2>2
<1>8. CASE node.kind = "Logical"
  <2>1. node.left.kind \in Expressions /\ Operands(node) = <<node.left, Apply(node)>> /\ Taken(node) = 0
    BY <1>1, <1>8 DEF WellBuilt, Operands, Taken
  <2>2. Visited(visits, p, node.left)
    BY <1>0, <1>1, <1>8 DEF Following, Visited
  <2> QED
    BY <1>3, <1>8, <2>1, <2>2
<1>9. CASE node.kind = "If"
  <2>1. node.condition.kind \in Expressions /\ Operands(node) = <<node.condition, Apply(node)>> /\ Taken(node) = 0
    BY <1>1, <1>9 DEF WellBuilt, Operands, Taken
  <2>2. Visited(visits, p, node.condition)
    BY <1>0, <1>1, <1>9 DEF Following, Visited
  <2> QED
    BY <1>3, <1>9, <2>1, <2>2
<1>10. CASE node.kind = "While"
  <2>1. node.condition.kind \in Expressions /\ Operands(node) = <<node.condition, Apply(node)>> /\ Taken(node) = 0
    BY <1>1, <1>10 DEF WellBuilt, Operands, Taken
  <2>2. Visited(visits, p, node.condition)
    BY <1>0, <1>1, <1>10 DEF Following, Visited
  <2> QED
    BY <1>3, <1>10, <2>1, <2>2
<1>11. CASE node.kind = "Binary"
  <2>1. /\ node.left.kind \in Expressions /\ node.right.kind \in Expressions /\ Taken(node) = 1
        /\ Operands(node) = <<node.left, Keep, node.right, Apply(node)>>
    BY <1>1, <1>11 DEF WellBuilt, Operands, Taken
  <2>2. Visited(visits, p, node.left) /\ Visited(visits, p, node.right)
    BY <1>0, <1>1, <1>11 DEF Following, Visited
  <2> DEFINE a == WithHeight(p, p.height + 1)
  <2>3. PointOk(a) /\ Leads(visits, es, <<Apply(node)>>, a, p)
    <3>1. 1 \in Nat
      OBVIOUS
    <3> QED
      BY <1>11, <2>1, <3>1, ApplyGoes
  <2>4. /\ a.env = p.env /\ a.floor = p.floor /\ a.height = p.height + 1 /\ a.scopes = p.scopes
        /\ a.waiting = p.waiting /\ a.in_function = p.in_function
    BY DEF WithHeight, At
  <2> HIDE DEF a
  <2>5. Visited(visits, a, node.right)
    BY <2>2, <2>4 DEF Visited
  <2>6. Leads(visits, es, <<node.right>>, a, a) /\ IsSeq(<<node.right>>)
    BY <2>1, <2>3, <2>5, VisitGoes, LeadsBy
  <2>7. Leads(visits, es, <<node.left>>, p, p) /\ IsSeq(<<node.left>>)
    BY <1>2, <2>1, <2>2
  <2>8. Leads(visits, es, <<Keep>>, p, a) /\ IsSeq(<<Keep>>)
    <3>1. GoesKeep(p, Keep, a)
      BY <2>4 DEF GoesKeep, Keep, Stays
    <3>2. Goes(visits, es, p, Keep, a)
      BY <2>3, <3>1 DEF Goes
    <3> QED
      BY <3>2, LeadsBy
  <2>9. /\ IsSeq(<<Apply(node)>>) /\ <<node.left, Keep>> = <<node.left>> \o <<Keep>>
        /\ <<node.right, Apply(node)>> = <<node.right>> \o <<Apply(node)>>
        /\ Operands(node) = <<node.left, Keep>> \o <<node.right, Apply(node)>>
    <3>1. IsSeq(<<Apply(node)>>)
      BY OfOne
    <3>2. /\ <<node.left, Keep>> = <<node.left>> \o <<Keep>>
          /\ <<node.right, Apply(node)>> = <<node.right>> \o <<Apply(node)>>
      BY OfTwo
    <3>3. <<node.left, Keep, node.right, Apply(node)>> = <<node.left, Keep>> \o <<node.right, Apply(node)>>
      BY OfFour
    <3> QED
      BY <2>1, <3>1, <3>2, <3>3
  <2>10. Leads(visits, es, <<node.left, Keep>>, p, a) /\ IsSeq(<<node.left, Keep>>)
    BY <2>7, <2>8, <2>9, LeadsJoin
  <2>11. Leads(visits, es, <<node.right, Apply(node)>>, a, p) /\ IsSeq(<<node.right, Apply(node)>>)
    BY <2>3, <2>6, <2>9, LeadsJoin
  <2> QED
    BY <2>9, <2>10, <2>11, LeadsJoin
<1>12. CASE node.kind = "Call"
  <2> DEFINE nodes == <<node.callee>> \o node.arguments
             n == Len(node.arguments) + 1
  <2>1. /\ node.callee.kind \in Expressions /\ IsSeq(node.arguments)
        /\ \A i \in 1 .. Len(node.arguments) : node.arguments[i].kind \in Expressions
        /\ Operands(node) = Kept(nodes) \o <<Apply(node)>> /\ Taken(node) = n
    <3>1. node.callee.kind \in Expressions /\ Each(node.arguments, Expressions)
      BY <1>1, <1>12 DEF WellBuilt
    <3>2. Operands(node) = Kept(nodes) \o <<Apply(node)>> /\ Taken(node) = n
      BY <1>12 DEF Operands, Taken
    <3>3. IsSeq(node.arguments)
      BY <3>1 DEF Each, IsSeq
    <3> QED
      BY <3>1, <3>2, <3>3, SeqFacts DEF Each
  <2>2. /\ Visited(visits, p, node.callee)
        /\ \A i \in 1 .. Len(node.arguments) : Visited(visits, p, node.arguments[i])
    <3>1. /\ VisitOf(node.callee, p.scopes, p.waiting, p.in_function) \in visits
          /\ \A x \in Range(node.arguments) : VisitOf(x, p.scopes, p.waiting, p.in_function) \in visits
      BY <1>0, <1>1, <1>12 DEF Following
    <3>2. \A i \in 1 .. Len(node.arguments) : node.arguments[i] \in Range(node.arguments)
      BY <2>1, SeqFacts
    <3> QED
      BY <3>1, <3>2 DEF Visited
  <2>3. /\ IsSeq(nodes) /\ Len(nodes) = n
        /\ \A i \in 1 .. Len(nodes) : nodes[i].kind \in Expressions /\ Visited(visits, p, nodes[i])
    <3> DEFINE args == node.arguments
               S == Range(args) \cup {node.callee}
    <3>1. <<node.callee>> \in Seq(S) /\ Len(<<node.callee>>) = 1 /\ <<node.callee>>[1] = node.callee
      OBVIOUS
    <3>2. args \in Seq(S) /\ Len(args) \in Nat
      BY <2>1, SeqMonotonic, SeqFacts DEF IsSeq
    <3>3. nodes = <<node.callee>> \o args
      OBVIOUS
    <3> HIDE DEF args, S, nodes
    <3>4. /\ nodes \in Seq(S) /\ Len(nodes) = 1 + Len(args)
          /\ \A i \in 1 .. 1 + Len(args) : nodes[i] = IF i <= 1 THEN <<node.callee>>[i] ELSE args[i - 1]
      BY <3>1, <3>2, <3>3, ConcatProperties
    <3>5. IsSeq(nodes)
      BY <3>4, SeqIsSeq
    <3>6. ASSUME NEW i \in 1 .. Len(nodes)
          PROVE  nodes[i].kind \in Expressions /\ Visited(visits, p, nodes[i])
      <4>1. CASE i = 1
        BY <2>1, <2>2, <3>1, <3>2, <3>4, <4>1
      <4>2. CASE i # 1
        <5>1. i - 1 \in 1 .. Len(args) /\ nodes[i] = args[i - 1]
          BY <3>2, <3>4, <4>2
        <5> QED
          BY <2>1, <2>2, <5>1 DEF args
      <4> QED
        BY <4>1, <4>2
    <3>7. Len(nodes) = n
      BY <3>2, <3>4 DEF args
    <3> QED
      BY <3>5, <3>6, <3>7
  <2> HIDE DEF nodes
  <2>4. n \in Nat
    BY <2>1, SeqFacts
  <2> HIDE DEF n
  <2>5. IsSeq(Kept(nodes)) /\ Leads(visits, es, Kept(nodes), p, WithHeight(p, p.height + n))
    BY <2>3, KeptGoes
  <2>6. Leads(visits, es, <<Apply(node)>>, WithHeight(p, p.height + n), p) /\ IsSeq(<<Apply(node)>>)
    BY <1>12, <2>1, <2>4, ApplyGoes, OfOne
  <2> QED
    BY <2>1, <2>5, <2>6, LeadsJoin
<1> QED
  BY <1>4, <1>5, <1>6, <1>7, <1>8, <1>9, <1>10, <1>11, <1>12

(* So does the beginning of a node with operands. *)
LEMMA BeginOk == IInv /\ Begin => IInv'
<1> SUFFICES ASSUME IInv, Begin PROVE IInv'
  OBVIOUS
<1>1. /\ todo # <<>>
      /\ Task.kind \in {"Grouping", "Unary", "Assign", "Logical", "Binary", "Call", "Expression", "Print",
                        "If", "While"}
      /\ Continue(Operands(Task)) /\ values' = values /\ val' = val
      /\ locals' = locals /\ environments' = environments /\ current_env' = current_env
      /\ callables' = callables /\ program' = program
  BY DEF Begin, Doing, Quiet
<1>2. PICK visits, p, r : Facing(visits, p, r)
  BY <1>1, FacingTask
<1>3. Task.kind \in Expressions \cup Statements_ /\ Task.kind # "Literal"
  BY <1>1 DEF Expressions, Statements_
<1>4. PointOk(p) /\ r = p /\ Visited(visits, p, Task)
  BY <1>2, <1>3, VisitTask
<1>5. IsSeq(Operands(Task)) /\ Leads(visits, environments, Operands(Task), p, r)
  BY <1>1, <1>2, <1>4, OperandsGo DEF Facing
<1>6. Sane(callables, val')
  BY <1>1 DEF IInv, ValuesOk
<1> QED
  BY <1>1, <1>2, <1>5, <1>6, EvaluationOk

(* A value is put aside until it is used. *)
LEMMA KeepValueOk == IInv /\ KeepValue => IInv'
<1> SUFFICES ASSUME IInv, KeepValue PROVE IInv'
  OBVIOUS
<1>1. /\ todo # <<>> /\ Task.kind = "keep" /\ val' = val /\ Continue(<<>>) /\ values' = Append(values, val)
      /\ locals' = locals /\ environments' = environments /\ current_env' = current_env
      /\ callables' = callables /\ program' = program
  BY DEF KeepValue, Doing, Quiet
<1>2. PICK visits, p, r : Facing(visits, p, r)
  BY <1>1, FacingTask
<1>3. GoesKeep(p, Task, r)
  BY <1>1, <1>2 DEF Facing, Goes, GoesVisit, GoesApply, GoesDefine, GoesLeave, NodeKinds, Expressions, Statements_,
                    Declarations
<1>4. IsSeq(values) /\ ValuesOk(environments, callables, values, val)
  BY DEF IInv, ValuesOk
<1>5. /\ IsSeq(values') /\ Len(values') = Len(values) + 1 /\ Len(values) \in Nat
      /\ \A i \in 1 .. Len(values) : values'[i] = values[i]
      /\ values'[Len(values) + 1] = val
  BY <1>1, <1>4, AppendFacts, SeqFacts
<1>6. \A i \in 1 .. Len(values') : Sane(callables, values'[i])
  <2> TAKE i \in 1 .. Len(values')
  <2>1. CASE i \in 1 .. Len(values)
    BY <1>4, <1>5, <2>1 DEF ValuesOk
  <2>2. CASE i = Len(values) + 1
    BY <1>4, <1>5, <2>2 DEF ValuesOk
  <2> QED
    BY <1>5, <2>1, <2>2
<1>7. ValuesOk(environments, callables, values', val')
  BY <1>1, <1>4, <1>5, <1>6 DEF ValuesOk
<1>8. r.env = current_env /\ r.height = Len(values') /\ HasNames(environments, r.scopes, r.env)
  BY <1>2, <1>3, <1>5 DEF Facing, GoesKeep, Stays
<1> QED
  BY <1>1, <1>2, <1>7, <1>8, ContinuesWithout

(***************************************************************************)
(* The distance of a use leads to an environment, and that has the name,   *)
(* unless the name waits for its value.                                    *)
(***************************************************************************)
LEMMA UseFacts ==
  ASSUME EnvironmentsOk(environments), NEW visits, FollowRules(visits, locals),
         NEW p, p.env = current_env, HasNames(environments, p.scopes, p.env),
         NEW node, node.kind \in {"Variable", "Assign"}, Visited(visits, p, node)
  PROVE  /\ ~Astray(node)
         /\ StartOf(node) \in 1 .. Len(environments)
         /\ IsLocal(node) => \/ node.name \in DOMAIN ValuesOf(StartOf(node))
                             \/ node.kind = "Assign" /\ locals[node.id] = 0 /\ node.name \in p.waiting
<1> DEFINE v == VisitOf(node, p.scopes, p.waiting, p.in_function)
           path == Outwards(environments, current_env)
           d == locals[node.id]
<1>1. /\ v.node = node /\ v.scopes = p.scopes /\ v.waiting = p.waiting
  BY DEF VisitOf
<1>2. Accepted(v, locals)
  BY VisitedFacts
<1> HIDE DEF v
<1>3. DistanceFound(v, locals) /\ (node.kind = "Variable" => node.name \notin p.waiting)
  BY <1>1, <1>2 DEF Accepted
<1>4. /\ path \in Seq(1 .. Len(environments)) /\ Len(path) = Len(p.scopes) + 1
      /\ Len(p.scopes) \in Nat
      /\ \A k \in 1 .. Len(p.scopes) : p.scopes[k] \subseteq DOMAIN environments[path[k]].values
  <2>1. current_env \in 1 .. Len(environments)
    BY DEF HasNames
  <2> QED
    BY <2>1, OutwardsFacts, SeqFacts DEF HasNames
<1>5. CASE ~IsLocal(node)
  <2>1. StartOf(node) = Global /\ Global \in 1 .. Len(environments)
    BY <1>5, SeqFacts DEF StartOf, EnvironmentsOk, Global
  <2> QED
    BY <1>5, <2>1 DEF Astray
<1>6. CASE IsLocal(node)
  <2>1. d \in 0 .. Len(p.scopes) - 1 /\ node.name \in NamesOf(v, d + 1)
    BY <1>1, <1>3, <1>6 DEF DistanceFound, IsLocal
  <2>2. StartOf(node) = path[d + 1]
    BY <1>6 DEF StartOf
  <2> HIDE DEF d, path
  <2>3. d + 1 \in 1 .. Len(p.scopes) /\ d + 1 \in 1 .. Len(path) /\ ~(d >= Len(path))
    BY <1>4, <2>1
  <2>4. ~Astray(node)
    BY <2>3 DEF Astray, d, path
  <2>5. StartOf(node) \in 1 .. Len(environments)
    BY <1>4, <2>2, <2>3
  <2>6. CASE node.name \in p.scopes[d + 1]
    <3>1. node.name \in DOMAIN ValuesOf(StartOf(node))
      BY <1>4, <2>2, <2>3, <2>6 DEF ValuesOf
    <3> QED
      BY <2>4, <2>5, <3>1
  <2>7. CASE node.name \notin p.scopes[d + 1]
    <3>1. d + 1 = 1 /\ node.name \in p.waiting
      BY <1>1, <2>1, <2>7 DEF NamesOf
    <3>2. d = 0
      BY <2>1, <3>1
    <3> QED
      BY <1>3, <2>4, <2>5, <3>1, <3>2 DEF d
  <2> QED
    BY <2>6, <2>7
<1> QED
  BY <1>5, <1>6

(* A variable is looked up where its distance leads to. *)
LEMMA VariableOk == IInv /\ VisitVariable => IInv'
<1> SUFFICES ASSUME IInv, VisitVariable PROVE IInv'
  OBVIOUS
<1> DEFINE holder == Holder(StartOf(Task), Task.name)
<1>1. /\ todo # <<>> /\ Task.kind = "Variable"
      /\ IF holder = 0 THEN Throw("undefined variable")
         ELSE /\ val' = ValuesOf(holder)[Task.name] /\ Continue(<<>>) /\ values' = values
              /\ locals' = locals /\ environments' = environments /\ current_env' = current_env
              /\ callables' = callables /\ program' = program
  BY DEF VisitVariable, Doing, Quiet
<1>2. PICK visits, p, r : Facing(visits, p, r)
  BY <1>1, FacingTask
<1>3. r = p /\ Visited(visits, p, Task)
  <2>1. Task.kind \in Expressions \cup Statements_
    BY <1>1 DEF Expressions
  <2> QED
    BY <1>1, <1>2, <2>1, VisitTask
<1>4. EnvironmentsOk(environments) /\ StartOf(Task) \in 1 .. Len(environments)
  <2>1. EnvironmentsOk(environments)
    BY DEF IInv
  <2>2. /\ FollowRules(visits, locals) /\ p.env = current_env /\ HasNames(environments, p.scopes, p.env)
        /\ Task.kind \in {"Variable", "Assign"}
    BY <1>1, <1>2 DEF Facing
  <2>3. Visited(visits, p, Task)
    BY <1>3
  <2> HIDE DEF holder
  <2> QED
    BY <2>1, <2>2, <2>3, UseFacts
<1>5. CASE holder = 0
  BY <1>1, <1>5, ThrowOk
<1>6. CASE holder # 0
  <2>1. holder \in 1 .. Len(environments) /\ Task.name \in DOMAIN ValuesOf(holder)
    BY <1>4, <1>6, HolderFacts
  <2> HIDE DEF holder
  <2>2. Sane(callables, val')
    BY <1>1, <1>6, <2>1 DEF IInv, ValuesOk, ValuesOf
  <2>3. IsSeq(<<>>) /\ Leads(visits, environments, <<>>, p, r)
    BY <1>3, EmptyFacts, LeadsNowhere
  <2> QED
    BY <1>1, <1>2, <1>6, <2>2, <2>3, EvaluationOk
<1> QED
  BY <1>5, <1>6

(* The operator is applied to the last value. *)
LEMMA UnaryOk == IInv /\ VisitUnary => IInv'
<1> SUFFICES ASSUME IInv, VisitUnary PROVE IInv'
  OBVIOUS
<1>1. todo # <<>> /\ Task.kind = "apply" /\ Task.node.kind = "Unary"
  BY DEF VisitUnary, Applying, Doing
<1>2. CASE Task.node.operator = "MINUS" /\ ~IsNum(val)
  <2>1. Throw("operand must be a number")
    BY <1>2 DEF VisitUnary
  <2> QED
    BY <2>1, ThrowOk
<1>3. CASE ~(Task.node.operator = "MINUS" /\ ~IsNum(val))
  <2>1. /\ val' = IF Task.node.operator = "MINUS" THEN Num(-val.num) ELSE Bool(~IsTruthy(val))
        /\ Continue(<<>>) /\ values' = values
        /\ locals' = locals /\ environments' = environments /\ current_env' = current_env
        /\ callables' = callables /\ program' = program
    BY <1>3 DEF VisitUnary, Quiet
  <2>2. PICK visits, p, r : Facing(visits, p, r)
    BY <1>1, FacingTask
  <2>3. r = p
    BY <1>1, <2>2, ApplyTask DEF Taken
  <2>4. ~IsCallable(val')
    BY <2>1 DEF IsCallable, Num, Bool
  <2>5. IsSeq(<<>>) /\ Leads(visits, environments, <<>>, p, r)
    BY <2>3, EmptyFacts, LeadsNowhere
  <2> QED
    BY <2>1, <2>2, <2>4, <2>5, EvaluationOk DEF Sane
<1> QED
  BY <1>2, <1>3

(* The last of the values is used up. *)
LEMMA FrontFacts ==
  ASSUME NEW s, IsSeq(s), Len(s) >= 1
  PROVE  /\ IsSeq(Front(s)) /\ Len(Front(s)) = Len(s) - 1
         /\ \A i \in 1 .. Len(s) - 1 : Front(s)[i] = s[i]
<1>1. Front(s) = SubSeq(s, 1, Len(s) - 1)
  BY DEF Front
<1>2. Len(s) - 1 \in 0 .. Len(s)
  BY SeqFacts
<1> QED
  BY <1>1, <1>2, PrefixFacts

(* No operator makes a function. *)
LEMMA ResultFacts ==
  ASSUME NEW operator \in BinaryOperators, NEW lhs, NEW rhs
  PROVE  ~IsCallable(Result(operator, lhs, rhs))
<1>1. /\ \A b : ~IsCallable(Bool(b))
      /\ \A n : ~IsCallable(Num(n))
      /\ \A s : ~IsCallable(Str(s))
  BY DEF IsCallable, Bool, Num, Str
<1>2. \/ \E b : Result(operator, lhs, rhs) = Bool(b)
      \/ \E n : Result(operator, lhs, rhs) = Num(n)
      \/ \E s : Result(operator, lhs, rhs) = Str(s)
  <2>1. CASE operator = "EQUAL_EQUAL"
    BY <2>1 DEF Result
  <2>2. CASE operator = "BANG_EQUAL"
    BY <2>2 DEF Result
  <2>3. CASE operator = "GREATER"
    BY <2>3 DEF Result
  <2>4. CASE operator = "GREATER_EQUAL"
    BY <2>4 DEF Result
  <2>5. CASE operator = "LESS"
    BY <2>5 DEF Result
  <2>6. CASE operator = "LESS_EQUAL"
    BY <2>6 DEF Result
  <2>7. CASE operator = "MINUS"
    BY <2>7 DEF Result
  <2>8. CASE operator = "STAR"
    BY <2>8 DEF Result
  <2>9. CASE operator = "SLASH"
    BY <2>9 DEF Result
  <2>10. CASE operator = "PLUS"
    BY <2>10 DEF Result
  <2> QED
    BY <2>1, <2>2, <2>3, <2>4, <2>5, <2>6, <2>7, <2>8, <2>9, <2>10 DEF BinaryOperators
<1> QED
  BY <1>1, <1>2

(* The n last values are used up. *)
LEMMA ValuesUsed ==
  ASSUME IInv, NEW visits, NEW p, NEW r, Facing(visits, p, r), PointOk(r), Stays(p, r), r.scopes = p.scopes,
         NEW n \in Nat, r.height = p.height - n, IsSeq(values'), Len(values') = Len(values) - n,
         \A i \in 1 .. Len(values) - n : values'[i] = values[i],
         Continue(<<>>), Sane(callables, val'),
         locals' = locals, environments' = environments, current_env' = current_env,
         callables' = callables, program' = program
  PROVE  IInv'
<1>1. ValuesOk(environments, callables, values, val) /\ Len(values) \in Nat
  BY SeqFacts DEF IInv, ValuesOk
<1>2. \A i \in 1 .. Len(values) - n : i \in 1 .. Len(values)
  BY <1>1
<1>3. ValuesOk(environments, callables, values', val')
  BY <1>1, <1>2 DEF ValuesOk
<1>4. r.env = current_env /\ r.height = Len(values') /\ HasNames(environments, r.scopes, r.env)
  BY DEF Facing, Stays
<1> QED
  BY <1>3, <1>4, ContinuesWithout

(* The operator is applied to the last two values. *)
LEMMA BinaryOk == IInv /\ VisitBinary => IInv'
<1> SUFFICES ASSUME IInv, VisitBinary PROVE IInv'
  OBVIOUS
<1>1. todo # <<>> /\ Task.kind = "apply" /\ Task.node.kind = "Binary"
  BY DEF VisitBinary, Applying, Doing
<1>2. CASE ~Operable(Task.node.operator, Last(values), val)
  <2>1. Throw("operands must be numbers")
    BY <1>2 DEF VisitBinary
  <2> QED
    BY <2>1, ThrowOk
<1>3. CASE Operable(Task.node.operator, Last(values), val)
  <2>1. /\ val' = Result(Task.node.operator, Last(values), val) /\ values' = Front(values)
        /\ Continue(<<>>)
        /\ locals' = locals /\ environments' = environments /\ current_env' = current_env
        /\ callables' = callables /\ program' = program
    BY <1>3 DEF VisitBinary, Quiet
  <2>2. PICK visits, p, r : Facing(visits, p, r)
    BY <1>1, FacingTask
  <2>3. /\ PointOk(p) /\ PointOk(r) /\ Visited(visits, p, Task.node) /\ Stays(p, r) /\ r.height = p.height - 1
        /\ r.scopes = p.scopes
    BY <1>1, <2>2, ApplyTask DEF Taken
  <2>4. WellBuilt(Task.node)
    BY <2>2, <2>3, VisitedFacts DEF Facing
  <2>5. Task.node.operator \in BinaryOperators
    BY <1>1, <2>4 DEF WellBuilt
  <2>6. Sane(callables, val')
    BY <2>1, <2>5, ResultFacts DEF Sane
  <2>7. IsSeq(values) /\ Len(values) \in Nat /\ p.height = Len(values) /\ Len(values) >= 1
    <3>1. IsSeq(values) /\ Len(values) \in Nat /\ p.height = Len(values)
      BY <2>2, SeqFacts DEF IInv, ValuesOk, Facing
    <3> QED
      BY <2>3, <3>1 DEF PointOk
  <2>8. IsSeq(values') /\ Len(values') = Len(values) - 1 /\ \A i \in 1 .. Len(values) - 1 : values'[i] = values[i]
    BY <2>1, <2>7, FrontFacts
  <2>9. 1 \in Nat
    OBVIOUS
  <2> QED
    BY <2>1, <2>2, <2>3, <2>6, <2>8, <2>9, ValuesUsed
<1> QED
  BY <1>2, <1>3

(* The right operand is visited, or not. *)
LEMMA LogicalOk == IInv /\ VisitLogical => IInv'
<1> SUFFICES ASSUME IInv, VisitLogical PROVE IInv'
  OBVIOUS
<1> DEFINE tasks == IF IsTruthy(val) = (Task.node.operator = "OR") THEN <<>> ELSE <<Task.node.right>>
<1>1. /\ todo # <<>> /\ Task.kind = "apply" /\ Task.node.kind = "Logical"
      /\ Continue(tasks) /\ values' = values /\ val' = val
      /\ locals' = locals /\ environments' = environments /\ current_env' = current_env
      /\ callables' = callables /\ program' = program
  BY DEF VisitLogical, Applying, Doing, Quiet
<1>2. PICK visits, p, r : Facing(visits, p, r)
  BY <1>1, FacingTask
<1>3. r = p /\ PointOk(p) /\ Visited(visits, p, Task.node)
  BY <1>1, <1>2, ApplyTask DEF Taken
<1> DEFINE v == VisitOf(Task.node, p.scopes, p.waiting, p.in_function)
<1>4. FollowRules(visits, locals) /\ WellBuilt(Task.node) /\ Following(v) \subseteq visits
  BY <1>2, <1>3, VisitedFacts DEF Facing
<1>5. Visited(visits, p, Task.node.right) /\ Task.node.right.kind \in Expressions
  BY <1>1, <1>4 DEF Following, Visited, WellBuilt, VisitOf
<1>6. IsSeq(<<>>) /\ Leads(visits, environments, <<>>, p, p)
  BY EmptyFacts, LeadsNowhere
<1>7. IsSeq(<<Task.node.right>>) /\ Leads(visits, environments, <<Task.node.right>>, p, p)
  BY <1>3, <1>4, <1>5, VisitGoes, LeadsBy
<1>8. IsSeq(tasks) /\ Leads(visits, environments, tasks, p, r)
  BY <1>3, <1>6, <1>7
<1>9. Sane(callables, val')
  BY <1>1 DEF IInv, ValuesOk
<1> HIDE DEF tasks
<1> QED
  BY <1>1, <1>2, <1>8, <1>9, EvaluationOk

(* A value is printed. *)
LEMMA PrintOk == IInv /\ VisitPrint => IInv'
<1> SUFFICES ASSUME IInv, VisitPrint PROVE IInv'
  OBVIOUS
<1>1. /\ todo # <<>> /\ Task.kind = "apply" /\ Task.node.kind = "Print"
      /\ Continue(<<>>) /\ values' = values /\ val' = val
      /\ locals' = locals /\ environments' = environments /\ current_env' = current_env
      /\ callables' = callables /\ program' = program
  BY DEF VisitPrint, Applying, Doing
<1>2. PICK visits, p, r : Facing(visits, p, r)
  BY <1>1, FacingTask
<1>3. r = p
  BY <1>1, <1>2, ApplyTask DEF Taken
<1>4. IsSeq(<<>>) /\ Leads(visits, environments, <<>>, p, r)
  BY <1>3, EmptyFacts, LeadsNowhere
<1>5. Sane(callables, val')
  BY <1>1 DEF IInv, ValuesOk
<1> QED
  BY <1>1, <1>2, <1>4, <1>5, EvaluationOk

(* One of the branches is visited, or none. *)
LEMMA IfOk == IInv /\ VisitIf => IInv'
<1> SUFFICES ASSUME IInv, VisitIf PROVE IInv'
  OBVIOUS
<1> DEFINE node == Task.node
           tasks == IF IsTruthy(val) THEN <<node.then>> ELSE node.else
<1>1. /\ todo # <<>> /\ Task.kind = "apply" /\ Task.node.kind = "If"
      /\ Continue(tasks) /\ values' = values /\ val' = val
      /\ locals' = locals /\ environments' = environments /\ current_env' = current_env
      /\ callables' = callables /\ program' = program
  BY DEF VisitIf, Applying, Doing, Quiet
<1>2. PICK visits, p, r : Facing(visits, p, r)
  BY <1>1, FacingTask
<1>3. r = p /\ PointOk(p) /\ Visited(visits, p, node)
  BY <1>1, <1>2, ApplyTask DEF Taken
<1> DEFINE v == VisitOf(node, p.scopes, p.waiting, p.in_function)
<1>4. FollowRules(visits, locals) /\ WellBuilt(node) /\ Following(v) \subseteq visits
  BY <1>2, <1>3, VisitedFacts DEF Facing
<1>5. /\ Visited(visits, p, node.then) /\ node.then.kind \in Statements_
      /\ Each(node.else, Statements_) /\ \A x \in Range(node.else) : Visited(visits, p, x)
  BY <1>1, <1>4 DEF Following, Visited, WellBuilt, VisitOf
<1>6. IsSeq(node.else) /\ \A i \in 1 .. Len(node.else) : node.else[i].kind \in Statements_ /\ node.else[i] \in Range(node.else)
  BY <1>5, SeqFacts DEF Each, IsSeq
<1> HIDE DEF node
<1>7. IsSeq(<<node.then>>) /\ Leads(visits, environments, <<node.then>>, p, p)
  BY <1>3, <1>4, <1>5, VisitGoes, LeadsBy
<1>8. Leads(visits, environments, node.else, p, p)
  BY <1>3, <1>4, <1>5, <1>6, AllGo
<1>9. IsSeq(tasks) /\ Leads(visits, environments, tasks, p, r)
  BY <1>3, <1>6, <1>7, <1>8
<1>10. Sane(callables, val')
  BY <1>1 DEF IInv, ValuesOk
<1> HIDE DEF tasks
<1> QED
  BY <1>1, <1>2, <1>9, <1>10, EvaluationOk

(* The body is visited with the loop behind it, or the loop ends. *)
LEMMA WhileOk == IInv /\ VisitWhile => IInv'
<1> SUFFICES ASSUME IInv, VisitWhile PROVE IInv'
  OBVIOUS
<1> DEFINE node == Task.node
           tasks == IF IsTruthy(val) THEN <<node.body, node>> ELSE <<>>
<1>1. /\ todo # <<>> /\ Task.kind = "apply" /\ Task.node.kind = "While"
      /\ Continue(tasks) /\ values' = values /\ val' = val
      /\ locals' = locals /\ environments' = environments /\ current_env' = current_env
      /\ callables' = callables /\ program' = program
  BY DEF VisitWhile, Applying, Doing, Quiet
<1>2. PICK visits, p, r : Facing(visits, p, r)
  BY <1>1, FacingTask
<1>3. r = p /\ PointOk(p) /\ Visited(visits, p, node)
  BY <1>1, <1>2, ApplyTask DEF Taken
<1> DEFINE v == VisitOf(node, p.scopes, p.waiting, p.in_function)
<1>4. FollowRules(visits, locals) /\ WellBuilt(node) /\ Following(v) \subseteq visits
  BY <1>2, <1>3, VisitedFacts DEF Facing
<1>5. Visited(visits, p, node.body) /\ node.body.kind \in Statements_ /\ node.kind \in Statements_
  BY <1>1, <1>4 DEF Following, Visited, WellBuilt, VisitOf, Statements_
<1> HIDE DEF node
<1>6. Leads(visits, environments, <<node.body>>, p, p) /\ IsSeq(<<node.body>>)
  BY <1>3, <1>4, <1>5, VisitGoes, LeadsBy
<1>7. Leads(visits, environments, <<node>>, p, p) /\ IsSeq(<<node>>)
  BY <1>3, <1>4, <1>5, VisitGoes, LeadsBy
<1>8. Leads(visits, environments, <<node.body, node>>, p, p) /\ IsSeq(<<node.body, node>>)
  <2>1. <<node.body, node>> = <<node.body>> \o <<node>>
    BY OfTwo
  <2> QED
    BY <1>6, <1>7, <2>1, LeadsJoin
<1>9. IsSeq(<<>>) /\ Leads(visits, environments, <<>>, p, p)
  BY EmptyFacts, LeadsNowhere
<1>10. IsSeq(tasks) /\ Leads(visits, environments, tasks, p, r)
  BY <1>3, <1>8, <1>9
<1>11. Sane(callables, val')
  BY <1>1 DEF IInv, ValuesOk
<1> HIDE DEF tasks
<1> QED
  BY <1>1, <1>2, <1>10, <1>11, EvaluationOk

(* A call that fails is a runtime error, which leaves the innermost block. *)
LEMMA CallFailsOk == IInv /\ CallFails => IInv'
BY ThrowOk DEF CallFails

(* A native function returns at once. *)
LEMMA CallNativeOk == IInv /\ CallNative => IInv'
<1> SUFFICES ASSUME IInv, CallNative PROVE IInv'
  OBVIOUS
<1>1. /\ todo # <<>> /\ Task.kind = "apply" /\ Task.node.kind = "Call" /\ Len(Task.node.arguments) = 0
      /\ Continue(<<>>) /\ values' = Front(values) /\ val' = Clock
      /\ locals' = locals /\ environments' = environments /\ current_env' = current_env
      /\ callables' = callables /\ program' = program
  BY DEF CallNative, Applying, Doing, Quiet, Arity
<1>2. PICK visits, p, r : Facing(visits, p, r)
  BY <1>1, FacingTask
<1>3. Taken(Task.node) = 1
  BY <1>1 DEF Taken
<1>4. PointOk(p) /\ PointOk(r) /\ Stays(p, r) /\ r.height = p.height - 1 /\ r.scopes = p.scopes
  BY <1>1, <1>2, <1>3, ApplyTask
<1>5. IsSeq(values) /\ Len(values) >= 1
  <2>1. IsSeq(values) /\ Len(values) \in Nat /\ p.height = Len(values)
    BY <1>2, SeqFacts DEF IInv, ValuesOk, Facing
  <2> QED
    BY <1>4, <2>1 DEF PointOk
<1>6. IsSeq(values') /\ Len(values') = Len(values) - 1 /\ \A i \in 1 .. Len(values) - 1 : values'[i] = values[i]
  BY <1>1, <1>5, FrontFacts
<1>7. Sane(callables, val') /\ 1 \in Nat
  BY <1>1, ClockAssumption DEF Sane
<1> QED
  BY <1>1, <1>2, <1>4, <1>6, <1>7, ValuesUsed

(* What the interpreter has made is still there when there are more callables. *)
LEMMA CallablesLater ==
  ASSUME NEW visits, NEW es, EnvironmentsOk(es), NEW later, EnvironmentsOk(later), Grows(es, later),
         NEW cs, NEW prog, CallablesOk(visits, es, cs, prog)
  PROVE  CallablesOk(visits, later, cs, prog)
<1>1. ASSUME NEW c \in 2 .. Len(cs), cs[c].program = prog
      PROVE  \E v \in visits : /\ v.node = cs[c].declaration /\ v.node.kind = "Function"
                               /\ HasNames(later, WithNames(v.scopes, {v.node.name}), cs[c].env)
  <2>1. PICK v \in visits : /\ v.node = cs[c].declaration /\ v.node.kind = "Function"
                            /\ HasNames(es, WithNames(v.scopes, {v.node.name}), cs[c].env)
    BY <1>1 DEF CallablesOk
  <2>2. HasNames(later, WithNames(v.scopes, {v.node.name}), cs[c].env)
    BY <2>1, NamesLater
  <2> QED
    BY <2>1, <2>2
<1>2. /\ IsSeq(cs) /\ Len(cs) >= 1
      /\ \A c \in 2 .. Len(cs) : cs[c].program \in Nat /\ cs[c].program <= prog
  BY DEF CallablesOk
<1> QED
  BY <1>1, <1>2 DEF CallablesOk

(* Tasks are put in front, in an environment of their own. *)
LEMMA ContinuesIn ==
  ASSUME IInv, NEW visits, NEW p, NEW r, Facing(visits, p, r),
         NEW tasks, IsSeq(tasks), NEW q, Continue(tasks), locals' = locals, program' = program,
         EnvironmentsOk(environments'), Grows(environments, environments'),
         CallablesOk(visits, environments', callables', program),
         ValuesOk(environments', callables', values', val'),
         Leads(visits, environments', tasks, q, r),
         q.env = current_env', q.height = Len(values'), HasNames(environments', q.scopes, q.env)
  PROVE  IInv'
<1>1. EnvironmentsOk(environments) /\ program \in Nat
  BY DEF IInv
<1>2. IsSeq(Rest) /\ Leads(visits, environments, Rest, r, Finish) /\ FollowRules(visits, locals)
  BY DEF Facing
<1>3. PICK es : es = environments'
  OBVIOUS
<1>4. Leads(visits, es, Rest, r, Finish)
  BY <1>1, <1>2, <1>3, LeadsLater
<1>5. Leads(visits, es, tasks \o Rest, q, Finish) /\ IsSeq(tasks \o Rest)
  BY <1>2, <1>3, <1>4, LeadsJoin
<1>6. todo' = tasks \o Rest
  BY DEF Continue
<1>7. Standing(visits, q)'
  BY <1>2, <1>3, <1>5, <1>6 DEF Standing
<1> QED
  BY <1>1, <1>3, <1>5, <1>6, <1>7 DEF IInv

(* A variable gets a value: nothing else changes. *)
LEMMA ValuesHeld ==
  ASSUME NEW es, EnvironmentsOk(es), NEW env, env \in 1 .. Len(es), NEW name, NEW v, NEW cs, Sane(cs, v),
         NEW vs, NEW w, ValuesOk(es, cs, vs, w)
  PROVE  ValuesOk(Holds(es, env, name, v), cs, vs, w)
<1> DEFINE later == Holds(es, env, name, v)
<1>1. /\ Len(later) = Len(es)
      /\ \A e \in 1 .. Len(es) : e # env => later[e] = es[e]
      /\ DOMAIN later[env].values = DOMAIN es[env].values \cup {name}
      /\ \A n \in DOMAIN es[env].values \cup {name} :
           later[env].values[n] = IF n = name THEN v ELSE es[env].values[n]
  BY VariableDefined
<1> HIDE DEF later
<1>2. ASSUME NEW e \in 1 .. Len(es), NEW n \in DOMAIN later[e].values
      PROVE  Sane(cs, later[e].values[n])
  <2>1. CASE e # env
    BY <1>1, <1>2, <2>1 DEF ValuesOk
  <2>2. CASE e = env /\ n = name
    BY <1>1, <1>2, <2>2
  <2>3. CASE e = env /\ n # name
    <3>1. n \in DOMAIN es[env].values /\ later[e].values[n] = es[env].values[n]
      BY <1>1, <1>2, <2>3
    <3> QED
      BY <2>3, <3>1 DEF ValuesOk
  <2> QED
    BY <2>1, <2>2, <2>3
<1>3. ValuesOk(later, cs, vs, w)
  BY <1>1, <1>2 DEF ValuesOk
<1> QED
  BY <1>3 DEF later

(* An assignment to a variable that exists, at its distance. *)
LEMMA AssignOk == IInv /\ VisitAssign => IInv'
<1> SUFFICES ASSUME IInv, VisitAssign PROVE IInv'
  OBVIOUS
<1> DEFINE node == Task.node
           holder == Holder(StartOf(node), node.name)
<1>1. /\ todo # <<>> /\ Task.kind = "apply" /\ node.kind = "Assign"
      /\ IF holder = 0 THEN Throw("undefined variable")
         ELSE /\ environments' = Defined_(holder, node.name, val) /\ Continue(<<>>)
              /\ values' = values /\ val' = val /\ locals' = locals /\ current_env' = current_env
              /\ callables' = callables /\ program' = program
  BY DEF VisitAssign, Applying, Doing
<1>2. PICK visits, p, r : Facing(visits, p, r)
  BY <1>1, FacingTask
<1>3. r = p /\ Visited(visits, p, node)
  <2>1. Task.kind = "apply" /\ Task.node.kind # "Var" /\ Taken(Task.node) = 0
    BY <1>1 DEF Taken
  <2> QED
    BY <1>2, <2>1, ApplyTask
<1>4. /\ EnvironmentsOk(environments) /\ ValuesOk(environments, callables, values, val)
      /\ FollowRules(visits, locals) /\ CallablesOk(visits, environments, callables, program)
      /\ p.env = current_env /\ p.height = Len(values) /\ HasNames(environments, p.scopes, p.env)
  BY <1>2 DEF IInv, Facing
<1>5. CASE holder = 0
  BY <1>1, <1>5, ThrowOk
<1>6. CASE holder # 0
  <2>1. StartOf(node) \in 1 .. Len(environments)
    <3>1. node.kind \in {"Variable", "Assign"}
      BY <1>1
    <3> HIDE DEF node, holder
    <3> QED
      BY <1>3, <1>4, <3>1, UseFacts
  <2>2. holder \in 1 .. Len(environments)
    BY <1>4, <1>6, <2>1, HolderFacts
  <2> HIDE DEF holder, node
  <2> DEFINE later == Holds(environments, holder, node.name, val)
  <2>3. environments' = later
    BY <1>1, <1>4, <1>6, <2>2, HoldsIs DEF Defined_
  <2>4. EnvironmentsOk(later) /\ Grows(environments, later)
    BY <1>4, <2>2, VariableDefined
  <2>5. ValuesOk(later, callables, values, val)
    <3>1. Sane(callables, val)
      BY <1>4 DEF ValuesOk
    <3> QED
      BY <1>4, <2>2, <3>1, ValuesHeld
  <2> HIDE DEF later
  <2>6. CallablesOk(visits, later, callables, program) /\ HasNames(later, p.scopes, p.env)
    BY <1>4, <2>4, CallablesLater, NamesLater
  <2>7. IsSeq(<<>>) /\ Leads(visits, later, <<>>, p, r)
    BY <1>3, EmptyFacts, LeadsNowhere
  <2> QED
    BY <1>1, <1>2, <1>4, <1>6, <2>3, <2>4, <2>5, <2>6, <2>7, ContinuesIn
<1> QED
  BY <1>5, <1>6

(* A variable is defined in the environment at hand. *)
LEMMA DefineOk ==
  ASSUME IInv, NEW visits, NEW p, NEW r, Facing(visits, p, r), NEW name, NEW v,
         Stays(p, r), r.height = p.height, r.scopes = WithNames(p.scopes, {name}),
         Define_(name, v), Sane(callables', v), ValuesOk(environments, callables', values, val),
         CallablesOk(visits, Holds(environments, current_env, name, v), callables', program)
  PROVE  IInv'
<1> DEFINE later == Holds(environments, current_env, name, v)
<1>1. /\ EnvironmentsOk(environments) /\ p.env = current_env /\ p.height = Len(values)
      /\ HasNames(environments, p.scopes, current_env)
  BY DEF IInv, Facing
<1>2. current_env \in 1 .. Len(environments)
  BY <1>1 DEF HasNames
<1>3. /\ Continue(<<>>) /\ values' = values /\ val' = val /\ locals' = locals /\ current_env' = current_env
      /\ program' = program
      /\ environments' = Defined_(current_env, name, v)
  BY DEF Define_
<1>4. environments' = later
  BY <1>1, <1>2, <1>3, HoldsIs DEF Defined_
<1>5. EnvironmentsOk(later) /\ Grows(environments, later)
  BY <1>1, <1>2, VariableDefined
<1>6. HasNames(later, r.scopes, current_env)
  BY <1>1, NamesDefined
<1>7. PICK cs : cs = callables'
  OBVIOUS
<1>8. ValuesOk(later, cs, values, val)
  <2>1. Sane(cs, v) /\ ValuesOk(environments, cs, values, val)
    BY <1>7
  <2> QED
    BY <1>1, <1>2, <2>1, ValuesHeld
<1>9. CallablesOk(visits, later, cs, program)
  BY <1>7
<1> HIDE DEF later
<1>10. r.env = current_env
  BY <1>1 DEF Stays
<1>11. IsSeq(<<>>) /\ Leads(visits, later, <<>>, r, r)
  BY EmptyFacts, LeadsNowhere
<1> QED
  BY <1>1, <1>3, <1>4, <1>5, <1>6, <1>7, <1>8, <1>9, <1>10, <1>11, ContinuesIn

(* No callable is made. *)
LEMMA DefineVariableOk ==
  ASSUME IInv, NEW visits, NEW p, NEW r, Facing(visits, p, r), NEW name, NEW v,
         Stays(p, r), r.height = p.height, r.scopes = WithNames(p.scopes, {name}),
         Define_(name, v), Sane(callables, v), callables' = callables
  PROVE  IInv'
<1>1. /\ EnvironmentsOk(environments) /\ ValuesOk(environments, callables, values, val)
      /\ CallablesOk(visits, environments, callables, program)
      /\ current_env \in 1 .. Len(environments)
  BY DEF IInv, Facing, HasNames
<1>2. /\ EnvironmentsOk(Holds(environments, current_env, name, v))
      /\ Grows(environments, Holds(environments, current_env, name, v))
  BY <1>1, VariableDefined
<1>3. CallablesOk(visits, Holds(environments, current_env, name, v), callables, program)
  BY <1>1, <1>2, CallablesLater
<1> QED
  BY <1>1, <1>3, DefineOk

(* A declaration leads to a point where the scope has its name. *)
LEMMA DeclarationTask ==
  ASSUME NEW visits, NEW p, NEW r, Facing(visits, p, r), Task.kind \in Declarations
  PROVE  /\ PointOk(p) /\ PointOk(r) /\ Stays(p, r) /\ r.height = p.height
         /\ p.waiting = {} /\ r.waiting = {} /\ r.scopes = WithNames(p.scopes, {Task.name})
         /\ Visited(visits, p, Task)
<1>1. Goes(visits, environments, p, Task, r)
  BY DEF Facing
<1>2. GoesVisit(visits, p, Task, r) /\ PointOk(p) /\ PointOk(r)
  BY <1>1 DEF Goes, GoesKeep, GoesApply, GoesDefine, GoesLeave, Declarations
<1>3. Task.kind # "Literal"
  BY DEF Declarations
<1> QED
  BY <1>2, <1>3 DEF GoesVisit

(* A variable gets its value in the environment in force. *)
LEMMA VarOk == IInv /\ VisitVar => IInv'
<1> SUFFICES ASSUME IInv, VisitVar PROVE IInv'
  OBVIOUS
<1>1. ASSUME Doing({"Var"}), Task.initializer = <<>>, Define_(Task.name, Nil), callables' = callables
      PROVE  IInv'
  <2>1. todo # <<>> /\ Task.kind \in Declarations
    BY <1>1 DEF Doing, Declarations
  <2>2. PICK visits, p, r : Facing(visits, p, r)
    BY <2>1, FacingTask
  <2>3. Stays(p, r) /\ r.height = p.height /\ r.scopes = WithNames(p.scopes, {Task.name})
    BY <2>1, <2>2, DeclarationTask
  <2>4. Sane(callables, Nil)
    BY DEF Sane, IsCallable, Nil
  <2> QED
    BY <1>1, <2>2, <2>3, <2>4, DefineVariableOk
<1>2. ASSUME Doing({"Var"}), Task.initializer # <<>>, Continue(<<Task.initializer[1], Apply(Task)>>),
             values' = values, val' = val, Quiet
      PROVE  IInv'
  <2>1. todo # <<>> /\ Task.kind \in Declarations /\ Task.kind = "Var"
    BY <1>2 DEF Doing, Declarations
  <2>2. PICK visits, p, r : Facing(visits, p, r)
    BY <2>1, FacingTask
  <2>3. /\ PointOk(p) /\ PointOk(r) /\ Stays(p, r) /\ r.height = p.height
        /\ p.waiting = {} /\ r.waiting = {} /\ r.scopes = WithNames(p.scopes, {Task.name})
        /\ Visited(visits, p, Task) /\ FollowRules(visits, locals)
    BY <2>1, <2>2, DeclarationTask DEF Facing
  <2> DEFINE node == Task
             v == VisitOf(node, p.scopes, p.waiting, p.in_function)
             first == node.initializer[1]
             q == At(p.env, p.floor, p.height, p.scopes, Declared(p.scopes, node.name), p.in_function)
  <2>4. WellBuilt(node) /\ Following(v) \subseteq visits
    BY <2>3, VisitedFacts
  <2>5. Each(node.initializer, Expressions)
    BY <2>1, <2>4 DEF WellBuilt
  <2>6. first.kind \in Expressions /\ first \in Range(node.initializer)
    <3>1. IsSeq(node.initializer) /\ \A i \in DOMAIN node.initializer : node.initializer[i].kind \in Expressions
      BY <2>5 DEF Each, IsSeq
    <3>2. 1 \in DOMAIN node.initializer
      BY <1>2, <3>1, SeqFacts, EmptySeq DEF IsSeq
    <3> QED
      BY <3>1, <3>2, SeqFacts
  <2>7. VisitOf(first, p.scopes, Declared(p.scopes, node.name), p.in_function) \in visits
    <3>1. v.node = node /\ v.scopes = p.scopes /\ v.in_function = p.in_function
      BY DEF VisitOf
    <3> HIDE DEF v, first
    <3>2. Following(v) = {VisitOf(n, p.scopes, Declared(p.scopes, node.name), p.in_function) :
                            n \in Range(node.initializer)}
      BY <2>1, <3>1 DEF Following
    <3> QED
      BY <2>4, <2>6, <3>2
  <2>8. /\ q.env = p.env /\ q.floor = p.floor /\ q.height = p.height /\ q.scopes = p.scopes
        /\ q.waiting = Declared(p.scopes, node.name) /\ q.in_function = p.in_function
        /\ q = At(q.env, q.floor, q.height, q.scopes, q.waiting, q.in_function)
    BY DEF At
  <2> HIDE DEF q, first, v, node
  <2>9. PointOk(q)
    BY <2>3, <2>8 DEF PointOk
  <2>10. Leads(visits, environments, <<first>>, q, q) /\ IsSeq(<<first>>)
    <3>1. Visited(visits, q, first)
      BY <2>7, <2>8 DEF Visited
    <3> QED
      BY <2>3, <2>6, <2>9, <3>1, VisitGoes, LeadsBy
  <2>11. Leads(visits, environments, <<Apply(node)>>, q, r) /\ IsSeq(<<Apply(node)>>)
    <3>1. Apply(node).kind = "apply" /\ Apply(node).node = node
      BY DEF Apply
    <3>2. q.waiting \subseteq {node.name}
      BY <2>8 DEF Declared
    <3>3. GoesDefine(q, Apply(node), r)
      BY <2>1, <2>3, <2>8, <3>1, <3>2 DEF GoesDefine, Stays, node
    <3>4. Goes(visits, environments, q, Apply(node), r)
      BY <2>3, <2>9, <3>3 DEF Goes
    <3> QED
      BY <3>4, LeadsBy
  <2>12. IsSeq(<<first, Apply(node)>>) /\ Leads(visits, environments, <<first, Apply(node)>>, q, r)
    <3>1. <<first, Apply(node)>> = <<first>> \o <<Apply(node)>>
      BY OfTwo
    <3> QED
      BY <2>10, <2>11, <3>1, LeadsJoin
  <2>13. /\ q.env = current_env /\ q.height = Len(values') /\ HasNames(environments, q.scopes, q.env)
         /\ ValuesOk(environments, callables, values', val')
    BY <1>2, <2>2, <2>8 DEF IInv, Facing
  <2>14. /\ Continue(<<first, Apply(node)>>) /\ locals' = locals /\ environments' = environments
         /\ current_env' = current_env /\ callables' = callables /\ program' = program
    BY <1>2 DEF Quiet, first, node
  <2> QED
    BY <2>2, <2>12, <2>13, <2>14, Continues
<1>3. ASSUME Applying("Var"), Define_(Task.node.name, val), callables' = callables
      PROVE  IInv'
  <2>1. todo # <<>> /\ Task.kind = "apply" /\ Task.node.kind = "Var"
    BY <1>3 DEF Applying, Doing
  <2>2. PICK visits, p, r : Facing(visits, p, r)
    BY <2>1, FacingTask
  <2>3. GoesDefine(p, Task, r)
    BY <2>1, <2>2 DEF Facing, Goes, GoesVisit, GoesKeep, GoesApply, GoesLeave, NodeKinds, Expressions, Statements_,
                      Declarations
  <2>4. Stays(p, r) /\ r.height = p.height /\ r.scopes = WithNames(p.scopes, {Task.node.name})
    BY <2>3 DEF GoesDefine
  <2>5. Sane(callables, val)
    BY DEF IInv, ValuesOk
  <2> QED
    BY <1>3, <2>2, <2>4, <2>5, DefineVariableOk
<1> QED
  BY <1>1, <1>2, <1>3 DEF VisitVar

(* A callable more. *)
LEMMA SaneLater ==
  ASSUME NEW cs, IsSeq(cs), NEW c, NEW v, Sane(cs, v)
  PROVE  Sane(Append(cs, c), v)
<1>1. Len(Append(cs, c)) = Len(cs) + 1 /\ Len(cs) \in Nat
  BY AppendFacts, SeqFacts
<1>2. \A k \in 1 .. Len(cs) : k \in 1 .. Len(Append(cs, c))
  BY <1>1
<1> QED
  BY <1>2 DEF Sane

(* A function closes over the environment in force. *)
LEMMA FunctionOk == IInv /\ VisitFunction => IInv'
<1> SUFFICES ASSUME IInv, VisitFunction PROVE IInv'
  OBVIOUS
<1> DEFINE node == Task
           made == [name |-> node.name, declaration |-> node, env |-> current_env, program |-> program]
           new == Callable(Len(callables) + 1)
           more == Append(callables, made)
           later == Holds(environments, current_env, node.name, new)
<1>1. /\ todo # <<>> /\ Task.kind \in Declarations /\ Task.kind = "Function"
      /\ callables' = more /\ Define_(node.name, new)
  BY DEF VisitFunction, Doing, Declarations
<1>2. PICK visits, p, r : Facing(visits, p, r)
  BY <1>1, FacingTask
<1>3. /\ Stays(p, r) /\ r.height = p.height /\ r.scopes = WithNames(p.scopes, {node.name})
      /\ Visited(visits, p, node)
  BY <1>1, <1>2, DeclarationTask
<1>4. /\ EnvironmentsOk(environments) /\ ValuesOk(environments, callables, values, val) /\ program \in Nat
      /\ CallablesOk(visits, environments, callables, program)
      /\ p.env = current_env /\ HasNames(environments, p.scopes, current_env)
  BY <1>2 DEF IInv, Facing
<1>5. /\ made.declaration = node /\ made.env = current_env /\ made.program = program
  OBVIOUS
<1>6. node.kind = "Function"
  BY <1>1
<1> HIDE DEF made, node
<1>7. /\ IsSeq(callables) /\ Len(callables) \in Nat /\ Len(callables) >= 1
      /\ IsSeq(more) /\ Len(more) = Len(callables) + 1 /\ more[Len(callables) + 1] = made
      /\ \A c \in 1 .. Len(callables) : more[c] = callables[c]
  <2>1. IsSeq(callables) /\ Len(callables) >= 1
    BY <1>4 DEF CallablesOk
  <2> QED
    BY <2>1, SeqFacts, AppendFacts
<1>8. Sane(more, new)
  <2>1. Len(callables) + 1 \in 1 .. Len(more)
    BY <1>7
  <2> HIDE DEF more
  <2> QED
    BY <2>1 DEF Sane
<1>9. ValuesOk(environments, more, values, val)
  <2>1. \A v : Sane(callables, v) => Sane(more, v)
    BY <1>7, SaneLater
  <2> HIDE DEF more
  <2> QED
    BY <1>4, <2>1 DEF ValuesOk
<1>10. CallablesOk(visits, later, more, program)
  <2>1. CallablesOk(visits, later, callables, program)
    <3>1. current_env \in 1 .. Len(environments)
      BY <1>4 DEF HasNames
    <3>2. EnvironmentsOk(later) /\ Grows(environments, later)
      BY <1>4, <3>1, VariableDefined
    <3> QED
      BY <1>4, <3>2, CallablesLater
  <2>2. HasNames(later, WithNames(p.scopes, {node.name}), current_env)
    BY <1>4, NamesDefined
  <2>3. PICK v \in visits : v.node = node /\ v.scopes = p.scopes
    BY <1>3 DEF Visited, VisitOf
  <2> DEFINE Is(c) ==
               /\ more[c].program \in Nat /\ more[c].program <= program
               /\ more[c].program = program =>
                    \E w \in visits : /\ w.node = more[c].declaration /\ w.node.kind = "Function"
                                      /\ HasNames(later, WithNames(w.scopes, {w.node.name}), more[c].env)
  <2> HIDE DEF more, later, new
  <2>4. ASSUME NEW c \in 2 .. Len(callables) PROVE Is(c)
    <3>1. more[c] = callables[c]
      BY <1>7
    <3>2. /\ callables[c].program \in Nat /\ callables[c].program <= program
          /\ callables[c].program = program =>
               \E w \in visits : /\ w.node = callables[c].declaration /\ w.node.kind = "Function"
                                 /\ HasNames(later, WithNames(w.scopes, {w.node.name}), callables[c].env)
      BY <2>1 DEF CallablesOk
    <3> QED
      BY <3>1, <3>2
  <2>5. ASSUME NEW c, c = Len(callables) + 1 PROVE Is(c)
    <3>1. more[c] = made
      BY <1>7, <2>5
    <3>2. /\ v.node = made.declaration /\ v.node.kind = "Function"
          /\ HasNames(later, WithNames(v.scopes, {v.node.name}), made.env)
      BY <1>5, <1>6, <2>2, <2>3
    <3>3. made.program \in Nat /\ made.program <= program
      BY <1>4, <1>5
    <3> QED
      BY <3>1, <3>2, <3>3
  <2> HIDE DEF Is
  <2>6. \A c \in 2 .. Len(more) : Is(c)
    <3> TAKE c \in 2 .. Len(more)
    <3>1. c \in 2 .. Len(callables) \/ c = Len(callables) + 1
      BY <1>7
    <3> QED
      BY <2>4, <2>5, <3>1
  <2>7. IsSeq(more) /\ Len(more) >= 1
    BY <1>7
  <2> QED
    BY <2>6, <2>7 DEF CallablesOk, Is
<1> HIDE DEF more, later, new
<1> QED
  BY <1>1, <1>2, <1>3, <1>8, <1>9, <1>10, DefineOk DEF later

(***************************************************************************)
(* A new environment with values that are in order leaves all values in    *)
(* order.                                                                  *)
(***************************************************************************)
LEMMA ValuesWithin ==
  ASSUME NEW es, EnvironmentsOk(es), NEW env, env \in 1 .. Len(es), NEW vs, NEW cs,
         \A n \in DOMAIN vs : Sane(cs, vs[n]), NEW stack, NEW w, ValuesOk(es, cs, stack, w)
  PROVE  ValuesOk(Within(es, vs, env), cs, stack, w)
<1> DEFINE later == Within(es, vs, env)
<1>1. /\ Len(later) = Len(es) + 1 /\ later[Len(es) + 1] = [values |-> vs, enclosing |-> env]
      /\ \A e \in 1 .. Len(es) : later[e] = es[e]
      /\ Len(es) \in Nat
  BY EnvironmentAdded, SeqFacts DEF EnvironmentsOk
<1> HIDE DEF later
<1>2. ASSUME NEW e \in 1 .. Len(later), NEW n \in DOMAIN later[e].values
      PROVE  Sane(cs, later[e].values[n])
  <2>1. CASE e \in 1 .. Len(es)
    BY <1>1, <1>2, <2>1 DEF ValuesOk
  <2>2. CASE e = Len(es) + 1
    BY <1>1, <1>2, <2>2
  <2> QED
    BY <1>1, <2>1, <2>2
<1>3. ValuesOk(later, cs, stack, w)
  BY <1>2 DEF ValuesOk
<1> QED
  BY <1>3 DEF later

(* A block or a function body is begun, in a new environment within env. *)
LEMMA EnterOk ==
  ASSUME IInv, NEW visits, NEW p, NEW r, Facing(visits, p, r), PointOk(r), r.env = current_env,
         r.height = Len(values'), HasNames(environments, r.scopes, r.env),
         NEW env, NEW scopes, HasNames(environments, scopes, env),
         NEW vs, \A n \in DOMAIN vs : Sane(callables, vs[n]),
         NEW names, names \subseteq DOMAIN vs,
         NEW nodes, Each(nodes, Statements_ \cup Declarations),
         NEW in_function, InSequence(nodes, <<names>> \o scopes, in_function) \subseteq visits,
         NEW leave, leave.kind \in Leaves, leave.env = current_env, leave.depth = r.height,
         leave.kind = "leave_block" => env = current_env /\ r.in_function = in_function,
         Enter([values |-> vs, enclosing |-> env]), Continue(nodes \o <<leave>>),
         locals' = locals, callables' = callables, program' = program, 
         ValuesOk(environments, callables, values', val')
  PROVE  IInv'
<1> DEFINE later == Within(environments, vs, env)
           e == Len(environments) + 1
           inner == <<names>> \o scopes
           h == r.height
           q == At(e, h, h, inner, {}, in_function)
<1>1. /\ EnvironmentsOk(environments) /\ CallablesOk(visits, environments, callables, program)
      /\ FollowRules(visits, locals)
  BY DEF IInv, Facing
<1>2. /\ environments' = later /\ current_env' = e
  BY DEF Enter, Within
<1>3. env \in 1 .. Len(environments) /\ h \in Nat
  BY DEF HasNames, PointOk
<1>4. /\ EnvironmentsOk(later) /\ Grows(environments, later) /\ Len(later) = Len(environments) + 1
      /\ later[Len(environments) + 1] = [values |-> vs, enclosing |-> env]
  BY <1>1, <1>3, EnvironmentAdded
<1>5. HasNames(later, inner, e)
  BY <1>1, NamesInner
<1>6. ValuesOk(later, callables, values', val')
  <2>1. PICK stack, w : stack = values' /\ w = val'
    OBVIOUS
  <2>2. ValuesOk(later, callables, stack, w)
    BY <1>1, <1>3, <2>1, ValuesWithin
  <2> HIDE DEF later
  <2> QED
    BY <2>1, <2>2
<1>61. e \in 1 .. Len(later) /\ later[e].enclosing = env
  <2>1. Len(environments) \in Nat
    BY <1>1, SeqFacts DEF EnvironmentsOk
  <2> HIDE DEF later
  <2> QED
    BY <1>4, <2>1
<1> HIDE DEF later, e, inner
<1>7. CallablesOk(visits, later, callables, program) /\ HasNames(later, r.scopes, r.env)
  BY <1>1, <1>4, CallablesLater, NamesLater
<1>8. IsSeq(inner) /\ h \in 0 .. h /\ InSequence(nodes, inner, in_function) \subseteq visits
  BY <1>3, <1>5 DEF HasNames, inner
<1>9. PICK more : Leads(visits, later, nodes, q, At(e, h, h, WithNames(inner, more), {}, in_function))
  <2> HIDE DEF h
  <2> QED
    BY <1>1, <1>3, <1>8, SequenceGoes DEF q
<1> DEFINE b == At(e, h, h, WithNames(inner, more), {}, in_function)
<1>10. /\ b.env = e /\ b.floor = h /\ b.height = h /\ b.waiting = {} /\ b.in_function = in_function
       /\ b = At(b.env, b.floor, b.height, b.scopes, b.waiting, b.in_function)
       /\ q.env = e /\ q.height = h /\ q.scopes = inner
  BY DEF At
<1>11. Leads(visits, later, nodes, q, b)
  BY <1>9
<1> HIDE DEF b, q, h
<1>12. Goes(visits, later, b, leave, r)
  <2>1. PointOk(b)
    BY <1>3, <1>8, <1>10 DEF PointOk
  <2>2. GoesLeave(later, b, leave, r)
    BY <1>7, <1>10, <1>61 DEF GoesLeave, Leaves, h
  <2> QED
    BY <2>1, <2>2 DEF Goes
<1>13. IsSeq(nodes)
  BY DEF Each, IsSeq
<1>14. IsSeq(nodes \o <<leave>>) /\ Leads(visits, later, nodes \o <<leave>>, q, r)
  BY <1>11, <1>12, <1>13, LeadsBy, LeadsJoin
<1>15. q.env = current_env' /\ q.height = Len(values') /\ HasNames(later, q.scopes, q.env)
  BY <1>2, <1>5, <1>10 DEF h
<1>16. PICK es, cs : es = environments' /\ cs = callables'
  OBVIOUS
<1> QED
  BY <1>2, <1>4, <1>6, <1>7, <1>14, <1>15, ContinuesIn

(***************************************************************************)
(* A block begins with an environment of its own, and ends behind its      *)
(* statements.                                                             *)
(***************************************************************************)
LEMMA BlockOk == IInv /\ VisitBlock => IInv'
<1> SUFFICES ASSUME IInv, VisitBlock PROVE IInv'
  OBVIOUS
<1> DEFINE node == Task
           leave == Leave("leave_block")
<1>1. /\ todo # <<>> /\ Task.kind = "Block" /\ Task.kind \in Expressions \cup Statements_ /\ Task.kind # "Literal"
      /\ Enter([values |-> <<>>, enclosing |-> current_env]) /\ Continue(node.statements \o <<leave>>)
      /\ values' = values /\ val' = val /\ locals' = locals /\ callables' = callables /\ program' = program
  BY DEF VisitBlock, Doing, Statements_
<1>2. PICK visits, p, r : Facing(visits, p, r)
  BY <1>1, FacingTask
<1>3. PointOk(p) /\ r = p /\ Visited(visits, p, node)
  BY <1>1, <1>2, VisitTask
<1> DEFINE v == VisitOf(node, p.scopes, p.waiting, p.in_function)
<1>4. FollowRules(visits, locals) /\ WellBuilt(node) /\ Following(v) \subseteq visits
  BY <1>2, <1>3, VisitedFacts DEF Facing
<1>5. v.node = node /\ v.scopes = p.scopes /\ v.in_function = p.in_function
  BY DEF VisitOf
<1> HIDE DEF v
<1>6. /\ Each(node.statements, Statements_ \cup Declarations)
      /\ InSequence(node.statements, <<{}>> \o p.scopes, p.in_function) \subseteq visits
  BY <1>1, <1>4, <1>5 DEF WellBuilt, Following, ScopesOfBlock
<1>7. /\ r.env = current_env /\ r.height = Len(values') /\ HasNames(environments, p.scopes, current_env)
      /\ ValuesOk(environments, callables, values', val')
  BY <1>1, <1>2, <1>3 DEF IInv, Facing
<1>8. leave.kind = "leave_block" /\ leave.env = current_env /\ leave.depth = Len(values)
  BY DEF Leave
<1>9. leave.kind \in Leaves /\ leave.depth = r.height
  BY <1>1, <1>7, <1>8 DEF Leaves
<1>10. DOMAIN <<>> = {} /\ {} \subseteq DOMAIN <<>>
  OBVIOUS
<1>11. \A n \in DOMAIN <<>> : Sane(callables, <<>>[n])
  BY <1>10
<1> HIDE DEF leave, node
<1> QED
  BY <1>1, <1>2, <1>3, <1>6, <1>7, <1>8, <1>9, <1>10, <1>11, EnterOk

(* The end of a block restores the environment around it. *)
LEMMA LeaveOk == IInv /\ LeaveBlock => IInv'
<1> SUFFICES ASSUME IInv, LeaveBlock PROVE IInv'
  OBVIOUS
<1>1. /\ todo # <<>> /\ Task.kind \in Leaves /\ Continue(<<>>)
      /\ current_env' = Task.env /\ (val' = Nil \/ val' = val) /\ values' = values
      /\ locals' = locals /\ environments' = environments /\ callables' = callables /\ program' = program
  BY DEF LeaveBlock, Doing, Leaves
<1>2. PICK visits, p, r : Facing(visits, p, r)
  BY <1>1, FacingTask
<1>3. GoesLeave(environments, p, Task, r)
  BY <1>1, <1>2 DEF Facing, Goes, GoesVisit, GoesKeep, GoesApply, GoesDefine, NodeKinds, Expressions, Statements_,
                    Declarations, Leaves
<1>4. /\ EnvironmentsOk(environments) /\ ValuesOk(environments, callables, values, val)
      /\ CallablesOk(visits, environments, callables, program) /\ p.height = Len(values)
  BY <1>2 DEF IInv, Facing
<1>5. Grows(environments, environments)
  BY <1>4, SeqFacts DEF Grows, EnvironmentsOk
<1>6. Sane(callables, Nil)
  BY DEF Sane, IsCallable, Nil
<1>7. ValuesOk(environments, callables, values', val')
  BY <1>1, <1>4, <1>6 DEF ValuesOk
<1>8. r.env = current_env' /\ r.height = Len(values') /\ HasNames(environments, r.scopes, r.env)
  BY <1>1, <1>3, <1>4 DEF GoesLeave
<1>9. IsSeq(<<>>) /\ Leads(visits, environments, <<>>, r, r)
  BY EmptyFacts, LeadsNowhere
<1> QED
  BY <1>1, <1>2, <1>4, <1>5, <1>7, <1>8, <1>9, ContinuesIn

(* A return in a function finds a call that is under way. *)
LEMMA ReturnFacts ==
  ASSUME IInv, Applying("Return"), NEW visits, NEW p, Standing(visits, p),
         NEW plan, plan[1] = p, plan[Len(todo) + 1] = Finish, IsPlan(visits, environments, todo, plan)
  PROVE  LET call == Catches({"leave_call"})
         IN  /\ call \in 1 .. Len(todo)
             /\ PointOk(p) /\ GoesLeave(environments, plan[call], todo[call], plan[call + 1])
             /\ plan[call].floor <= p.floor
<1> DEFINE call == Catches({"leave_call"})
           node == Task.node
<1>1. IsSeq(todo) /\ Len(todo) \in Nat /\ todo # <<>> /\ Task = todo[1] /\ 1 \in 1 .. Len(todo)
  <2>1. IsSeq(todo) /\ todo # <<>>
    BY DEF IInv, Applying, Doing
  <2>2. Len(todo) \in Nat /\ Len(todo) # 0
    BY <2>1, SeqFacts, EmptySeq DEF IsSeq
  <2>3. Task = todo[1]
    BY DEF Task
  <2> QED
    BY <2>1, <2>2, <2>3
<1>2. Task.kind = "apply" /\ node.kind = "Return"
  BY DEF Applying, Doing
<1>3. PointOk(p) /\ GoesApply(visits, p, Task, plan[2])
  <2>1. Goes(visits, environments, p, Task, plan[2])
    BY <1>1 DEF IsPlan
  <2> QED
    BY <1>2, <2>1 DEF Goes, GoesVisit, GoesKeep, GoesDefine, GoesLeave, NodeKinds, Expressions, Statements_,
                      Declarations
<1>4. p.in_function
  <2>1. Visited(visits, p, node) /\ FollowRules(visits, locals)
    BY <1>3 DEF GoesApply, Standing
  <2> DEFINE v == VisitOf(node, p.scopes, p.waiting, p.in_function)
  <2>2. v.node = node /\ v.in_function = p.in_function
    BY DEF VisitOf
  <2>3. Accepted(v, locals)
    BY <2>1, VisitedFacts
  <2> HIDE DEF v, node
  <2> QED
    BY <1>2, <2>2, <2>3 DEF Accepted
<1>5. \/ call = 0 /\ \A i \in 1 .. Len(todo) : todo[i].kind \notin {"leave_call"}
      \/ /\ call \in 1 .. Len(todo) /\ todo[call].kind \in {"leave_call"}
         /\ \A j \in 1 .. call - 1 : todo[j].kind \notin {"leave_call"}
  BY <1>1, CatchesFacts
<1> HIDE DEF call, node
<1>6. call # 0
  <2> SUFFICES ASSUME call = 0 PROVE FALSE
    OBVIOUS
  <2>1. PICK n \in 1 .. Len(todo) + 1 : n = Len(todo) + 1 /\ n - 1 = Len(todo)
    BY <1>1
  <2>2. IsSeq(todo) /\ PointOk(plan[1]) /\ \A j \in 1 .. n - 1 : todo[j].kind # "leave_call"
    BY <1>1, <1>3, <1>5, <2>1
  <2>3. plan[n].in_function = plan[1].in_function
    BY <2>2, UntilCall
  <2>4. Finish.in_function = FALSE
    BY DEF Finish, At
  <2> QED
    BY <1>4, <2>1, <2>3, <2>4
<1>7. /\ call \in 1 .. Len(todo) /\ call \in 1 .. Len(todo) + 1 /\ todo[call].kind = "leave_call"
      /\ \A j \in 1 .. call - 1 : todo[j].kind # "leave_call"
  BY <1>1, <1>5, <1>6
<1>8. plan[call].floor <= p.floor
  <2>1. PICK n \in 1 .. Len(todo) + 1 : n = call
    BY <1>7
  <2>2. PointOk(plan[1]) /\ \A j \in 1 .. n - 1 : todo[j].kind # "leave_call"
    BY <1>3, <1>7, <2>1
  <2>3. plan[n].floor <= plan[1].floor
    BY <1>1, <2>1, <2>2, UntilCall
  <2> QED
    BY <2>1, <2>3
<1>9. GoesLeave(environments, plan[call], todo[call], plan[call + 1])
  <2>1. Goes(visits, environments, plan[call], todo[call], plan[call + 1])
    BY <1>7 DEF IsPlan
  <2> QED
    BY <1>7, <2>1 DEF Goes, GoesVisit, GoesKeep, GoesApply, GoesDefine, NodeKinds, Expressions, Statements_,
                      Declarations
<1> QED
  BY <1>3, <1>7, <1>8, <1>9 DEF call

(* A return leaves the innermost call, whatever blocks are in between. *)
LEMMA ReturnOk == IInv /\ VisitReturn => IInv'
<1> SUFFICES ASSUME IInv, VisitReturn PROVE IInv'
  OBVIOUS
<1>1. ASSUME Doing({"Return"}),
             Continue((IF Task.value = <<>> THEN <<LiteralExpr(Nil)>> ELSE Task.value) \o <<Apply(Task)>>),
             values' = values, val' = val, Quiet
      PROVE  IInv'
  <2> DEFINE node == Task
             first == IF node.value = <<>> THEN <<LiteralExpr(Nil)>> ELSE node.value
             tasks == first \o <<Apply(node)>>
  <2>1. todo # <<>> /\ Task.kind = "Return" /\ Task.kind \in Expressions \cup Statements_ /\ Task.kind # "Literal"
    BY <1>1 DEF Doing, Statements_
  <2>2. PICK visits, p, r : Facing(visits, p, r)
    BY <2>1, FacingTask
  <2>3. PointOk(p) /\ r = p /\ Visited(visits, p, node)
    BY <2>1, <2>2, VisitTask
  <2> DEFINE v == VisitOf(node, p.scopes, p.waiting, p.in_function)
  <2>4. FollowRules(visits, locals) /\ WellBuilt(node) /\ Following(v) \subseteq visits
    BY <2>2, <2>3, VisitedFacts DEF Facing
  <2>5. Each(node.value, Expressions) /\ \A n \in Range(node.value) : Visited(visits, p, n)
    BY <2>1, <2>4 DEF WellBuilt, Following, Visited, VisitOf
  <2>6. IsSeq(node.value) /\ \A i \in 1 .. Len(node.value) :
                               node.value[i].kind \in Expressions /\ node.value[i] \in Range(node.value)
    BY <2>5, SeqFacts DEF Each, IsSeq
  <2>7. node.kind # "Var" /\ Taken(node) = 0
    BY <2>1 DEF Taken
  <2> HIDE DEF v, node
  <2>8. Leads(visits, environments, node.value, p, p)
    BY <2>3, <2>4, <2>5, <2>6, AllGo
  <2>9. IsSeq(<<LiteralExpr(Nil)>>) /\ Leads(visits, environments, <<LiteralExpr(Nil)>>, p, p)
    <3>1. LiteralExpr(Nil).kind = "Literal" /\ ~IsCallable(LiteralExpr(Nil).value)
      BY DEF LiteralExpr, IsCallable, Nil
    <3>2. GoesVisit(visits, p, LiteralExpr(Nil), p)
      BY <3>1 DEF GoesVisit, Stays, NodeKinds, Expressions, Declarations
    <3>3. Goes(visits, environments, p, LiteralExpr(Nil), p)
      BY <2>3, <3>2 DEF Goes
    <3> QED
      BY <3>3, LeadsBy
  <2>10. IsSeq(first) /\ Leads(visits, environments, first, p, p)
    BY <2>6, <2>8, <2>9
  <2>11. IsSeq(<<Apply(node)>>) /\ Leads(visits, environments, <<Apply(node)>>, p, p)
    BY <2>3, <2>7, OperatorGoes, OfOne
  <2> HIDE DEF first
  <2>12. IsSeq(tasks) /\ Leads(visits, environments, tasks, p, r)
    BY <2>3, <2>10, <2>11, LeadsJoin
  <2>13. Continue(tasks) /\ Sane(callables, val')
    BY <1>1 DEF IInv, ValuesOk, first, node
  <2> HIDE DEF tasks
  <2> QED
    BY <1>1, <2>2, <2>12, <2>13, EvaluationOk DEF Quiet
<1> DEFINE call == Catches({"leave_call"})
<1>2. ASSUME Applying("Return"), current_env' = CallRestores(call),
             todo' = SubSeq(todo, call + 1, Len(todo)),
             values' = SubSeq(values, 1, todo[call].depth),
             val' = val, locals' = locals, environments' = environments, callables' = callables,
             program' = program
      PROVE  IInv'
  <2>1. PICK visits, p : Standing(visits, p)
    BY DEF IInv
  <2>2. PICK plan : /\ plan[1] = p /\ plan[Len(todo) + 1] = Finish
                    /\ IsPlan(visits, environments, todo, plan)
    BY <2>1 DEF Standing, Leads
  <2>3. /\ call \in 1 .. Len(todo) /\ PointOk(p) /\ plan[call].floor <= p.floor
        /\ GoesLeave(environments, plan[call], todo[call], plan[call + 1])
    BY <1>2, <2>1, <2>2, ReturnFacts
  <2>4. /\ IsSeq(todo) /\ Len(todo) \in Nat /\ EnvironmentsOk(environments) /\ program \in Nat
        /\ ValuesOk(environments, callables, values, val) /\ IsSeq(values) /\ Len(values) \in Nat
        /\ p.height = Len(values)
    BY <2>1, SeqFacts DEF IInv, ValuesOk, Standing
  <2> HIDE DEF call
  <2>5. PICK q : q = plan[call + 1]
    OBVIOUS
  <2>6. /\ q.env = todo[call].env /\ q.height = todo[call].depth /\ HasNames(environments, q.scopes, q.env)
        /\ plan[call].floor = q.height
    BY <2>3, <2>5 DEF GoesLeave
  <2>7. q.height \in 0 .. Len(values)
    <3>1. PointOk(q)
      <4>1. Goes(visits, environments, plan[call], todo[call], plan[call + 1])
        BY <2>2, <2>3 DEF IsPlan
      <4> QED
        BY <2>5, <4>1 DEF Goes
    <3>2. q.height \in Nat /\ p.floor \in 0 .. p.height
      BY <2>3, <3>1 DEF PointOk
    <3> QED
      BY <2>3, <2>4, <2>6, <3>2
  <2>8. /\ IsSeq(values') /\ Len(values') = q.height /\ \A i \in 1 .. q.height : values'[i] = values[i]
    BY <1>2, <2>4, <2>6, <2>7, PrefixFacts
  <2>9. ValuesOk(environments, callables, values', val)
    <3>1. \A i \in 1 .. q.height : i \in 1 .. Len(values)
      BY <2>4, <2>7
    <3> QED
      BY <2>4, <2>8, <3>1 DEF ValuesOk
  <2>10. IsSeq(todo') /\ Leads(visits, environments, todo', q, Finish)
    <3>1. call + 1 \in 1 .. Len(todo) + 1
      BY <2>3, <2>4
    <3> QED
      BY <1>2, <2>2, <2>4, <2>5, <3>1, LeadsFrom
  <2>11. Standing(visits, q)'
    <3>1. FollowRules(visits, locals) /\ CallablesOk(visits, environments, callables, program)
      BY <2>1 DEF Standing
    <3>2. q.env = current_env'
      BY <1>2, <2>6 DEF CallRestores, call
    <3> QED
      BY <1>2, <2>6, <2>8, <2>10, <3>1, <3>2 DEF Standing
  <2> QED
    BY <1>2, <2>4, <2>9, <2>10, <2>11 DEF IInv
<1> QED
  BY <1>1, <1>2 DEF VisitReturn

(***************************************************************************)
(* A call begins in an environment within the one the function closed      *)
(* over.                                                                   *)
(***************************************************************************)
LEMMA CallFunctionOk == IInv /\ CallFunction => IInv'
<1> SUFFICES ASSUME IInv, CallFunction PROVE IInv'
  OBVIOUS
<1> DEFINE node == Task.node
           n == Arity
           m == Len(values)
           c == Callee.callable
           declaration == CalleeOf.declaration
           params == ParamsOf
           last(x) == CHOOSE i \in 1 .. n : params[i] = x /\ \A j \in i + 1 .. n : params[j] # x
           vs == [x \in ToSet(params) |-> Argument(last(x))]
           leave == [Leave("leave_call") EXCEPT !.depth = @ - n - 1]
<1>1. /\ todo # <<>> /\ Task.kind = "apply" /\ node.kind = "Call"
      /\ IsCallable(Callee) /\ ~IsNative /\ ~Dangling /\ Len(params) = n
      /\ Enter([values |-> vs, enclosing |-> CalleeOf.env])
      /\ values' = SubSeq(values, 1, m - n - 1)
      /\ Continue(declaration.body \o <<leave>>)
      /\ val' = val /\ locals' = locals /\ callables' = callables /\ program' = program
  BY DEF CallFunction, Applying, Doing, DeclarationsEnvironment
<1>2. PICK visits, p, r : Facing(visits, p, r)
  BY <1>1, FacingTask
<1>3. Taken(node) = n + 1
  BY <1>1 DEF Taken, Arity
<1>4. /\ PointOk(p) /\ PointOk(r) /\ Visited(visits, p, node) /\ Stays(p, r) /\ r.height = p.height - (n + 1)
      /\ r.scopes = p.scopes
  <2>1. Task.kind = "apply" /\ Task.node.kind # "Var"
    BY <1>1
  <2> QED
    BY <1>2, <1>3, <2>1, ApplyTask
<1>5. /\ ValuesOk(environments, callables, values, val) /\ IsSeq(values) /\ m \in Nat
      /\ CallablesOk(visits, environments, callables, program) /\ FollowRules(visits, locals)
      /\ p.env = current_env /\ p.height = m /\ HasNames(environments, p.scopes, current_env)
  BY <1>2, SeqFacts DEF IInv, Facing, ValuesOk
<1>6. n \in Nat
  <2>1. WellBuilt(node)
    BY <1>4, <1>5, VisitedFacts
  <2>2. Each(node.arguments, Expressions)
    BY <1>1, <2>1 DEF WellBuilt
  <2> QED
    BY <2>2, SeqFacts DEF Each, IsSeq, Arity
<1>7. m - n - 1 \in 0 .. m /\ m - n \in 1 .. m /\ r.height = m - n - 1
  <2>1. r.height \in Nat
    BY <1>4 DEF PointOk
  <2> HIDE DEF n, m
  <2> QED
    BY <1>4, <1>5, <1>6, <2>1
<1>8. c \in 2 .. Len(callables) /\ CalleeOf = callables[c] /\ CalleeOf.program = program
  <2>1. Sane(callables, Callee)
    BY <1>5, <1>7 DEF ValuesOk, Callee
  <2>2. PICK k \in 1 .. Len(callables) : Callee = Callable(k)
    BY <1>1, <2>1 DEF Sane
  <2>3. c = k
    BY <2>2 DEF Callable
  <2>4. k # 1
    BY <1>1, <2>2 DEF IsNative
  <2>5. CalleeOf.program = program
    BY <1>1 DEF Dangling
  <2> QED
    BY <2>2, <2>3, <2>4, <2>5 DEF CalleeOf
<1>9. PICK v \in visits : /\ v.node = declaration /\ v.node.kind = "Function"
                          /\ HasNames(environments, WithNames(v.scopes, {v.node.name}), CalleeOf.env)
  BY <1>5, <1>8 DEF CallablesOk
<1>10. params = v.node.params
  BY <1>1, <1>9 DEF ParamsOf
<1>11. WellBuilt(v.node) /\ Following(v) \subseteq visits
  BY <1>5, <1>9 DEF FollowRules
<1>12. /\ Each(declaration.body, Statements_ \cup Declarations) /\ IsSeq(params)
       /\ InSequence(declaration.body, <<Range(params)>> \o WithNames(v.scopes, {v.node.name}), TRUE) \subseteq visits
  <2> HIDE DEF declaration, params
  <2> QED
    BY <1>9, <1>10, <1>11 DEF WellBuilt, Following, ScopesOfFunction, IsSeq
<1>13. ToSet(params) = Range(params) /\ DOMAIN params = 1 .. n
  <2> HIDE DEF params
  <2> QED
    BY <1>1, <1>12, SeqFacts DEF ToSet, Range
<1> HIDE DEF params, n, m, c, declaration, node
<1>14. ASSUME NEW x \in ToSet(params) PROVE Sane(callables, vs[x])
  <2> DEFINE I == {i \in 1 .. n : params[i] = x}
  <2>1. I # {}
    BY <1>13 DEF Range
  <2>2. \E i \in 1 .. n : params[i] = x /\ \A j \in i + 1 .. n : params[j] # x
    <3>1. I \in SUBSET (1 .. n)
      OBVIOUS
    <3>2. PICK i : i \in I /\ \A j \in I : j <= i
      <4> HIDE DEF I
      <4> QED
        BY <1>6, <2>1, <3>1, MaxFacts
    <3>3. i \in 1 .. n /\ params[i] = x
      BY <3>2
    <3>4. \A j \in i + 1 .. n : j \in 1 .. n /\ ~(j <= i)
      BY <1>6, <3>3
    <3> QED
      BY <3>2, <3>3, <3>4
  <2>3. last(x) \in 1 .. n
    BY <2>2
  <2> HIDE DEF last
  <2>4. vs[x] = values[Len(values) - Arity + last(x)]
    BY <1>14 DEF Argument
  <2>5. Len(values) - Arity + last(x) \in 1 .. Len(values)
    BY <1>6, <1>7, <1>5, <2>3 DEF m, n
  <2> QED
    BY <1>5, <2>4, <2>5 DEF ValuesOk
<1>15. DOMAIN vs = ToSet(params)
  OBVIOUS
<1> HIDE DEF vs
<1>16. /\ IsSeq(values') /\ Len(values') = m - n - 1
       /\ \A i \in 1 .. m - n - 1 : values'[i] = values[i]
  BY <1>1, <1>5, <1>7, PrefixFacts DEF m
<1>17. ValuesOk(environments, callables, values', val')
  <2>1. \A i \in 1 .. m - n - 1 : i \in 1 .. Len(values)
    BY <1>5, <1>6, <1>7 DEF m
  <2> QED
    BY <1>1, <1>5, <1>16, <2>1 DEF ValuesOk
<1>18. leave.kind = "leave_call" /\ leave.env = current_env /\ leave.depth = m - n - 1
  BY DEF Leave, m
<1>19. leave.kind \in Leaves /\ leave.kind # "leave_block" /\ leave.depth = r.height
  BY <1>7, <1>18 DEF Leaves
<1>20. r.env = current_env /\ r.height = Len(values') /\ HasNames(environments, r.scopes, r.env)
  BY <1>4, <1>5, <1>7, <1>16 DEF Stays
<1> HIDE DEF leave
<1>21. Range(params) \subseteq DOMAIN vs /\ \A x \in DOMAIN vs : Sane(callables, vs[x])
  BY <1>13, <1>14, <1>15
<1> QED
  BY <1>1, <1>2, <1>4, <1>9, <1>12, <1>17, <1>18, <1>19, <1>20, <1>21, EnterOk

(***************************************************************************)
(* The next program begins at the top level, with the environments there   *)
(* are.                                                                    *)
(***************************************************************************)
LEMMA BeginProgramOk ==
  ASSUME IInv, NEW given, Begin_(given)
  PROVE  IInv'
<1> DEFINE visits == given.visits
           nodes == given.statements
<1>1. /\ todo = <<>> /\ IsResolved(nodes, locals', visits) /\ program' = program + 1 /\ todo' = nodes
      /\ environments' = environments /\ current_env' = current_env /\ callables' = callables
      /\ values' = values /\ val' = val
  BY DEF Begin_
<1>2. PICK before, p : Standing(before, p)
  BY DEF IInv
<1>3. p = Finish
  <2>1. PICK plan : plan[1] = p /\ plan[Len(todo) + 1] = Finish
    BY <1>2 DEF Standing, Leads
  <2>2. Len(todo) + 1 = 1
    BY <1>1, EmptyFacts
  <2> QED
    BY <2>1, <2>2
<1>4. /\ EnvironmentsOk(environments) /\ ValuesOk(environments, callables, values, val) /\ program \in Nat
      /\ CallablesOk(before, environments, callables, program)
      /\ Finish.env = current_env /\ Finish.height = Len(values)
  BY <1>2, <1>3 DEF IInv, Standing
<1>5. CallablesOk(visits, environments, callables, program + 1)
  <2>1. \A c \in 2 .. Len(callables) :
          /\ callables[c].program \in Nat /\ callables[c].program <= program + 1
          /\ callables[c].program # program + 1
    BY <1>4 DEF CallablesOk
  <2>2. IsSeq(callables) /\ Len(callables) >= 1
    BY <1>4 DEF CallablesOk
  <2> QED
    BY <2>1, <2>2 DEF CallablesOk
<1>6. PICK known : known = locals'
  OBVIOUS
<1>7. /\ FollowRules(visits, known) /\ Each(nodes, Statements_ \cup Declarations)
      /\ InSequence(nodes, <<>>, FALSE) \subseteq visits
  BY <1>1, <1>6 DEF IsResolved
<1>8. IsSeq(<<>>) /\ 0 \in Nat /\ 0 \in 0 .. 0
  BY EmptyFacts
<1>9. PICK height \in Nat : height = 0
  OBVIOUS
<1>91. PICK floor \in 0 .. height : floor = 0
  BY <1>9
<1> HIDE DEF visits, nodes
<1>10. \E names : Leads(visits, environments, nodes, At(Global, floor, height, <<>>, {}, FALSE),
                        At(Global, floor, height, WithNames(<<>>, names), {}, FALSE))
  BY <1>7, <1>8, <1>9, <1>91, SequenceGoes
<1>11. Leads(visits, environments, nodes, Finish, Finish)
  BY <1>9, <1>91, <1>10 DEF WithNames, Finish
<1>12. IsSeq(nodes) /\ HasNames(environments, <<>>, Global)
  BY <1>4, <1>7, AtFinish DEF Each, IsSeq
<1>13. Finish.scopes = <<>> /\ Finish.env = Global
  BY DEF Finish, At
<1>14. Standing(visits, Finish)'
  BY <1>1, <1>4, <1>5, <1>6, <1>7, <1>11, <1>12, <1>13 DEF Standing
<1>15. program' \in Nat
  BY <1>1, <1>4
<1> QED
  BY <1>1, <1>4, <1>12, <1>14, <1>15 DEF IInv

(* The interpreter begins with the globals and nothing to do. *)
LEMMA InitOk == Init => IInv
<1> SUFFICES ASSUME Init PROVE IInv
  OBVIOUS
<1> DEFINE first == [values |-> [name \in {"clock"} |-> Callable(1)], enclosing |-> 0]
           clock == [name |-> "clock"]
<1>1. /\ environments = <<first>> /\ callables = <<clock>>
      /\ current_env = Global /\ program = 0 /\ todo = <<>> /\ values = <<>> /\ val = Nil
  BY DEF Init, InterpreterInit
<1>2. /\ IsSeq(environments) /\ Len(environments) = 1 /\ environments[1] = first
      /\ IsSeq(callables) /\ Len(callables) = 1
  <2> HIDE DEF first, clock
  <2> QED
    BY <1>1, OfOne
<1>3. /\ first = [values |-> first.values, enclosing |-> first.enclosing] /\ first.enclosing = 0
      /\ \A n \in DOMAIN first.values : first.values[n] = Callable(1)
  OBVIOUS
<1> HIDE DEF first, clock
<1>4. (\A e \in 1 .. 1 : e = 1) /\ 2 .. 1 = {}
  OBVIOUS
<1>5. EnvironmentsOk(environments)
  BY <1>2, <1>3, <1>4 DEF EnvironmentsOk, Global
<1>6. Sane(callables, Callable(1)) /\ Sane(callables, Nil)
  <2>1. 1 \in 1 .. Len(callables)
    BY <1>2
  <2>2. ~IsCallable(Nil)
    BY DEF IsCallable, Nil
  <2> QED
    BY <2>1, <2>2 DEF Sane
<1>7. ValuesOk(environments, callables, values, val)
  BY <1>1, <1>2, <1>3, <1>4, <1>6, EmptyFacts DEF ValuesOk
<1>8. Standing({}, Finish)
  <2>1. FollowRules({}, locals)
    BY DEF FollowRules
  <2>2. CallablesOk({}, environments, callables, program)
    BY <1>2, <1>4 DEF CallablesOk
  <2>3. Finish.env = Global /\ Finish.height = 0 /\ Finish.scopes = <<>>
    BY DEF Finish, At
  <2>4. Leads({}, environments, <<>>, Finish, Finish) /\ HasNames(environments, <<>>, Global)
    BY <1>5, AtFinish, LeadsNowhere
  <2> QED
    BY <1>1, <2>1, <2>2, <2>3, <2>4, EmptyFacts DEF Standing
<1> QED
  BY <1>1, <1>5, <1>7, <1>8, EmptyFacts DEF IInv

(* Every step of the interpreter keeps the invariant. *)
LEMMA StepOk == IInv /\ Step => IInv'
BY LiteralOk, BeginOk, KeepValueOk, VariableOk, AssignOk, UnaryOk, BinaryOk, LogicalOk, CallFailsOk, CallNativeOk,
   CallFunctionOk, PrintOk, VarOk, FunctionOk, BlockOk, IfOk, WhileOk, LeaveOk, ReturnOk DEF Step

(* And so does none. *)
LEMMA StutterOk == IInv /\ UNCHANGED vars => IInv'
<1> SUFFICES ASSUME IInv, UNCHANGED vars PROVE IInv'
  OBVIOUS
<1>1. /\ locals' = locals /\ environments' = environments /\ current_env' = current_env
      /\ callables' = callables /\ program' = program /\ todo' = todo /\ values' = values /\ val' = val
  BY DEF vars, interpreter_vars
<1> QED
  BY <1>1 DEF IInv, Standing

(***************************************************************************)
(* What is left to do always has a plan, from the environment in force to  *)
(* the end of the program.                                                 *)
(***************************************************************************)
THEOREM PlanIsKept == Spec => []IInv
<1>1. IInv /\ [Next]_vars => IInv'
  BY BeginProgramOk, StepOk, StutterOk DEF Next
<1> QED
  BY InitOk, <1>1, PTL DEF Spec

(* The invariant says that environments are restored. *)
LEMMA RestoredFacts == IInv => EnvironmentRestored
<1> SUFFICES ASSUME IInv PROVE EnvironmentRestored
  OBVIOUS
<1> DEFINE i == Catches({"leave_block", "leave_call"})
<1>1. PICK visits, p : Standing(visits, p)
  BY DEF IInv
<1>2. PICK plan : /\ plan[1] = p /\ plan[Len(todo) + 1] = Finish
                  /\ IsPlan(visits, environments, todo, plan)
  BY <1>1 DEF Standing, Leads
<1>3. IsSeq(todo) /\ Len(todo) \in Nat /\ p.env = current_env
  BY <1>1, SeqFacts DEF IInv, Standing
<1>4. \/ i = 0 /\ \A j \in 1 .. Len(todo) : todo[j].kind \notin Leaves
      \/ i \in 1 .. Len(todo) /\ todo[i].kind \in Leaves /\ \A j \in 1 .. i - 1 : todo[j].kind \notin Leaves
  BY <1>3, CatchesFacts DEF Leaves
<1> HIDE DEF i
<1>5. ASSUME i = 0 PROVE current_env = Global
  <2>1. PICK n \in 1 .. Len(todo) + 1 : n = Len(todo) + 1 /\ n - 1 = Len(todo)
    BY <1>3
  <2>2. \A j \in 1 .. n - 1 : todo[j].kind \notin Leaves
    BY <1>4, <1>5, <2>1
  <2>3. Stays(plan[1], plan[n])
    BY <1>2, <1>3, <2>2, StaysUntil
  <2> QED
    BY <1>2, <1>3, <2>1, <2>3 DEF Stays, Finish, At
<1>6. ASSUME i # 0, todo[i].kind = "leave_block"
      PROVE  environments[current_env].enclosing = todo[i].env
  <2>1. i \in 1 .. Len(todo) /\ i \in 1 .. Len(todo) + 1
    BY <1>3, <1>4, <1>6
  <2>2. Stays(plan[1], plan[i])
    BY <1>2, <1>3, <1>4, <1>6, <2>1, StaysUntil
  <2>3. Goes(visits, environments, plan[i], todo[i], plan[i + 1])
    BY <1>2, <2>1 DEF IsPlan
  <2>4. GoesLeave(environments, plan[i], todo[i], plan[i + 1])
    BY <1>6, <2>3 DEF Goes, GoesVisit, GoesKeep, GoesApply, GoesDefine, NodeKinds, Expressions, Statements_,
                      Declarations
  <2> QED
    BY <1>2, <1>3, <1>6, <2>2, <2>4 DEF Stays, GoesLeave
<1> QED
  BY <1>5, <1>6 DEF EnvironmentRestored, i

(* The invariant says that names are found. *)
LEMMA NamesFacts == IInv => ResolvedNamesFound
<1> SUFFICES ASSUME IInv PROVE ResolvedNamesFound
  OBVIOUS
<1>0. EnvironmentsOk(environments)
  BY DEF IInv
<1>1. ASSUME Doing({"Variable"}) PROVE Found(Task)
  <2>1. todo # <<>> /\ Task.kind \in {"Variable", "Assign"} /\ Task.kind = "Variable"
        /\ Task.kind \in Expressions \cup Statements_
    BY <1>1 DEF Doing, Expressions
  <2>2. PICK visits, p, r : Facing(visits, p, r)
    BY <2>1, FacingTask
  <2>3. Visited(visits, p, Task)
    BY <2>1, <2>2, VisitTask
  <2>4. FollowRules(visits, locals) /\ p.env = current_env /\ HasNames(environments, p.scopes, p.env)
    BY <2>2 DEF Facing
  <2>5. ~Astray(Task) /\ (IsLocal(Task) => Task.name \in DOMAIN ValuesOf(StartOf(Task)))
    BY <1>0, <2>1, <2>3, <2>4, UseFacts
  <2> QED
    BY <2>5 DEF Found
<1>2. ASSUME Applying("Assign")
      PROVE  \/ Found(Task.node)
             \/ ~Astray(Task.node) /\ locals[Task.node.id] = 0 /\ Waits(Task.node.name)
  <2>1. PICK visits, p : Standing(visits, p)
    BY DEF IInv
  <2>2. PICK plan : /\ plan[1] = p /\ plan[Len(todo) + 1] = Finish
                    /\ IsPlan(visits, environments, todo, plan)
    BY <2>1 DEF Standing, Leads
  <2>3. IsSeq(todo) /\ Len(todo) \in Nat /\ Task = todo[1] /\ 1 \in 1 .. Len(todo) /\ DOMAIN todo = 1 .. Len(todo)
    <3>1. IsSeq(todo) /\ todo # <<>>
      BY <1>2 DEF IInv, Applying, Doing
    <3>2. Len(todo) \in Nat /\ Len(todo) # 0 /\ DOMAIN todo = 1 .. Len(todo)
      BY <3>1, SeqFacts, EmptySeq DEF IsSeq
    <3>3. Task = todo[1]
      BY DEF Task
    <3> QED
      BY <3>1, <3>2, <3>3
  <2> DEFINE node == Task.node
  <2>4. Task.kind = "apply" /\ node.kind = "Assign" /\ node.kind \in {"Variable", "Assign"}
    BY <1>2 DEF Applying, Doing
  <2>5. Visited(visits, p, node)
    <3>1. Goes(visits, environments, p, Task, plan[2])
      BY <2>2, <2>3 DEF IsPlan
    <3>2. GoesApply(visits, p, Task, plan[2])
      BY <2>4, <3>1 DEF Goes, GoesVisit, GoesKeep, GoesDefine, GoesLeave, NodeKinds, Expressions, Statements_,
                        Declarations
    <3> QED
      BY <3>2 DEF GoesApply
  <2>6. FollowRules(visits, locals) /\ p.env = current_env /\ HasNames(environments, p.scopes, p.env)
    BY <2>1 DEF Standing
  <2> HIDE DEF node
  <2>7. /\ ~Astray(node)
        /\ IsLocal(node) => \/ node.name \in DOMAIN ValuesOf(StartOf(node))
                            \/ locals[node.id] = 0 /\ node.name \in p.waiting
    BY <1>0, <2>4, <2>5, <2>6, UseFacts
  <2>8. ASSUME NEW name \in p.waiting PROVE Waits(name)
    <3> DEFINE i == Catches({"leave_block", "leave_call"})
    <3>1. \/ i = 0 /\ \A j \in 1 .. Len(todo) : todo[j].kind \notin Leaves
          \/ i \in 1 .. Len(todo) /\ todo[i].kind \in Leaves /\ \A j \in 1 .. i - 1 : todo[j].kind \notin Leaves
      BY <2>3, CatchesFacts DEF Leaves
    <3> HIDE DEF i
    <3>2. PICK n \in 1 .. Len(todo) + 1 : /\ \A j \in 1 .. n - 1 : todo[j].kind \notin Leaves
                                          /\ n = IF i = 0 THEN Len(todo) + 1 ELSE i
      <4>1. CASE i = 0
        <5>1. PICK n \in 1 .. Len(todo) + 1 : n = Len(todo) + 1 /\ n - 1 = Len(todo)
          BY <2>3
        <5> QED
          BY <3>1, <4>1, <5>1, <2>3
      <4>2. CASE i # 0
        BY <2>3, <3>1, <4>2
      <4> QED
        BY <4>1, <4>2
    <3>3. plan[n].waiting = {}
      <4>1. CASE i = 0
        BY <2>2, <3>2, <4>1 DEF Finish, At
      <4>2. CASE i # 0
        <5>1. n = i /\ n \in 1 .. Len(todo) /\ todo[n].kind \in Leaves
          BY <3>1, <3>2, <4>2
        <5>2. Goes(visits, environments, plan[n], todo[n], plan[n + 1])
          BY <2>2, <5>1 DEF IsPlan
        <5> QED
          BY <5>1, <5>2 DEF Goes, GoesLeave, GoesVisit, GoesKeep, GoesApply, GoesDefine, NodeKinds, Expressions,
                            Statements_, Declarations, Leaves
      <4> QED
        BY <4>1, <4>2
    <3>4. PICK j \in 1 .. n - 1 : todo[j].kind = "apply" /\ todo[j].node.kind = "Var" /\ todo[j].node.name = name
      <4>1. \A x \in plan[1].waiting : x \in plan[n].waiting \/ Gets(todo, x, n)
        BY <2>2, <2>3, <3>2, StaysUntil
      <4> QED
        BY <2>2, <2>8, <3>3, <4>1 DEF Gets
    <3>5. j \in DOMAIN todo /\ \A k \in 1 .. j : k \in 1 .. n - 1
      BY <2>3
    <3> QED
      BY <3>2, <3>4, <3>5 DEF Waits, Leaves
  <2> QED
    BY <2>7, <2>8 DEF Found, node
<1> QED
  BY <1>1, <1>2 DEF ResolvedNamesFound

(* The invariant says that returns are caught. *)
LEMMA CaughtFacts == IInv => ReturnsCaught
<1> SUFFICES ASSUME IInv, Applying("Return") PROVE Catches({"leave_call"}) # 0
  BY DEF ReturnsCaught
<1>1. PICK visits, p : Standing(visits, p)
  BY DEF IInv
<1>2. PICK plan : /\ plan[1] = p /\ plan[Len(todo) + 1] = Finish
                  /\ IsPlan(visits, environments, todo, plan)
  BY <1>1 DEF Standing, Leads
<1>3. Catches({"leave_call"}) \in 1 .. Len(todo)
  BY <1>1, <1>2, ReturnFacts
<1> QED
  BY <1>3

(***************************************************************************)
(* The interpreter looks a resolved name up in the environment at the      *)
(* distance that Resolver counted, without a check (Environment::get_at,   *)
(* Interpreter.cpp): the environment exists and has the name, in every     *)
(* program that Parser and Resolver let pass and whatever it does.         *)
(***************************************************************************)
THEOREM NamesAreFound == Spec => []ResolvedNamesFound
BY PlanIsKept, NamesFacts, PTL

(***************************************************************************)
(* A runtime error or a return leaves blocks and calls through C++         *)
(* exceptions; the environment that is in force at the end of the          *)
(* innermost block, or at the top level, is the one that was in force      *)
(* before (execute_block, Interpreter.cpp).                                *)
(***************************************************************************)
THEOREM EnvironmentsAreRestored == Spec => []EnvironmentRestored
BY PlanIsKept, RestoredFacts, PTL

(***************************************************************************)
(* A return is thrown as an exception that only a call catches             *)
(* (Interpreter.cpp, class Return): there is a call whenever one is        *)
(* executed, for Resolver accepts returns in functions only.               *)
(***************************************************************************)
THEOREM ReturnsAreCaught == Spec => []ReturnsCaught
BY PlanIsKept, CaughtFacts, PTL

=============================================================================
