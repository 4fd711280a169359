--------------------------- MODULE SequenceFacts ---------------------------
(***************************************************************************)
(* Lemmas about sequences whose elements have no common type, about least  *)
(* and greatest numbers, and induction in the form the provers can use:    *)
(* over a set of numbers instead of a predicate.                           *)
(***************************************************************************)
EXTENDS Integers, SequencesExt, SequenceTheorems, WellFoundedInduction, TLAPS

-----------------------------------------------------------------------------
(* A sequence, whatever its elements. *)
IsSeq(s) == s \in Seq(Range(s))

(* A sequence over any set is one. *)
LEMMA SeqIsSeq ==
  ASSUME NEW S, NEW s \in Seq(S)
  PROVE  /\ IsSeq(s)
         /\ Range(s) \subseteq S
<1>1. s \in [1 .. Len(s) -> S] /\ Len(s) \in Nat
  BY LenProperties
<1> QED
  BY <1>1, SeqDef DEF IsSeq, Range

(* Its domain, and its elements. *)
LEMMA SeqFacts ==
  ASSUME NEW s, IsSeq(s)
  PROVE  /\ Len(s) \in Nat
         /\ DOMAIN s = 1 .. Len(s)
         /\ \A i \in DOMAIN s : s[i] \in Range(s)
BY LenProperties DEF IsSeq, Range

(* Append adds one element at the end. *)
LEMMA AppendFacts ==
  ASSUME NEW s, IsSeq(s), NEW e
  PROVE  /\ IsSeq(Append(s, e))
         /\ Len(Append(s, e)) = Len(s) + 1
         /\ DOMAIN Append(s, e) = 1 .. Len(s) + 1
         /\ \A i \in 1 .. Len(s) : Append(s, e)[i] = s[i]
         /\ Append(s, e)[Len(s) + 1] = e
         /\ Range(Append(s, e)) = Range(s) \cup {e}
<1> DEFINE S == Range(s) \cup {e}
<1>1. s \in Seq(S)
  BY SeqMonotonic DEF IsSeq
<1>2. /\ Append(s, e) \in Seq(S)
      /\ Len(Append(s, e)) = Len(s)+1
      /\ \A i \in 1.. Len(s) : Append(s, e)[i] = s[i]
      /\ Append(s, e)[Len(s)+1] = e
  BY <1>1, AppendProperties
<1>3. Len(s) \in Nat /\ DOMAIN s = 1 .. Len(s)
  BY SeqFacts
<1>4. IsSeq(Append(s, e)) /\ DOMAIN Append(s, e) = 1 .. Len(s) + 1
  BY <1>2, SeqIsSeq, SeqFacts
<1>5. Range(Append(s, e)) = Range(s) \cup {e}
  BY <1>2, <1>3, <1>4 DEF Range
<1> QED
  BY <1>2, <1>4, <1>5

(* SubSeq from 1 keeps the elements. *)
LEMMA PrefixFacts ==
  ASSUME NEW s, IsSeq(s), NEW n \in 0 .. Len(s)
  PROVE  /\ IsSeq(SubSeq(s, 1, n))
         /\ Len(SubSeq(s, 1, n)) = n
         /\ DOMAIN SubSeq(s, 1, n) = 1 .. n
         /\ \A i \in 1 .. n : SubSeq(s, 1, n)[i] = s[i]
         /\ Range(SubSeq(s, 1, n)) \subseteq Range(s)
<1>1. Len(s) \in Nat /\ DOMAIN s = 1 .. Len(s) /\ \A i \in DOMAIN s : s[i] \in Range(s)
  BY SeqFacts
<1>2. /\ SubSeq(s, 1, n) \in Seq(Range(s))
      /\ Len(SubSeq(s, 1, n)) = n
      /\ \A i \in 1 .. n : SubSeq(s, 1, n)[i] = s[i]
  BY <1>1, SubSeqProperties
<1> QED
  BY <1>2, SeqIsSeq, SeqFacts

(* Replacing one element leaves the length and the others. *)
LEMMA ExceptFacts ==
  ASSUME NEW s, IsSeq(s), NEW i \in 1 .. Len(s), NEW e
  PROVE  /\ IsSeq([s EXCEPT ![i] = e])
         /\ Len([s EXCEPT ![i] = e]) = Len(s)
         /\ \A j \in 1 .. Len(s) : [s EXCEPT ![i] = e][j] = IF j = i THEN e ELSE s[j]
         /\ Range([s EXCEPT ![i] = e]) \subseteq Range(s) \cup {e}
<1> DEFINE S == Range(s) \cup {e}
<1>1. s \in Seq(S)
  BY SeqMonotonic DEF IsSeq
<1>2. Len(s) \in Nat /\ DOMAIN s = 1 .. Len(s)
  BY SeqFacts
<1> DEFINE t == [s EXCEPT ![i] = e]
<1>3. t \in Seq(S) /\ Len(t) = Len(s) /\ \A j \in 1 .. Len(s) : t[j] = IF j = i THEN e ELSE s[j]
  BY <1>1, ExceptSeq
<1> QED
  BY <1>2, <1>3, SeqIsSeq

(* Elements of a common type, if there is one. *)
LEMMA SeqOfType ==
  ASSUME NEW S, NEW s, IsSeq(s), \A i \in 1 .. Len(s) : s[i] \in S
  PROVE  s \in Seq(S)
<1>1. DOMAIN s = 1 .. Len(s)
  BY SeqFacts
<1>2. Range(s) \subseteq S
  BY <1>1 DEF Range
<1> QED
  BY <1>2, SeqMonotonic DEF IsSeq

(* A function on 1 .. n is a sequence. *)
LEMMA FunctionIsSeq ==
  ASSUME NEW n \in Nat, NEW f, DOMAIN f = 1 .. n, f = [i \in 1 .. n |-> f[i]]
  PROVE  IsSeq(f) /\ Len(f) = n
<1>1. f \in [1 .. n -> Range(f)]
  BY DEF Range
<1>2. f \in Seq(Range(f))
  BY <1>1, SeqDef
<1>3. DOMAIN f = 1 .. Len(f) /\ Len(f) \in Nat
  BY <1>2, LenProperties
<1> QED
  BY <1>2, <1>3 DEF IsSeq

(* The empty sequence. *)
LEMMA EmptyFacts ==
  IsSeq(<<>>) /\ Len(<<>>) = 0 /\ DOMAIN <<>> = {} /\ Range(<<>>) = {}
BY EmptySeq DEF IsSeq, Range

(* InsertAt moves what is behind the place by one. *)
LEMMA InsertFacts ==
  ASSUME NEW s, IsSeq(s), NEW n \in 1 .. Len(s) + 1, NEW e
  PROVE  /\ IsSeq(InsertAt(s, n, e))
         /\ Len(InsertAt(s, n, e)) = Len(s) + 1
         /\ DOMAIN InsertAt(s, n, e) = 1 .. Len(s) + 1
         /\ \A i \in 1 .. Len(s) + 1 :
              InsertAt(s, n, e)[i] = IF i < n THEN s[i] ELSE IF i = n THEN e ELSE s[i - 1]
<1> DEFINE S == Range(s) \cup {e}
           before == SubSeq(s, 1, n - 1)
           after  == SubSeq(s, n, Len(s))
<1>1. Len(s) \in Nat /\ DOMAIN s = 1 .. Len(s) /\ \A i \in DOMAIN s : s[i] \in S
  BY SeqFacts
<1>2. /\ before \in Seq(S) /\ Len(before) = n - 1
      /\ \A i \in 1 .. n - 1 : before[i] = s[i]
  BY <1>1, SubSeqProperties
<1>3. /\ after \in Seq(S) /\ Len(after) = Len(s) - n + 1
      /\ \A i \in 1 .. Len(s) - n + 1 : after[i] = s[n + i - 1]
  BY <1>1, SubSeqProperties
<1>4. <<e>> \in Seq(S) /\ Len(<<e>>) = 1 /\ <<e>>[1] = e
  OBVIOUS
<1> HIDE DEF before, after, S
<1> DEFINE head == before \o <<e>>
           t    == head \o after
<1>5. /\ head \in Seq(S) /\ Len(head) = n
      /\ \A i \in 1 .. n : head[i] = IF i <= n - 1 THEN before[i] ELSE e
  <2>1. /\ head \in Seq(S) /\ Len(head) = n - 1 + 1
        /\ \A i \in 1 .. n - 1 + 1 :
             head[i] = IF i <= n - 1 THEN before[i] ELSE <<e>>[i - (n - 1)]
    BY <1>1, <1>2, <1>4, ConcatProperties
  <2> HIDE DEF head
  <2> QED
    BY <1>1, <1>4, <2>1
<1>6. /\ t \in Seq(S) /\ Len(t) = Len(s) + 1
      /\ \A i \in 1 .. Len(s) + 1 : t[i] = IF i <= n THEN head[i] ELSE after[i - n]
  <2> HIDE DEF head
  <2>1. /\ t \in Seq(S) /\ Len(t) = Len(head) + Len(after)
        /\ \A i \in 1 .. Len(head) + Len(after) :
             t[i] = IF i <= Len(head) THEN head[i] ELSE after[i - Len(head)]
    BY <1>3, <1>5, ConcatProperties
  <2> HIDE DEF t
  <2> QED
    BY <1>1, <1>3, <1>5, <2>1
<1> HIDE DEF head
<1>7. \A i \in 1 .. Len(s) + 1 : t[i] = IF i < n THEN s[i] ELSE IF i = n THEN e ELSE s[i - 1]
  <2> HIDE DEF t
  <2> TAKE i \in 1 .. Len(s) + 1
  <2>1. CASE i < n
    BY <2>1, <1>1, <1>2, <1>5, <1>6
  <2>2. CASE i = n
    BY <2>2, <1>1, <1>4, <1>5, <1>6
  <2>3. CASE i > n
    <3>1. i - n \in 1 .. Len(s) - n + 1 /\ n + (i - n) - 1 = i - 1
      BY <2>3, <1>1
    <3>2. after[i - n] = s[n + (i - n) - 1]
      BY <3>1, <1>3
    <3> QED
      BY <2>3, <1>1, <1>6, <3>1, <3>2
  <2> QED
    BY <1>1, <2>1, <2>2, <2>3
<1>8. InsertAt(s, n, e) = t
  BY DEF InsertAt, before, after, head
<1> HIDE DEF t
<1> QED
  BY <1>1, <1>6, <1>7, <1>8, SeqIsSeq, SeqFacts

(* A set of naturals with 0 that is closed under + 1, is all of Nat. *)
LEMMA Induction ==
  ASSUME NEW S, 0 \in S, \A n \in Nat : n \in S => n + 1 \in S
  PROVE  Nat \subseteq S
<1> DEFINE R == {ss \in Nat \X Nat : ss[1] < ss[2]}
<1>0. IsWellFoundedOn(R, Nat)
  BY NatLessThanWellFounded DEF OpToRel
<1>1. SUFFICES ASSUME Nat \ S # {} PROVE FALSE
  OBVIOUS
<1>2. PICK m \in Nat \ S : \A k \in Nat \ S : ~(<<k, m>> \in R)
  <2> HIDE DEF R
  <2>1. Nat \ S \subseteq Nat
    OBVIOUS
  <2> QED
    BY <1>0, <1>1, <2>1, WFMin
<1>3. \A k \in Nat \ S : ~(k < m)
  BY <1>2
<1> QED
  BY <1>3


(* A nonempty set of naturals has a least element. *)
LEMMA MinFacts ==
  ASSUME NEW I \in SUBSET Nat, I # {}
  PROVE  Min(I) \in I /\ \A i \in I : Min(I) <= i
<1> DEFINE S == {n \in Nat : \A k \in 0 .. n : k \notin I}
<1>1. ~(Nat \subseteq S)
  <2>1. PICK i : i \in I
    OBVIOUS
  <2>2. i \in Nat /\ i \notin S
    BY <2>1
  <2> QED
    BY <2>2
<1>2. CASE 0 \in I
  <2>1. 0 \in I /\ \A i \in I : 0 <= i
    BY <1>2
  <2> QED
    BY <2>1 DEF Min
<1>3. CASE 0 \notin I
  <2>1. 0 \in S
    BY <1>3
  <2>2. PICK n \in Nat : n \in S /\ n + 1 \notin S
    <3> HIDE DEF S
    <3> QED
      BY <1>1, <2>1, Induction
  <2>3. n + 1 \in I /\ \A i \in I : n + 1 <= i
    BY <2>2
  <2> QED
    BY <2>3 DEF Min
<1> QED
  BY <1>2, <1>3

(* A nonempty set of naturals with an upper bound has a greatest element. *)
LEMMA MaxFacts ==
  ASSUME NEW n \in Nat, NEW I \in SUBSET (1 .. n), I # {}
  PROVE  Max(I) \in I /\ \A i \in I : i <= Max(I)
<1> DEFINE U == {m \in Nat : \A i \in I : i <= m}
<1>1. U \in SUBSET Nat /\ n \in U
  OBVIOUS
<1>2. Min(U) \in U /\ \A m \in U : Min(U) <= m
  <2> HIDE DEF U
  <2> QED
    BY <1>1, MinFacts
<1> DEFINE m == Min(U)
<1>3. m \in Nat /\ \A i \in I : i <= m
  BY <1>2
<1>4. \A k \in Nat : (\A i \in I : i <= k) => m <= k
  BY <1>2
<1> HIDE DEF m
<1>5. m \in I
  <2>1. SUFFICES ASSUME m \notin I PROVE FALSE
    OBVIOUS
  <2>2. \A i \in I : i <= m - 1
    BY <1>3, <2>1
  <2>3. m - 1 \in Nat
    <3>1. PICK i : i \in I
      OBVIOUS
    <3> QED
      BY <3>1, <2>2, <1>3
  <2> QED
    BY <1>4, <1>3, <2>2, <2>3
<1>6. \E x \in I : \A i \in I : x >= i
  BY <1>3, <1>5
<1>7. Max(I) \in I /\ \A i \in I : Max(I) >= i
  BY <1>6 DEF Max
<1> QED
  BY <1>7

=============================================================================
