------------------------------ MODULE VMProofs ------------------------------
(***************************************************************************)
(* What holds of the machine whatever code it runs (src/src/Bytecode/      *)
(* VM.cpp): its state is of the types the code gives it, and the list of   *)
(* open upvalues is strictly in the order of the stack.  Then, with        *)
(* well-formed code: no instruction is undefined, frames stay on their     *)
(* closures, upvalues implement captured variables, and a collection finds *)
(* every value in use.                                                     *)
(*                                                                         *)
(* The two are proved together, as MachineInv, with the constancy of the   *)
(* type of the functions.  Neither is inductive alone: an upvalue that is  *)
(* read or closed is typed because the list names upvalues that exist, and *)
(* the place of a new upvalue in the list is what the loop over the list   *)
(* makes of indices that are numbers.                                      *)
(***************************************************************************)
EXTENDS LoxGC, SequenceFacts, FiniteSetTheorems

-----------------------------------------------------------------------------
(* The list of open upvalues. *)

(* `open' lists the open ones of the upvalues us in the order of their indices. *)
Listed(us, open) ==
  /\ IsSeq(us)
  /\ \A u \in DOMAIN us : IsOpen(us[u]) => us[u] \in [index : Nat]
  /\ IsSeq(open)
  /\ Range(open) = {u \in DOMAIN us : IsOpen(us[u])}
  /\ \A i, j \in DOMAIN open : i < j => us[open[i]].index < us[open[j]].index

(* The elements of the list. *)
LEMMA ListedElements ==
  ASSUME NEW us, NEW open, Listed(us, open)
  PROVE  /\ Len(us) \in Nat /\ DOMAIN us = 1 .. Len(us)
         /\ Len(open) \in Nat /\ DOMAIN open = 1 .. Len(open)
         /\ \A i \in 1 .. Len(open) :
              open[i] \in 1 .. Len(us) /\ IsOpen(us[open[i]]) /\ us[open[i]].index \in Nat
         /\ \A u \in DOMAIN us : IsOpen(us[u]) => \E i \in 1 .. Len(open) : open[i] = u
<1>1. Len(us) \in Nat /\ DOMAIN us = 1 .. Len(us) /\ Len(open) \in Nat /\ DOMAIN open = 1 .. Len(open)
  BY SeqFacts DEF Listed
<1>2. \A i \in 1 .. Len(open) : open[i] \in 1 .. Len(us) /\ IsOpen(us[open[i]])
  BY <1>1 DEF Listed, Range
<1>3. \A i \in 1 .. Len(open) : us[open[i]].index \in Nat
  BY <1>1, <1>2 DEF Listed
<1>4. \A u \in DOMAIN us : IsOpen(us[u]) => \E i \in 1 .. Len(open) : open[i] = u
  BY <1>1 DEF Listed, Range
<1> QED
  BY <1>1, <1>2, <1>3, <1>4

(* Where the new upvalue goes: behind what is not above it. *)
LEMMA PlaceFacts ==
  ASSUME NEW r, NEW x, Listed(r.upvalues, r.open_upvalues), x \in Nat
  PROVE  /\ Place(r, x) \in 1 .. Len(r.open_upvalues) + 1
         /\ \A i \in 1 .. Len(r.open_upvalues) :
              i < Place(r, x) => r.upvalues[r.open_upvalues[i]].index <= x
         /\ \A i \in 1 .. Len(r.open_upvalues) :
              i >= Place(r, x) => r.upvalues[r.open_upvalues[i]].index > x
<1> DEFINE open == r.open_upvalues
           idx(i) == r.upvalues[open[i]].index
           I == {i \in 1 .. Len(open) : idx(i) > x}
<1>1. /\ Len(open) \in Nat /\ DOMAIN open = 1 .. Len(open)
      /\ \A i \in 1 .. Len(open) : idx(i) \in Nat
      /\ \A i, j \in 1 .. Len(open) : i < j => idx(i) < idx(j)
  BY ListedElements DEF Listed
<1>2. I \in SUBSET (1 .. Len(open)) /\ I \in SUBSET Nat
  BY <1>1
<1>3. I # {} => Min(I) \in I /\ \A i \in I : Min(I) <= i
  <2> HIDE DEF I
  <2> QED
    BY <1>2, MinFacts
<1>4. Place(r, x) = IF I # {} THEN Min(I) ELSE Len(open) + 1
  <2>1. SelectInSeq(open, LAMBDA u : r.upvalues[u].index > x) = IF I # {} THEN Min(I) ELSE 0
    BY DEF SelectInSeq
  <2>2. I # {} => Min(I) # 0
    BY <1>2, <1>3
  <2> QED
    BY <2>1, <2>2 DEF Place
<1> HIDE DEF I
<1>5. CASE I = {}
  BY <1>1, <1>4, <1>5 DEF I
<1>6. CASE I # {}
  <2>1. Place(r, x) \in I /\ \A i \in I : Place(r, x) <= i
    BY <1>3, <1>4, <1>6
  <2>2. Place(r, x) \in 1 .. Len(open) /\ idx(Place(r, x)) > x
    BY <2>1 DEF I
  <2>3. \A i \in 1 .. Len(open) : i < Place(r, x) => ~(idx(i) > x)
    BY <1>1, <2>1, <2>2 DEF I
  <2> QED
    BY <1>1, <2>2, <2>3
<1> QED
  BY <1>5, <1>6

(* Where the list has the upvalue of an index, if there is one. *)
Found(us, open, x) == SelectLastInSeq(open, LAMBDA u : us[u].index = x)

(* The place of the upvalue for index x in the list, or 0 if none has it. *)
LEMMA FoundFacts ==
  ASSUME NEW us, NEW open, NEW x, Listed(us, open)
  PROVE  \/ Found(us, open, x) = 0 /\ \A i \in 1 .. Len(open) : us[open[i]].index # x
         \/ /\ Found(us, open, x) \in 1 .. Len(open)
            /\ us[open[Found(us, open, x)]].index = x
<1> DEFINE I == {i \in 1 .. Len(open) : us[open[i]].index = x}
<1>1. Found(us, open, x) = IF I # {} THEN Max(I) ELSE 0
  BY DEF Found, SelectLastInSeq
<1>2. Len(open) \in Nat /\ I \in SUBSET (1 .. Len(open))
  BY ListedElements
<1>3. I # {} => Max(I) \in I
  <2> HIDE DEF I
  <2> QED
    BY <1>2, MaxFacts
<1> QED
  BY <1>1, <1>3

(* The entries of the list that close_upvalues(last) keeps are those below last. *)
LEMMA KeptFacts ==
  ASSUME Listed(upvalues, open_upvalues), NEW last \in Int
  PROVE  /\ Kept(last) \in 0 .. Len(open_upvalues)
         /\ \A i \in 1 .. Len(open_upvalues) :
              i <= Kept(last) <=> upvalues[open_upvalues[i]].index < last
<1> DEFINE open == open_upvalues
           idx(i) == upvalues[open[i]].index
           I == {i \in 1 .. Len(open) : idx(i) < last}
<1>1. /\ Len(open) \in Nat /\ DOMAIN open = 1 .. Len(open)
      /\ \A i \in 1 .. Len(open) : idx(i) \in Nat
      /\ \A i, j \in 1 .. Len(open) : i < j => idx(i) < idx(j)
  BY ListedElements DEF Listed
<1>2. I \in SUBSET (1 .. Len(open))
  OBVIOUS
<1>3. I # {} => Max(I) \in I /\ \A i \in I : i <= Max(I)
  <2> HIDE DEF I
  <2> QED
    BY <1>1, <1>2, MaxFacts
<1>4. Kept(last) = IF I # {} THEN Max(I) ELSE 0
  BY DEF Kept, SelectLastInSeq
<1> HIDE DEF I
<1>5. CASE I = {}
  BY <1>1, <1>4, <1>5 DEF I
<1>6. CASE I # {}
  <2>1. Kept(last) \in I /\ \A i \in I : i <= Kept(last)
    BY <1>3, <1>4, <1>6
  <2>2. Kept(last) \in 1 .. Len(open) /\ idx(Kept(last)) < last
    BY <2>1 DEF I
  <2>3. \A i \in 1 .. Len(open) : i > Kept(last) => ~(idx(i) < last)
    BY <1>1, <2>1, <2>2 DEF I
  <2> QED
    BY <1>1, <2>2, <2>3
<1> QED
  BY <1>5, <1>6

-----------------------------------------------------------------------------
(* Capturing variables. *)

(* What the loop of OP_CLOSURE has made so far is in order. *)
InOrder(r) ==
  /\ r \in [upvalues : {r.upvalues}, open_upvalues : {r.open_upvalues}, captured : {r.captured}]
  /\ Listed(r.upvalues, r.open_upvalues)
  /\ IsSeq(r.captured)
  /\ \A i \in 1 .. Len(r.captured) : r.captured[i] \in 1 .. Len(r.upvalues)

(* us is continued by open upvalues of the indices in X. *)
ContinuedBy(us, more, X) ==
  /\ Len(us) <= Len(more)
  /\ \A u \in 1 .. Len(us) : more[u] = us[u]
  /\ \A u \in Len(us) + 1 .. Len(more) : more[u] \in [index : X]

(* A new upvalue keeps the list in order. *)
LEMMA AddUpvalueFacts ==
  ASSUME NEW r, InOrder(r), NEW x \in Nat,
         \A i \in 1 .. Len(r.open_upvalues) : r.upvalues[r.open_upvalues[i]].index # x
  PROVE  /\ InOrder(AddUpvalue(r, x))
         /\ ContinuedBy(r.upvalues, AddUpvalue(r, x).upvalues, {x})
         /\ Len(AddUpvalue(r, x).captured) = Len(r.captured) + 1
<1> DEFINE us    == r.upvalues
           open  == r.open_upvalues
           new   == Len(us) + 1
           place == Place(r, x)
           us2   == Append(us, [index |-> x])
           open2 == InsertAt(open, place, new)
           capt2 == Append(r.captured, new)
<1>1. /\ Len(us) \in Nat /\ DOMAIN us = 1 .. Len(us)
      /\ Len(open) \in Nat /\ DOMAIN open = 1 .. Len(open)
      /\ \A i \in 1 .. Len(open) :
           open[i] \in 1 .. Len(us) /\ IsOpen(us[open[i]]) /\ us[open[i]].index \in Nat
      /\ \A u \in DOMAIN us : IsOpen(us[u]) => \E i \in 1 .. Len(open) : open[i] = u
  BY ListedElements DEF InOrder
<1>2. /\ place \in 1 .. Len(open) + 1
      /\ \A i \in 1 .. Len(open) : i < place => us[open[i]].index < x
      /\ \A i \in 1 .. Len(open) : i >= place => us[open[i]].index > x
  BY <1>1, PlaceFacts DEF InOrder
<1>3. /\ IsSeq(us2) /\ Len(us2) = new /\ DOMAIN us2 = 1 .. new
      /\ \A u \in 1 .. Len(us) : us2[u] = us[u]
      /\ us2[new] = [index |-> x]
  BY AppendFacts DEF InOrder, Listed
<1>4. /\ IsSeq(open2) /\ Len(open2) = Len(open) + 1 /\ DOMAIN open2 = 1 .. Len(open) + 1
      /\ \A i \in 1 .. Len(open) + 1 :
           open2[i] = IF i < place THEN open[i] ELSE IF i = place THEN new ELSE open[i - 1]
  BY <1>2, InsertFacts DEF InOrder, Listed
<1>5. /\ IsSeq(capt2) /\ Len(capt2) = Len(r.captured) + 1
      /\ \A i \in 1 .. Len(r.captured) : capt2[i] = r.captured[i]
      /\ capt2[Len(r.captured) + 1] = new
      /\ Len(r.captured) \in Nat
  BY AppendFacts, SeqFacts DEF InOrder
<1>6. AddUpvalue(r, x) = [upvalues |-> us2, open_upvalues |-> open2, captured |-> capt2]
  BY DEF AddUpvalue
<1>7. IsOpen([index |-> x]) /\ [index |-> x].index = x
  BY DEF IsOpen
<1> HIDE DEF us2, open2, capt2, place
<1>8. Listed(us2, open2)
  <2>1. \A u \in DOMAIN us2 : IsOpen(us2[u]) => us2[u] \in [index : Nat]
    BY <1>1, <1>3 DEF InOrder, Listed
  <2>2. \A i \in 1 .. Len(open2) : open2[i] \in 1 .. new /\ IsOpen(us2[open2[i]])
    <3> TAKE i \in 1 .. Len(open2)
    <3>1. CASE i < place
      <4>1. i \in 1 .. Len(open) /\ open2[i] = open[i]
        BY <3>1, <1>1, <1>2, <1>4
      <4>2. open[i] \in 1 .. Len(us) /\ us2[open[i]] = us[open[i]]
        BY <4>1, <1>1, <1>3
      <4> QED
        BY <4>1, <4>2, <1>1
    <3>2. CASE i = place
      BY <3>2, <1>1, <1>2, <1>3, <1>4, <1>7
    <3>3. CASE i > place
      <4>1. i - 1 \in 1 .. Len(open) /\ open2[i] = open[i - 1]
        BY <3>3, <1>1, <1>2, <1>4
      <4>2. open[i - 1] \in 1 .. Len(us) /\ us2[open[i - 1]] = us[open[i - 1]]
        BY <4>1, <1>1, <1>3
      <4> QED
        BY <4>1, <4>2, <1>1
    <3> QED
      BY <3>1, <3>2, <3>3, <1>1, <1>2, <1>4
  <2>3. ASSUME NEW u \in DOMAIN us2, IsOpen(us2[u])
        PROVE  \E i \in 1 .. Len(open2) : open2[i] = u
    <3>1. CASE u = new
      BY <3>1, <1>1, <1>2, <1>4
    <3>2. CASE u # new
      <4>1. u \in 1 .. Len(us) /\ IsOpen(us[u])
        BY <3>2, <2>3, <1>1, <1>3
      <4>2. PICK i \in 1 .. Len(open) : open[i] = u
        BY <4>1, <1>1
      <4>3. CASE i < place
        BY <4>2, <4>3, <1>1, <1>4
      <4>4. CASE i >= place
        <5>1. i + 1 \in 1 .. Len(open2) /\ ~(i + 1 < place) /\ i + 1 # place /\ i + 1 - 1 = i
          BY <4>4, <1>1, <1>2, <1>4
        <5>2. open2[i + 1] = open[i]
          BY <5>1, <1>4
        <5> QED
          BY <5>1, <5>2, <4>2
      <4> QED
        BY <4>3, <4>4, <1>1, <1>2
    <3> QED
      BY <3>1, <3>2
  <2>4. Range(open2) = {u \in DOMAIN us2 : IsOpen(us2[u])}
    <3>1. DOMAIN open2 = 1 .. Len(open2)
      BY <1>4
    <3>2. Range(open2) \subseteq {u \in DOMAIN us2 : IsOpen(us2[u])}
      BY <2>2, <3>1, <1>3 DEF Range
    <3>3. {u \in DOMAIN us2 : IsOpen(us2[u])} \subseteq Range(open2)
      BY <2>3, <3>1 DEF Range
    <3> QED
      BY <3>2, <3>3
  <2>5. ASSUME NEW i \in 1 .. Len(open2), NEW j \in 1 .. Len(open2), i < j
        PROVE  us2[open2[i]].index < us2[open2[j]].index
    <3> DEFINE idx(k)  == us[open[k]].index
               idx2(k) == us2[open2[k]].index
    <3>1. /\ \A k \in 1 .. Len(open) : idx(k) \in Nat
          /\ \A k \in 1 .. Len(open) : IF k < place THEN idx(k) < x ELSE idx(k) > x
          /\ \A k, l \in 1 .. Len(open) : k < l => idx(k) < idx(l)
      BY <1>1, <1>2 DEF InOrder, Listed
    <3>2. \A k \in 1 .. Len(open) : us2[open[k]].index = idx(k)
      BY <1>1, <1>3
    <3>3. us2[new].index = x
      BY <1>3, <1>7
    <3>4. \A k \in 1 .. Len(open2) :
            idx2(k) = IF k < place THEN idx(k) ELSE IF k = place THEN x ELSE idx(k - 1)
      <4> TAKE k \in 1 .. Len(open2)
      <4>1. CASE k < place
        <5>1. k \in 1 .. Len(open) /\ open2[k] = open[k]
          BY <4>1, <1>1, <1>2, <1>4
        <5> QED
          BY <5>1, <4>1, <3>2
      <4>2. CASE k = place
        BY <4>2, <1>2, <1>4, <3>3
      <4>3. CASE k > place
        <5>1. k - 1 \in 1 .. Len(open) /\ open2[k] = open[k - 1]
          BY <4>3, <1>1, <1>2, <1>4
        <5>2. ~(k < place) /\ k # place
          BY <4>3, <1>1, <1>2, <1>4
        <5> QED
          BY <5>1, <5>2, <3>2
      <4> QED
        BY <4>1, <4>2, <4>3, <1>1, <1>2, <1>4
    <3> HIDE DEF idx, idx2
    <3>5. idx2(i) < idx2(j)
      <4>1. CASE j < place
        BY <2>5, <4>1, <3>1, <3>4, <1>1, <1>2, <1>4
      <4>2. CASE j = place
        BY <2>5, <4>2, <3>1, <3>4, <1>1, <1>2, <1>4
      <4>3. CASE j > place
        <5>1. j - 1 \in 1 .. Len(open) /\ j - 1 >= place /\ idx2(j) = idx(j - 1)
          BY <4>3, <3>4, <1>1, <1>2, <1>4
        <5>2. CASE i > place
          <6>1. i - 1 \in 1 .. Len(open) /\ i - 1 < j - 1 /\ idx2(i) = idx(i - 1)
            BY <2>5, <5>2, <3>4, <1>1, <1>2, <1>4
          <6> QED
            BY <5>1, <6>1, <3>1
        <5> QED
          BY <2>5, <5>1, <5>2, <3>1, <3>4, <1>1, <1>2, <1>4
      <4> QED
        BY <4>1, <4>2, <4>3, <1>1, <1>2, <1>4
    <3> QED
      BY <3>5 DEF idx2
  <2> QED
    BY <1>3, <1>4, <2>1, <2>4, <2>5 DEF Listed
<1>9. \A i \in 1 .. Len(capt2) : capt2[i] \in 1 .. Len(us2)
  BY <1>1, <1>3, <1>5 DEF InOrder
<1>10. ContinuedBy(us, us2, {x})
  BY <1>1, <1>3 DEF ContinuedBy
<1> QED
  BY <1>5, <1>6, <1>8, <1>9, <1>10 DEF InOrder

(* Capturing one variable keeps the list in order. *)
LEMMA AddOrGetUpvalueFacts ==
  ASSUME NEW r, InOrder(r), NEW x \in Nat
  PROVE  /\ InOrder(AddOrGetUpvalue(r, x))
         /\ ContinuedBy(r.upvalues, AddOrGetUpvalue(r, x).upvalues, {x})
         /\ Len(AddOrGetUpvalue(r, x).captured) = Len(r.captured) + 1
<1> DEFINE found == Found(r.upvalues, r.open_upvalues, x)
           shared == [r EXCEPT !.captured = Append(@, r.open_upvalues[found])]
<1>1. \/ found = 0 /\ \A i \in 1 .. Len(r.open_upvalues) :
                          r.upvalues[r.open_upvalues[i]].index # x
      \/ found \in 1 .. Len(r.open_upvalues)
  BY FoundFacts DEF InOrder
<1>2. AddOrGetUpvalue(r, x) = IF found = 0 THEN AddUpvalue(r, x) ELSE shared
  BY DEF AddOrGetUpvalue, Found
<1> HIDE DEF found
<1>3. CASE found = 0
  <2>1. Len(r.open_upvalues) \in Nat
    BY ListedElements DEF InOrder
  <2>2. \A i \in 1 .. Len(r.open_upvalues) : r.upvalues[r.open_upvalues[i]].index # x
    BY <1>1, <1>3, <2>1
  <2>3. AddOrGetUpvalue(r, x) = AddUpvalue(r, x)
    BY <1>2, <1>3
  <2> QED
    BY <2>2, <2>3, AddUpvalueFacts
<1>4. CASE found # 0
  <2>1. found \in 1 .. Len(r.open_upvalues) /\ r.open_upvalues[found] \in 1 .. Len(r.upvalues)
    BY <1>1, <1>4, ListedElements DEF InOrder
  <2> DEFINE capt == Append(r.captured, r.open_upvalues[found])
  <2>2. /\ shared = [upvalues |-> r.upvalues, open_upvalues |-> r.open_upvalues, captured |-> capt]
    BY SMTT(30) DEF InOrder
  <2>3. /\ IsSeq(capt) /\ Len(capt) = Len(r.captured) + 1 /\ Len(r.captured) \in Nat
        /\ \A i \in 1 .. Len(r.captured) : capt[i] = r.captured[i]
        /\ capt[Len(r.captured) + 1] = r.open_upvalues[found]
    BY AppendFacts, SeqFacts DEF InOrder
  <2> HIDE DEF capt, shared
  <2>4. InOrder(shared)
    BY <2>1, <2>2, <2>3 DEF InOrder
  <2>5. Len(r.upvalues) \in Nat
    BY ListedElements DEF InOrder
  <2> QED
    BY <1>2, <1>4, <2>2, <2>3, <2>4, <2>5 DEF ContinuedBy
<1> QED
  BY <1>3, <1>4

(* What continues a continuation continues the whole. *)
LEMMA ContinuedTwice ==
  ASSUME NEW us, NEW vs, NEW ws, NEW X, NEW Y,
         Len(us) \in Nat, Len(vs) \in Nat, Len(ws) \in Nat,
         ContinuedBy(us, vs, X), ContinuedBy(vs, ws, Y)
  PROVE  ContinuedBy(us, ws, X \cup Y)
<1>1. Len(us) <= Len(vs) /\ Len(vs) <= Len(ws)
  BY DEF ContinuedBy
<1>2. \A u \in 1 .. Len(us) : ws[u] = us[u]
  BY <1>1 DEF ContinuedBy
<1>3. ASSUME NEW u \in Len(us) + 1 .. Len(ws) PROVE ws[u] \in [index : X \cup Y]
  <2>1. CASE u <= Len(vs)
    <3>1. u \in Len(us) + 1 .. Len(vs) /\ u \in 1 .. Len(vs)
      BY <2>1
    <3>2. ws[u] = vs[u] /\ vs[u] \in [index : X]
      BY <3>1 DEF ContinuedBy
    <3> QED
      BY <3>2
  <2>2. CASE u > Len(vs)
    <3>1. u \in Len(vs) + 1 .. Len(ws)
      BY <2>2
    <3>2. ws[u] \in [index : Y]
      BY <3>1 DEF ContinuedBy
    <3> QED
      BY <3>2
  <2> QED
    BY <2>1, <2>2
<1> QED
  BY <1>1, <1>2, <1>3 DEF ContinuedBy

(* The loop's first state. *)
Start == [upvalues |-> upvalues, open_upvalues |-> open_upvalues, captured |-> <<>>]

(* The loop has a state after each of its steps; the last one is its result. *)
LEMMA CaptureLoop ==
  ASSUME Template.upvalue_count \in Nat
  PROVE  \E r : /\ r[0] = Start
                /\ \A n \in 0 .. Template.upvalue_count - 1 : r[n + 1] = Capture(r[n], n)
                /\ CaptureAll = r[Template.upvalue_count]
<1> DEFINE N == Template.upvalue_count
           Defines(g, m) ==
             g = [n \in 0 .. m |-> IF n = 0 THEN Start ELSE Capture(g[n - 1], n - 1)]
           S == {m \in Nat : \E g : Defines(g, m)}
           r == CHOOSE g : Defines(g, N)
<1> HIDE DEF N
<1>1. 0 \in S
  <2> DEFINE g == [n \in 0 .. 0 |-> Start]
  <2>1. Defines(g, 0)
    OBVIOUS
  <2> QED
    BY <2>1
<1>2. ASSUME NEW m \in Nat, m \in S PROVE m + 1 \in S
  <2>1. PICK g : Defines(g, m)
    BY <1>2
  <2> DEFINE h == [n \in 0 .. m + 1 |-> IF n <= m THEN g[n] ELSE Capture(g[m], m)]
  <2>2. \A n \in 0 .. m : h[n] = g[n]
    OBVIOUS
  <2>3. \A n \in 0 .. m + 1 : h[n] = IF n = 0 THEN Start ELSE Capture(h[n - 1], n - 1)
    <3> TAKE n \in 0 .. m + 1
    <3>1. CASE n = 0
      BY <2>1, <2>2, <3>1
    <3>2. CASE n \in 1 .. m
      <4>1. n - 1 \in 0 .. m /\ n \in 0 .. m
        BY <3>2
      <4>2. h[n] = g[n] /\ h[n - 1] = g[n - 1]
        BY <2>2, <4>1
      <4> QED
        BY <2>1, <3>2, <4>1, <4>2
    <3>3. CASE n = m + 1
      <4>1. h[n] = Capture(g[m], m)
        BY <3>3
      <4>2. h[n - 1] = g[m] /\ n - 1 = m /\ n # 0
        BY <3>3, <2>2
      <4> QED
        BY <4>1, <4>2
    <3> QED
      BY <3>1, <3>2, <3>3
  <2>4. Defines(h, m + 1)
    <3>1. h = [n \in 0 .. m + 1 |-> h[n]]
      OBVIOUS
    <3> HIDE DEF h
    <3> QED
      BY <2>3, <3>1
  <2> HIDE DEF h, Defines
  <2> QED
    BY <2>4
<1>3. N \in S
  <2> HIDE DEF S
  <2> QED
    BY <1>1, <1>2, Induction DEF N
<1>4. Defines(r, N)
  <2>1. \E g : Defines(g, N)
    BY <1>3
  <2> HIDE DEF Defines
  <2> QED
    BY <2>1
<1>5. CaptureAll = r[N]
  BY DEF CaptureAll, Start, N
<1>6. r[0] = Start
  <2> HIDE DEF r
  <2> QED
    BY <1>4, <1>3
<1>7. \A n \in 0 .. N - 1 : r[n + 1] = Capture(r[n], n)
  <2> HIDE DEF r
  <2> TAKE n \in 0 .. N - 1
  <2>1. n + 1 \in 0 .. N /\ n + 1 # 0 /\ n + 1 - 1 = n
    BY <1>3
  <2>2. \A k \in 0 .. N : r[k] = IF k = 0 THEN Start ELSE Capture(r[k - 1], k - 1)
    BY <1>4
  <2>3. r[n + 1] = Capture(r[n + 1 - 1], n + 1 - 1)
    BY <2>1, <2>2
  <2> QED
    BY <2>1, <2>3
<1> HIDE DEF r
<1> QED
  BY <1>5, <1>6, <1>7 DEF N

(* The stack indices of the variables that the new closure captures itself. *)
CapturedIndices ==
  {Frame.stack_offset + CaptureIndex(i) :
     i \in {j \in 0 .. Template.upvalue_count - 1 : IsLocal(j)}}

(* What the loop makes of a list in order. *)
LEMMA CaptureAllFacts ==
  ASSUME Template.upvalue_count \in Nat,
         Listed(upvalues, open_upvalues),
         Frame.stack_offset \in Nat,
         \A i \in 0 .. Template.upvalue_count - 1 :
           IF IsLocal(i) THEN CaptureIndex(i) \in Nat
           ELSE closures[Frame.closure].upvalues[CaptureIndex(i) + 1] \in 1 .. Len(upvalues)
  PROVE  /\ InOrder(CaptureAll)
         /\ ContinuedBy(upvalues, CaptureAll.upvalues, CapturedIndices)
         /\ Len(CaptureAll.captured) = Template.upvalue_count
<1> DEFINE N == Template.upvalue_count
<1>1. PICK r : /\ r[0] = Start
               /\ \A n \in 0 .. N - 1 : r[n + 1] = Capture(r[n], n)
               /\ CaptureAll = r[N]
  BY CaptureLoop
<1> DEFINE Good(n) == /\ InOrder(r[n])
                      /\ ContinuedBy(upvalues, r[n].upvalues, CapturedIndices)
                      /\ Len(r[n].captured) = n
           S == {n \in Nat : n <= N => Good(n)}
<1>2. Len(upvalues) \in Nat
  BY ListedElements
<1>3. 0 \in S
  <2>1. InOrder(Start)
    BY EmptyFacts DEF InOrder, Start
  <2>2. ContinuedBy(upvalues, upvalues, CapturedIndices)
    BY <1>2 DEF ContinuedBy
  <2>3. Start.upvalues = upvalues /\ Len(Start.captured) = 0
    BY DEF Start
  <2> QED
    BY <1>1, <2>1, <2>2, <2>3
<1>4. ASSUME NEW n \in Nat, n \in S PROVE n + 1 \in S
  <2> SUFFICES ASSUME n + 1 <= N PROVE Good(n + 1)
    OBVIOUS
  <2>1. n \in 0 .. N - 1 /\ Good(n)
    BY <1>4
  <2> DEFINE q == r[n]
  <2>2. r[n + 1] = Capture(q, n)
    BY <1>1, <2>1
  <2>3. Len(q.upvalues) \in Nat
    BY <2>1, ListedElements DEF InOrder
  <2>4. CASE IsLocal(n)
    <3> DEFINE x == Frame.stack_offset + CaptureIndex(n)
    <3>1. x \in Nat /\ x \in CapturedIndices
      BY <2>1, <2>4 DEF CapturedIndices
    <3>2. Capture(q, n) = AddOrGetUpvalue(q, x)
      BY <2>4 DEF Capture
    <3> HIDE DEF x
    <3>3. /\ InOrder(Capture(q, n))
          /\ ContinuedBy(q.upvalues, Capture(q, n).upvalues, {x})
          /\ Len(Capture(q, n).captured) = n + 1
      BY <2>1, <3>1, <3>2, AddOrGetUpvalueFacts
    <3>4. Len(Capture(q, n).upvalues) \in Nat
      BY <3>3, ListedElements DEF InOrder
    <3>5. CapturedIndices \cup {x} = CapturedIndices
      BY <3>1
    <3>6. ContinuedBy(upvalues, Capture(q, n).upvalues, CapturedIndices \cup {x})
      BY <1>2, <2>1, <2>3, <3>3, <3>4, ContinuedTwice
    <3> QED
      BY <2>2, <3>3, <3>5, <3>6
  <2>5. CASE ~IsLocal(n)
    <3> DEFINE e == closures[Frame.closure].upvalues[CaptureIndex(n) + 1]
               capt == Append(q.captured, e)
    <3>1. e \in 1 .. Len(upvalues) /\ Len(upvalues) <= Len(q.upvalues)
      BY <2>1, <2>5 DEF ContinuedBy
    <3>2. Capture(q, n) = [q EXCEPT !.captured = capt]
      BY <2>5 DEF Capture
    <3> HIDE DEF e
    <3>3. Capture(q, n) =
            [upvalues |-> q.upvalues, open_upvalues |-> q.open_upvalues, captured |-> capt]
      BY <3>2, <2>1 DEF InOrder
    <3>4. /\ IsSeq(capt) /\ Len(capt) = n + 1
          /\ \A i \in 1 .. n : capt[i] = q.captured[i]
          /\ capt[n + 1] = e
      BY <2>1, AppendFacts DEF InOrder
    <3> HIDE DEF capt
    <3>5. InOrder(Capture(q, n))
      <4>1. ASSUME NEW i \in 1 .. n + 1 PROVE capt[i] \in 1 .. Len(q.upvalues)
        <5>1. CASE i <= n
          <6>1. i \in 1 .. Len(q.captured) /\ capt[i] = q.captured[i]
            BY <5>1, <2>1, <3>4
          <6> QED
            BY <6>1, <2>1 DEF InOrder
        <5>2. CASE i = n + 1
          BY <5>2, <1>2, <2>3, <3>1, <3>4
        <5> QED
          BY <5>1, <5>2
      <4> QED
        BY <2>1, <3>3, <3>4, <4>1 DEF InOrder
    <3> QED
      BY <2>1, <2>2, <3>3, <3>4, <3>5
  <2> QED
    BY <2>4, <2>5
<1>5. N \in S
  <2> HIDE DEF S
  <2> QED
    BY <1>3, <1>4, Induction
<1> QED
  BY <1>1, <1>5

-----------------------------------------------------------------------------
(* Closing upvalues. *)

(* What is at last or above is closed, and the list stays in order. *)
LEMMA CloseUpvaluesFacts ==
  ASSUME Listed(upvalues, open_upvalues), NEW last \in Int, CloseUpvalues(last)
  PROVE  /\ Listed(upvalues', open_upvalues')
         /\ Len(upvalues') = Len(upvalues) /\ DOMAIN upvalues' = DOMAIN upvalues
         /\ \A u \in DOMAIN upvalues :
              upvalues'[u] = IF IsOpen(upvalues[u]) /\ upvalues[u].index >= last
                             THEN [value |-> Get(upvalues[u].index)] ELSE upvalues[u]
<1> DEFINE us == upvalues
           open == open_upvalues
           kept == Kept(last)
<1>1. /\ Len(us) \in Nat /\ DOMAIN us = 1 .. Len(us)
      /\ Len(open) \in Nat /\ DOMAIN open = 1 .. Len(open)
      /\ \A i \in 1 .. Len(open) :
           open[i] \in 1 .. Len(us) /\ IsOpen(us[open[i]]) /\ us[open[i]].index \in Nat
      /\ \A u \in DOMAIN us : IsOpen(us[u]) => \E i \in 1 .. Len(open) : open[i] = u
  BY ListedElements
<1>2. /\ kept \in 0 .. Len(open)
      /\ \A i \in 1 .. Len(open) : i <= kept <=> us[open[i]].index < last
  BY KeptFacts
<1> HIDE DEF kept
<1>3. \A u \in DOMAIN us : u \in Closing(last) <=> IsOpen(us[u]) /\ us[u].index >= last
  <2> TAKE u \in DOMAIN us
  <2>1. u \in Closing(last) <=> \E i \in kept + 1 .. Len(open) : open[i] = u
    BY DEF Closing, kept
  <2>2. ASSUME NEW i \in kept + 1 .. Len(open), open[i] = u
        PROVE  IsOpen(us[u]) /\ us[u].index >= last
    <3>1. i \in 1 .. Len(open) /\ ~(i <= kept)
      BY <1>2
    <3> QED
      BY <3>1, <2>2, <1>1, <1>2
  <2>3. ASSUME IsOpen(us[u]), us[u].index >= last
        PROVE  \E i \in kept + 1 .. Len(open) : open[i] = u
    <3>1. PICK i \in 1 .. Len(open) : open[i] = u
      BY <2>3, <1>1
    <3>2. us[u].index \in Nat
      BY <3>1, <1>1
    <3>3. ~(i <= kept)
      BY <3>1, <3>2, <2>3, <1>2
    <3> QED
      BY <3>1, <3>3, <1>2
  <2> QED
    BY <2>1, <2>2, <2>3
<1>4. /\ DOMAIN upvalues' = 1 .. Len(us)
      /\ upvalues' = [u \in 1 .. Len(us) |-> upvalues'[u]]
      /\ \A u \in DOMAIN us :
           upvalues'[u] = IF IsOpen(us[u]) /\ us[u].index >= last
                          THEN [value |-> Get(us[u].index)] ELSE us[u]
  BY <1>1, <1>3 DEF CloseUpvalues
<1>5. IsSeq(upvalues') /\ Len(upvalues') = Len(us)
  BY <1>1, <1>4, FunctionIsSeq
<1>6. /\ IsSeq(open_upvalues') /\ Len(open_upvalues') = kept /\ DOMAIN open_upvalues' = 1 .. kept
      /\ \A i \in 1 .. kept : open_upvalues'[i] = open[i]
  <2>1. open_upvalues' = SubSeq(open, 1, kept)
    BY DEF CloseUpvalues, kept
  <2>2. IsSeq(open)
    BY DEF Listed
  <2> QED
    BY <1>2, <2>1, <2>2, PrefixFacts
<1>7. \A x : ~IsOpen([value |-> x])
  BY DEF IsOpen
<1>8. \A i \in 1 .. kept : upvalues'[open[i]] = us[open[i]] /\ open[i] \in DOMAIN us
  <2> TAKE i \in 1 .. kept
  <2>1. i \in 1 .. Len(open) /\ us[open[i]].index < last
    BY <1>2
  <2> QED
    BY <2>1, <1>1, <1>4
<1>9. Range(open_upvalues') = {u \in DOMAIN upvalues' : IsOpen(upvalues'[u])}
  <2>1. ASSUME NEW i \in 1 .. kept
        PROVE  open[i] \in DOMAIN upvalues' /\ IsOpen(upvalues'[open[i]])
    BY <1>1, <1>2, <1>4, <1>8
  <2>2. ASSUME NEW u \in DOMAIN upvalues', IsOpen(upvalues'[u])
        PROVE  \E i \in 1 .. kept : open[i] = u
    <3>1. u \in DOMAIN us /\ IsOpen(us[u]) /\ ~(us[u].index >= last)
      BY <2>2, <1>1, <1>4, <1>7
    <3>2. PICK i \in 1 .. Len(open) : open[i] = u
      BY <3>1, <1>1
    <3>3. us[open[i]].index < last
      BY <3>1, <3>2, <1>1
    <3> QED
      BY <3>2, <3>3, <1>2
  <2> QED
    BY <2>1, <2>2, <1>6 DEF Range
<1>10. \A u \in DOMAIN upvalues' : IsOpen(upvalues'[u]) => upvalues'[u] \in [index : Nat]
  BY <1>1, <1>4, <1>7 DEF Listed
<1>11. ASSUME NEW i \in 1 .. kept, NEW j \in 1 .. kept, i < j
       PROVE  upvalues'[open[i]].index < upvalues'[open[j]].index
  <2>1. i \in DOMAIN open /\ j \in DOMAIN open
    BY <1>1, <1>2
  <2>2. us[open[i]].index < us[open[j]].index
    BY <2>1, <1>11 DEF Listed
  <2> QED
    BY <2>2, <1>8
<1>12. Listed(upvalues', open_upvalues')
  BY <1>5, <1>6, <1>9, <1>10, <1>11 DEF Listed
<1> QED
  BY <1>1, <1>4, <1>5, <1>12

-----------------------------------------------------------------------------
(* Instructions *)

(* The inductive invariant: types, and the list of open upvalues. *)
MachineInv == TypeOK /\ OpenUpvaluesOrdered /\ IsProgram(functions)

(* The invariant in the terms of the lemmas above. *)
LEMMA MachineFacts ==
  ASSUME MachineInv
  PROVE  /\ Listed(upvalues, open_upvalues)
         /\ IsSeq(stack) /\ Len(stack) \in Nat /\ DOMAIN stack = 1 .. Len(stack)
         /\ Len(closures) \in Nat /\ DOMAIN closures = 1 .. Len(closures)
         /\ \A c \in DOMAIN closures :
              closures[c] \in [function : DOMAIN functions, upvalues : Seq(DOMAIN upvalues)]
         /\ Len(call_frames) \in Nat /\ DOMAIN call_frames = 1 .. Len(call_frames)
         /\ \A i \in DOMAIN call_frames :
              call_frames[i] \in CallFrame
<1>1. Listed(upvalues, open_upvalues)
  <2>1. IsSeq(upvalues) /\ IsSeq(open_upvalues)
    BY SeqIsSeq DEF MachineInv, TypeOK, IsSeq
  <2>2. ASSUME NEW u \in DOMAIN upvalues, IsOpen(upvalues[u])
        PROVE  upvalues[u] \in [index : Nat]
    <3>1. upvalues[u] \in Range(upvalues)
      BY DEF Range
    <3>2. \/ upvalues[u] \in [index : Nat]
          \/ upvalues[u] \in [value : {upvalues[u].value}]
      BY <3>1 DEF MachineInv, TypeOK, IsUpvalue
    <3>3. DOMAIN upvalues[u] = {"index"}
      BY <2>2 DEF IsOpen
    <3> QED
      BY <3>2, <3>3
  <2> QED
    BY <2>1, <2>2 DEF MachineInv, OpenUpvaluesOrdered, Listed
<1>2. IsSeq(stack)
  BY DEF MachineInv, TypeOK, IsSeq
<1>3. /\ Len(closures) \in Nat /\ DOMAIN closures = 1 .. Len(closures)
      /\ \A c \in DOMAIN closures :
           closures[c] \in [function : DOMAIN functions, upvalues : Seq(DOMAIN upvalues)]
  BY LenProperties, ElementOfSeq DEF MachineInv, TypeOK
<1>4. /\ Len(call_frames) \in Nat /\ DOMAIN call_frames = 1 .. Len(call_frames)
      /\ \A i \in DOMAIN call_frames :
           call_frames[i] \in CallFrame
  BY LenProperties, ElementOfSeq DEF MachineInv, TypeOK
<1> QED
  BY <1>1, <1>2, <1>3, <1>4, SeqFacts

(* Opcodes and their operands. *)
LEMMA OpcodeFacts ==
  /\ \A b \in DOMAIN Named : Named[b] \in OpCode
  /\ \A op \in OpCode : Operands[op] \in 0 .. 2
<1>1. Len(OpCodes) = 30
  BY DEF OpCodes
<1>2. DOMAIN OpCodes = 1 .. 30
  BY DEF OpCodes
<1>3. ASSUME NEW b \in DOMAIN Named PROVE Named[b] \in OpCode
  <2> HIDE DEF OpCodes
  <2>1. b \in 0 .. 30 - 1
    BY <1>1 DEF Named
  <2>2. b + 1 \in DOMAIN OpCodes /\ Named[b] = OpCodes[b + 1]
    BY <1>1, <1>2, <2>1 DEF Named
  <2> QED
    BY <2>2 DEF OpCode
<1>4. ASSUME NEW op \in OpCode PROVE Operands[op] \in 0 .. 2
  BY DEF Operands
<1> QED
  BY <1>3, <1>4

(* What an instruction that is executed finds. *)
LEMMA InstructionFacts ==
  ASSUME MachineInv, NEW ops, Fetch(ops)
  PROVE  /\ status = "running"
         /\ Opcode \in ops /\ Opcode \in OpCode /\ Operands[Opcode] \in 0 .. 2
         /\ Size_ \in Nat /\ Size_ >= Needed(Opcode)
         /\ Len(call_frames) \in Nat \ {0} /\ Frame \in CallFrame
         /\ closures[Frame.closure].function \in DOMAIN functions
         /\ closures[Frame.closure].upvalues \in Seq(DOMAIN upvalues)
         /\ CurrFun.code \in Seq(Nat)
         /\ Ip \in Nat /\ Ip + Operands[Opcode] < Len(CurrFun.code)
         /\ Operands[Opcode] >= 1 => Operand \in Nat
         /\ Operands[Opcode] >= 2 => Uint16(CurrFun.code, Ip + 1) \in Int
         /\ \A k \in Nat : k < Len(CurrFun.constants) =>
              IsConstant(functions, CurrFun.constants[k + 1])
<1>1. /\ status = "running" /\ Defined /\ ~Erroneous /\ Opcode \in ops
  BY DEF Fetch
<1>2. Len(call_frames) \in Nat \ {0} /\ Frame \in CallFrame
  <2>1. call_frames # <<>> /\ call_frames \in Seq(CallFrame)
    BY <1>1 DEF MachineInv, TypeOK, CallFrame
  <2>2. Len(call_frames) \in Nat \ {0}
    BY <2>1, EmptySeq
  <2> QED
    BY <2>1, <2>2, ElementOfSeq DEF Frame, Last
<1>3. /\ closures[Frame.closure].function \in DOMAIN functions
      /\ closures[Frame.closure].upvalues \in Seq(DOMAIN upvalues)
  BY <1>2, MachineFacts DEF CallFrame
<1>4. /\ CurrFun.code \in Seq(Nat)
      /\ CurrFun.constants \in Seq(Range(CurrFun.constants))
      /\ \A v \in Range(CurrFun.constants) : IsConstant(functions, v)
  BY <1>3 DEF MachineInv, IsProgram, CurrFun, FunctionOf
<1>5. At(CurrFun.code, Ip) \in DOMAIN Named
  BY <1>1 DEF Erroneous
<1>6. Opcode \in OpCode /\ Operands[Opcode] \in 0 .. 2
  BY <1>5, OpcodeFacts DEF Opcode
<1>7. /\ Ip \in 0 .. Len(CurrFun.code) - 1
      /\ Ip + Operands[Opcode] < Len(CurrFun.code)
      /\ Size_ >= Needed(Opcode)
  BY <1>1, <1>5 DEF Defined
<1>8. Len(CurrFun.code) \in Nat
  BY <1>4, LenProperties
<1>9. Ip \in Nat
  BY <1>7, <1>8
<1>10. Operands[Opcode] >= 1 => Operand \in Nat
  <2> HAVE Operands[Opcode] >= 1
  <2>1. Ip + 2 \in 1 .. Len(CurrFun.code)
    BY <1>6, <1>7, <1>8, <1>9
  <2> QED
    BY <2>1, <1>4, <1>9, ElementOfSeq DEF Operand, At
<1>11. Operands[Opcode] >= 2 => Uint16(CurrFun.code, Ip + 1) \in Int
  <2> HAVE Operands[Opcode] >= 2
  <2>1. Ip + 2 \in 1 .. Len(CurrFun.code) /\ Ip + 3 \in 1 .. Len(CurrFun.code)
    BY <1>6, <1>7, <1>8, <1>9
  <2>2. CurrFun.code[Ip + 2] \in Nat /\ CurrFun.code[Ip + 3] \in Nat
    BY <2>1, <1>4, ElementOfSeq
  <2>3. At(CurrFun.code, Ip + 1) \in Nat /\ At(CurrFun.code, Ip + 1 + 1) \in Nat
    BY <2>2, <1>9 DEF At
  <2> QED
    BY <2>3, ByteAssumption DEF Uint16
<1>12. ASSUME NEW k \in Nat, k < Len(CurrFun.constants)
       PROVE  IsConstant(functions, CurrFun.constants[k + 1])
  <2>1. k + 1 \in 1 .. Len(CurrFun.constants)
    BY <1>4, <1>12, LenProperties
  <2> QED
    BY <2>1, <1>4, ElementOfSeq
<1>13. Size_ \in Nat
  BY MachineFacts DEF Size_
<1> QED
  BY <1>1, <1>2, <1>3, <1>4, <1>6, <1>7, <1>9, <1>10, <1>11, <1>12, <1>13

(* What Proceed does to the frames. *)
LEMMA ProceedFacts ==
  ASSUME MachineInv, NEW ops, Fetch(ops), NEW further \in Int, Proceed(further)
  PROVE  /\ call_frames' \in Seq(CallFrame)
         /\ Len(call_frames') = Len(call_frames)
         /\ \A i \in 1 .. Len(call_frames) - 1 : call_frames'[i] = call_frames[i]
         /\ call_frames'[Len(call_frames)] =
              [Frame EXCEPT !.ip = Ip + 1 + Operands[Opcode] + further]
<1>1. /\ Len(call_frames) \in Nat \ {0} /\ Frame \in CallFrame
      /\ Ip \in Nat /\ Operands[Opcode] \in Int
  BY InstructionFacts
<1>2. call_frames \in Seq(CallFrame)
  BY DEF MachineInv, TypeOK, CallFrame
<1> DEFINE n  == Len(call_frames)
           ip == Ip + 1 + Operands[Opcode] + further
           fr == [Frame EXCEPT !.ip = ip]
<1>3. fr \in CallFrame
  BY <1>1 DEF CallFrame
<1>4. call_frames' = [call_frames EXCEPT ![n] = fr]
  BY DEF Proceed, Frame, Last, Ip
<1> HIDE DEF fr
<1>5. /\ [call_frames EXCEPT ![n] = fr] \in Seq(CallFrame)
      /\ Len([call_frames EXCEPT ![n] = fr]) = n
      /\ \A j \in 1 .. n : [call_frames EXCEPT ![n] = fr][j] = IF j = n THEN fr ELSE call_frames[j]
  BY <1>1, <1>2, <1>3, ExceptSeq
<1>6. /\ call_frames' \in Seq(CallFrame)
      /\ Len(call_frames') = n
      /\ \A j \in 1 .. n : call_frames'[j] = IF j = n THEN fr ELSE call_frames[j]
  BY <1>4, <1>5
<1> QED
  BY <1>1, <1>6 DEF fr

(* Instructions that make no closure and leave upvalues alone. *)
LEMMA QuietStep ==
  ASSUME MachineInv, status = "running",
         UNCHANGED <<functions, status, closures, upvalues, open_upvalues>>,
         IsSeq(stack'), \A v \in Range(stack') : IsValue(v),
         call_frames' \in Seq(CallFrame), Len(call_frames') \in 1 .. MAX_CALLSTACK_DEPTH,
         "clock" \in DOMAIN globals', \A v \in Range(globals') : IsValue(v)
  PROVE  MachineInv'
<1>1. \A v : IsValue(v)' <=> IsValue(v)
  BY DEF IsValue
<1>2. call_frames' # <<>>
  BY EmptyFacts
<1>3. TypeOK'
  <2>1. stack' \in Seq(Range(stack')) /\ \A v \in Range(stack') : IsValue(v)'
    BY <1>1 DEF IsSeq
  <2>2. call_frames' \in Seq(CallFrame') /\ Len(call_frames') <= MAX_CALLSTACK_DEPTH
    BY DepthAssumption DEF CallFrame
  <2>3. \A v \in Range(globals') : IsValue(v)'
    BY <1>1
  <2>4. \A u \in Range(upvalues') : IsUpvalue(u)'
    BY <1>1 DEF MachineInv, TypeOK, IsUpvalue
  <2>5. UNCHANGED <<closures, open_upvalues, upvalues, functions, status>>
    OBVIOUS
  <2> QED
    BY <1>2, <2>1, <2>2, <2>3, <2>4, <2>5 DEF MachineInv, TypeOK, IsOpen
<1>4. OpenUpvaluesOrdered' /\ IsProgram(functions)'
  BY DEF MachineInv, OpenUpvaluesOrdered, IsOpen
<1> QED
  BY <1>3, <1>4 DEF MachineInv

(* Values on the stack, and those that instructions make. *)
LEMMA ValueFacts ==
  ASSUME MachineInv
  PROVE  /\ \A v \in Range(stack) : IsValue(v)
         /\ \A i \in 1 .. Size_ : stack[i] \in Range(stack) /\ IsValue(stack[i])
         /\ \A n \in 0 .. Size_ - 1 : Peek(n) \in Range(stack) /\ IsValue(Peek(n))
         /\ \A b : IsValue(Bool(b)) /\ IsValue(Num(b)) /\ IsValue(Str(b))
         /\ IsValue(Nil)
         /\ \A v : IsConstant(functions, v) => IsValue(v)
<1>1. /\ \A v \in Range(stack) : IsValue(v)
      /\ \A i \in 1 .. Size_ : stack[i] \in Range(stack) /\ IsValue(stack[i])
      /\ Size_ \in Nat
  BY MachineFacts, SeqFacts DEF MachineInv, TypeOK, Size_
<1>2. \A n \in 0 .. Size_ - 1 : Peek(n) \in Range(stack) /\ IsValue(Peek(n))
  <2> TAKE n \in 0 .. Size_ - 1
  <2>1. Size_ - n \in 1 .. Size_
    BY <1>1
  <2> QED
    BY <1>1, <2>1 DEF Peek
<1>3. \A b : IsValue(Bool(b)) /\ IsValue(Num(b)) /\ IsValue(Str(b))
  BY DEF IsValue, Bool, Num, Str
<1>4. IsValue(Nil)
  BY DEF IsValue, Nil
<1>5. \A v : IsConstant(functions, v) => IsValue(v)
  BY DEF IsConstant, IsValue, IsNum, IsStr
<1> QED
  BY <1>1, <1>2, <1>3, <1>4, <1>5

(* Pushing, dropping and replacing values on the stack. *)
LEMMA StackFacts ==
  ASSUME MachineInv, NEW n \in 0 .. Size_, NEW v, IsValue(v)
  PROVE  /\ IsSeq(Dropped(n)) /\ Len(Dropped(n)) = Size_ - n
         /\ \A i \in 1 .. Size_ - n : Dropped(n)[i] = stack[i]
         /\ \A w \in Range(Dropped(n)) : IsValue(w)
         /\ IsSeq(Append(Dropped(n), v)) /\ Len(Append(Dropped(n), v)) = Size_ - n + 1
         /\ \A i \in 1 .. Size_ - n : Append(Dropped(n), v)[i] = stack[i]
         /\ Append(Dropped(n), v)[Size_ - n + 1] = v
         /\ \A w \in Range(Append(Dropped(n), v)) : IsValue(w)
<1>1. IsSeq(stack) /\ Size_ \in Nat
  BY MachineFacts DEF Size_
<1>2. \A w \in Range(stack) : IsValue(w)
  BY ValueFacts
<1>3. Size_ - n \in 0 .. Len(stack)
  BY <1>1 DEF Size_
<1>4. /\ IsSeq(Dropped(n)) /\ Len(Dropped(n)) = Size_ - n
      /\ \A i \in 1 .. Size_ - n : Dropped(n)[i] = stack[i]
      /\ Range(Dropped(n)) \subseteq Range(stack)
  BY <1>1, <1>3, PrefixFacts DEF Dropped
<1>5. /\ IsSeq(Append(Dropped(n), v)) /\ Len(Append(Dropped(n), v)) = Size_ - n + 1
      /\ \A i \in 1 .. Size_ - n : Append(Dropped(n), v)[i] = Dropped(n)[i]
      /\ Append(Dropped(n), v)[Size_ - n + 1] = v
      /\ Range(Append(Dropped(n), v)) = Range(Dropped(n)) \cup {v}
  BY <1>4, AppendFacts
<1> QED
  BY <1>2, <1>4, <1>5

(* push leaves what is below alone, and the stack is one longer. *)
LEMMA PushFacts ==
  ASSUME MachineInv, NEW v, IsValue(v)
  PROVE  /\ IsSeq(Pushed(v)) /\ Len(Pushed(v)) = Size_ + 1
         /\ \A i \in 1 .. Size_ : Pushed(v)[i] = stack[i]
         /\ Pushed(v)[Size_ + 1] = v
         /\ \A w \in Range(Pushed(v)) : IsValue(w)
<1>1. IsSeq(stack) /\ \A w \in Range(stack) : IsValue(w)
  BY MachineFacts, ValueFacts
<1> QED
  BY <1>1, AppendFacts DEF Pushed, Size_

(* What an upvalue in use holds. *)
LEMMA UpvalueFacts ==
  ASSUME MachineInv, NEW u \in DOMAIN upvalues
  PROVE  /\ IsOpen(upvalues[u]) => upvalues[u].index \in Nat
         /\ ~IsOpen(upvalues[u]) =>
              upvalues[u] \in [value : {upvalues[u].value}] /\ IsValue(upvalues[u].value)
         /\ Readable(u) => IsValue(ValueOf(u))
<1>1. IsUpvalue(upvalues[u])
  <2>1. upvalues[u] \in Range(upvalues)
    BY DEF Range
  <2> QED
    BY <2>1 DEF MachineInv, TypeOK
<1>2. IsOpen(upvalues[u]) => upvalues[u].index \in Nat
  BY MachineFacts DEF Listed
<1>3. ~IsOpen(upvalues[u]) =>
        upvalues[u] \in [value : {upvalues[u].value}] /\ IsValue(upvalues[u].value)
  BY <1>1 DEF IsUpvalue, IsOpen
<1>4. ASSUME Readable(u), IsOpen(upvalues[u]) PROVE IsValue(Get(upvalues[u].index))
  <2>1. upvalues[u].index + 1 \in 1 .. Size_
    BY <1>2, <1>4, MachineFacts DEF Readable, Size_
  <2> QED
    BY <2>1, ValueFacts DEF Get
<1> QED
  BY <1>2, <1>3, <1>4 DEF ValueOf

-----------------------------------------------------------------------------
(* One lemma per kind of instruction *)

(* The globals a step leaves alone are values. *)
LEMMA GlobalFacts ==
  ASSUME MachineInv
  PROVE  "clock" \in DOMAIN globals /\ \A v \in Range(globals) : IsValue(v)
BY DEF MachineInv, TypeOK

(* The instruction at hand as its operands count. *)
LEMMA OperandFacts ==
  ASSUME Opcode \in OpCode
  PROVE  /\ Opcode \in {"OP_CONSTANT", "OP_GET_LOCAL", "OP_SET_LOCAL", "OP_GET_GLOBAL",
                        "OP_DEFINE_GLOBAL", "OP_SET_GLOBAL", "OP_CALL", "OP_CLOSURE",
                        "OP_NOOP", "OP_GET_UPVALUE", "OP_SET_UPVALUE"} => Operands[Opcode] = 1
         /\ Opcode \in {"OP_JUMP_IF_FALSE", "OP_JUMP", "OP_LOOP"} => Operands[Opcode] = 2
         /\ Opcode \notin {"OP_CONSTANT", "OP_GET_LOCAL", "OP_SET_LOCAL", "OP_GET_GLOBAL",
                           "OP_DEFINE_GLOBAL", "OP_SET_GLOBAL", "OP_CALL", "OP_CLOSURE",
                           "OP_NOOP", "OP_GET_UPVALUE", "OP_SET_UPVALUE",
                           "OP_JUMP_IF_FALSE", "OP_JUMP", "OP_LOOP"} => Operands[Opcode] = 0
BY DEF Operands

(* The frames after an instruction that proceeds. *)
LEMMA ProceedTypes ==
  ASSUME MachineInv, NEW ops, Fetch(ops), NEW further \in Int, Proceed(further)
  PROVE  /\ call_frames' \in Seq(CallFrame)
         /\ Len(call_frames') \in 1 .. MAX_CALLSTACK_DEPTH
<1>1. Len(call_frames) \in Nat \ {0}
  BY InstructionFacts
<1>2. Len(call_frames) <= MAX_CALLSTACK_DEPTH
  BY DEF MachineInv, TypeOK
<1>3. call_frames' \in Seq(CallFrame) /\ Len(call_frames') = Len(call_frames)
  BY ProceedFacts
<1> QED
  BY <1>1, <1>2, <1>3, DepthAssumption

(* Jumps, taken or not, keep the invariant. *)
LEMMA JumpTypes == MachineInv /\ Jump => MachineInv'
<1> SUFFICES ASSUME MachineInv, Jump PROVE MachineInv'
  OBVIOUS
<1>1. Fetch({"OP_JUMP_IF_FALSE", "OP_JUMP", "OP_LOOP"}) /\ Proceed(Distance)
  BY DEF Jump
<1>2. Distance \in Int /\ status = "running"
  <2>1. /\ Opcode \in {"OP_JUMP_IF_FALSE", "OP_JUMP", "OP_LOOP"} /\ Opcode \in OpCode
        /\ Operands[Opcode] >= 2 => Uint16(CurrFun.code, Ip + 1) \in Int
        /\ status = "running"
    BY <1>1, InstructionFacts
  <2>2. Uint16(CurrFun.code, Ip + 1) \in Int
    BY <2>1, OperandFacts
  <2> QED
    BY <2>1, <2>2 DEF Distance
<1>3. call_frames' \in Seq(CallFrame) /\ Len(call_frames') \in 1 .. MAX_CALLSTACK_DEPTH
  BY <1>1, <1>2, ProceedTypes
<1> QED
  BY <1>2, <1>3, QuietStep, GlobalFacts, MachineFacts, ValueFacts DEF Jump, Quiet

(* Constants, variables and literals that an instruction loads are values. *)
LEMMA LoadedIsValue ==
  ASSUME MachineInv,
         Fetch({"OP_CONSTANT", "OP_NIL", "OP_TRUE", "OP_FALSE", "OP_GET_LOCAL",
                "OP_GET_UPVALUE", "OP_GET_GLOBAL"})
  PROVE  IsValue(Loaded)
<1>1. /\ Opcode \in {"OP_CONSTANT", "OP_NIL", "OP_TRUE", "OP_FALSE", "OP_GET_LOCAL",
                     "OP_GET_UPVALUE", "OP_GET_GLOBAL"}
      /\ Opcode \in OpCode
      /\ Operands[Opcode] >= 1 => Operand \in Nat
      /\ Frame \in CallFrame
  BY InstructionFacts
<1>2. Defined /\ ~Erroneous /\ At(CurrFun.code, Ip) \in DOMAIN Named
  BY DEF Fetch, Erroneous
<1>3. Opcode \in {"OP_CONSTANT", "OP_GET_LOCAL", "OP_GET_UPVALUE", "OP_GET_GLOBAL"} =>
        Operand \in Nat
  BY <1>1, OperandFacts
<1>4. CASE Opcode = "OP_CONSTANT"
  <2>1. Operand < Len(CurrFun.constants)
    BY <1>2, <1>4 DEF Defined
  <2>2. IsConstant(functions, Constant)
    BY <1>3, <1>4, <2>1, InstructionFacts DEF Constant
  <2>3. Loaded = Constant
    BY <1>4 DEF Loaded
  <2> QED
    BY <2>2, <2>3, ValueFacts
<1>5. CASE Opcode = "OP_GET_LOCAL"
  <2>1. Slot < Size_
    BY <1>2, <1>5 DEF Defined
  <2>2. Slot \in Nat
    BY <1>1, <1>3, <1>5 DEF Slot, CallFrame
  <2>3. IsValue(Get(Slot))
    BY <2>1, <2>2, MachineFacts, ValueFacts DEF Get, Size_
  <2>4. Loaded = Get(Slot)
    BY <1>5 DEF Loaded
  <2> QED
    BY <2>3, <2>4
<1>6. CASE Opcode = "OP_GET_UPVALUE"
  <2>1. Operand < Len(closures[Frame.closure].upvalues) /\ Readable(Captured)
    BY <1>2, <1>6 DEF Defined
  <2>2. closures[Frame.closure].upvalues \in Seq(DOMAIN upvalues)
    BY InstructionFacts
  <2>3. Operand + 1 \in 1 .. Len(closures[Frame.closure].upvalues)
    BY <1>3, <1>6, <2>1, <2>2, LenProperties
  <2>4. Captured \in DOMAIN upvalues
    BY <2>2, <2>3, ElementOfSeq DEF Captured
  <2>5. Loaded = ValueOf(Captured)
    BY <1>6 DEF Loaded
  <2> QED
    BY <2>1, <2>4, <2>5, UpvalueFacts
<1>7. CASE Opcode = "OP_GET_GLOBAL"
  <2>1. Constant.str \in DOMAIN globals
    BY <1>2, <1>7 DEF Erroneous
  <2>2. Loaded = globals[Constant.str]
    BY <1>7 DEF Loaded
  <2> QED
    BY <2>1, <2>2, GlobalFacts DEF Range
<1>8. CASE Opcode \in {"OP_NIL", "OP_TRUE", "OP_FALSE"}
  BY <1>8, ValueFacts DEF Loaded
<1> QED
  BY <1>1, <1>4, <1>5, <1>6, <1>7, <1>8

(* Instructions that push a constant, a variable or a literal keep it. *)
LEMMA PushTypes == MachineInv /\ Push => MachineInv'
<1> SUFFICES ASSUME MachineInv, Push PROVE MachineInv'
  OBVIOUS
<1> DEFINE ops == {"OP_CONSTANT", "OP_NIL", "OP_TRUE", "OP_FALSE", "OP_GET_LOCAL",
                   "OP_GET_UPVALUE", "OP_GET_GLOBAL"}
<1>1. Fetch(ops) /\ Proceed(0) /\ stack' = Pushed(Loaded) /\ Quiet
  BY DEF Push
<1>2. IsValue(Loaded)
  BY <1>1, LoadedIsValue
<1>3. IsSeq(stack') /\ \A w \in Range(stack') : IsValue(w)
  BY <1>1, <1>2, PushFacts
<1> HIDE DEF ops
<1>4. /\ call_frames' \in Seq(CallFrame) /\ Len(call_frames') \in 1 .. MAX_CALLSTACK_DEPTH
      /\ status = "running"
  BY <1>1, ProceedTypes, InstructionFacts
<1> QED
  BY <1>1, <1>3, <1>4, QuietStep, GlobalFacts DEF Quiet

(* Instructions that take values off the stack, or leave it alone. *)
LEMMA SimpleTypes == MachineInv /\ (PrintTop \/ Pop \/ Noop) => MachineInv'
<1> SUFFICES ASSUME MachineInv, PrintTop \/ Pop \/ Noop PROVE MachineInv'
  OBVIOUS
<1>1. PICK ops \in {{"OP_PRINT"}, {"OP_POP"}, {"OP_NOOP"}} : Fetch(ops)
  BY DEF PrintTop, Pop, Noop
<1>2. Proceed(0) /\ UNCHANGED <<functions, status, closures, upvalues, open_upvalues, globals>>
  BY DEF PrintTop, Pop, Noop, Quiet
<1>3. status = "running" /\ Opcode \in ops /\ Size_ >= Needed(Opcode) /\ Size_ \in Nat
  BY <1>1, InstructionFacts
<1>4. call_frames' \in Seq(CallFrame) /\ Len(call_frames') \in 1 .. MAX_CALLSTACK_DEPTH
  BY <1>1, <1>2, ProceedTypes
<1>5. IsSeq(stack') /\ \A v \in Range(stack') : IsValue(v)
  <2>1. CASE PrintTop \/ Pop
    <3>1. stack' = Dropped(1) /\ Opcode \in {"OP_PRINT", "OP_POP"}
      BY <2>1 DEF PrintTop, Pop, Fetch
    <3>2. 1 \in 0 .. Size_
      BY <1>3, <3>1 DEF Needed
    <3> QED
      BY <3>1, <3>2, StackFacts, ValueFacts
  <2>2. CASE Noop
    BY <2>2, MachineFacts, ValueFacts DEF Noop
  <2> QED
    BY <2>1, <2>2
<1> QED
  BY <1>2, <1>3, <1>4, <1>5, QuietStep, GlobalFacts

(* OP_SET_LOCAL keeps it: only a slot that is on the stack is replaced. *)
LEMMA SetLocalTypes == MachineInv /\ SetLocal => MachineInv'
<1> SUFFICES ASSUME MachineInv, SetLocal PROVE MachineInv'
  OBVIOUS
<1>1. Fetch({"OP_SET_LOCAL"}) /\ Proceed(0) /\ Quiet
  BY DEF SetLocal
<1>2. /\ status = "running" /\ Opcode = "OP_SET_LOCAL" /\ Opcode \in OpCode
      /\ Size_ >= Needed(Opcode) /\ Size_ \in Nat /\ Frame \in CallFrame
      /\ Operands[Opcode] >= 1 => Operand \in Nat
  BY <1>1, InstructionFacts
<1>3. Slot < Size_
  BY <1>1, <1>2 DEF Fetch, Defined, Erroneous
<1>4. Slot + 1 \in 1 .. Len(stack)
  BY <1>2, <1>3, OperandFacts DEF Slot, CallFrame, Size_
<1>5. IsValue(Peek(0))
  BY <1>2, ValueFacts DEF Needed
<1>6. IsSeq(stack') /\ Range(stack') \subseteq Range(stack) \cup {Peek(0)}
  BY <1>4, ExceptFacts, MachineFacts DEF SetLocal
<1>7. call_frames' \in Seq(CallFrame) /\ Len(call_frames') \in 1 .. MAX_CALLSTACK_DEPTH
  BY <1>1, ProceedTypes
<1> QED
  BY <1>1, <1>2, <1>5, <1>6, <1>7, QuietStep, GlobalFacts, ValueFacts DEF Quiet

(* Global variables get the value on top of the stack. *)
LEMMA GlobalTypes == MachineInv /\ (SetGlobal \/ DefineGlobal) => MachineInv'
<1> SUFFICES ASSUME MachineInv, SetGlobal \/ DefineGlobal PROVE MachineInv'
  OBVIOUS
<1>1. PICK ops \in {{"OP_SET_GLOBAL"}, {"OP_DEFINE_GLOBAL"}} : Fetch(ops)
  BY DEF SetGlobal, DefineGlobal
<1>2. Proceed(0) /\ UNCHANGED <<functions, status, closures, upvalues, open_upvalues>>
  BY DEF SetGlobal, DefineGlobal
<1>3. status = "running" /\ Opcode \in ops /\ Size_ >= Needed(Opcode) /\ Size_ \in Nat
  BY <1>1, InstructionFacts
<1>4. 1 \in 0 .. Size_
  BY <1>3 DEF Needed
<1>5. call_frames' \in Seq(CallFrame) /\ Len(call_frames') \in 1 .. MAX_CALLSTACK_DEPTH
  BY <1>1, <1>2, ProceedTypes
<1>6. IsValue(Peek(0))
  BY <1>3, <1>4, ValueFacts
<1>7. IsSeq(stack') /\ \A v \in Range(stack') : IsValue(v)
  <2>1. stack' \in {stack, Dropped(1)}
    BY DEF SetGlobal, DefineGlobal
  <2> QED
    BY <1>4, <2>1, StackFacts, ValueFacts, MachineFacts
<1>8. "clock" \in DOMAIN globals' /\ Range(globals') \subseteq Range(globals) \cup {Peek(0)}
  <2>1. CASE SetGlobal
    BY <2>1, GlobalFacts DEF SetGlobal, Range
  <2>2. CASE DefineGlobal
    BY <2>2, GlobalFacts DEF DefineGlobal, Range
  <2> QED
    BY <2>1, <2>2
<1> QED
  BY <1>2, <1>3, <1>5, <1>6, <1>7, <1>8, QuietStep, GlobalFacts

(* Operators leave a value. *)
LEMMA OperatorTypes == MachineInv /\ (Binary \/ Unary) => MachineInv'
<1> SUFFICES ASSUME MachineInv, Binary \/ Unary PROVE MachineInv'
  OBVIOUS
<1> DEFINE binary == {"OP_EQUAL", "OP_GREATER", "OP_LESS", "OP_ADD", "OP_SUBTRACT",
                      "OP_MULTIPLY", "OP_DIVIDE"}
           unary  == {"OP_NOT", "OP_NEGATE"}
<1>1. PICK ops \in {binary, unary} : Fetch(ops)
  BY DEF Binary, Unary
<1>2. Proceed(0) /\ Quiet
  BY DEF Binary, Unary
<1>3. status = "running" /\ Opcode \in ops /\ Size_ >= Needed(Opcode) /\ Size_ \in Nat
  BY <1>1, InstructionFacts
<1>4. call_frames' \in Seq(CallFrame) /\ Len(call_frames') \in 1 .. MAX_CALLSTACK_DEPTH
  <2> HIDE DEF binary, unary
  <2> QED
    BY <1>1, <1>2, ProceedTypes
<1>5. IsSeq(stack') /\ \A v \in Range(stack') : IsValue(v)
  <2>1. CASE Binary
    <3>1. Opcode \in binary
      BY <2>1 DEF Binary, Fetch
    <3>2. IsValue(Result(Opcode, Peek(1), Peek(0)))
      BY <3>1, ValueFacts DEF Result
    <3>3. 2 \in 0 .. Size_
      BY <1>3, <3>1 DEF Needed
    <3> QED
      BY <2>1, <3>2, <3>3, StackFacts DEF Binary
  <2>2. CASE Unary
    <3>1. Opcode \in unary
      BY <2>2 DEF Unary, Fetch
    <3> DEFINE v == IF Opcode = "OP_NOT" THEN Bool(IsFalsey(Peek(0))) ELSE Num(-Peek(0).num)
    <3>2. IsValue(v)
      BY ValueFacts
    <3>3. 1 \in 0 .. Size_
      BY <1>3, <3>1 DEF Needed
    <3>4. stack' = Append(Dropped(1), v)
      BY <2>2 DEF Unary
    <3> HIDE DEF v
    <3> QED
      BY <3>2, <3>3, <3>4, StackFacts
  <2> QED
    BY <2>1, <2>2
<1> QED
  BY <1>2, <1>3, <1>4, <1>5, QuietStep, GlobalFacts DEF Quiet

(* A call finds the callee below its arguments. *)
LEMMA CalleeFacts ==
  ASSUME MachineInv, Fetch({"OP_CALL"})
  PROVE  /\ ArgCount \in Nat /\ ArgCount + 1 \in 0 .. Size_ /\ Operands[Opcode] = 1
         /\ Size_ - 1 - ArgCount \in Nat
         /\ Callee = Get(Size_ - 1 - ArgCount)
         /\ IsValue(Callee)
         /\ IsClosure(Callee) => Callee \in [clo : DOMAIN closures]
<1>1. /\ Opcode = "OP_CALL" /\ Opcode \in OpCode
      /\ Size_ >= Needed(Opcode) /\ Size_ \in Nat
      /\ Operands[Opcode] >= 1 => Operand \in Nat
  BY InstructionFacts
<1>2. ArgCount \in Nat /\ Operands[Opcode] = 1
  BY <1>1, OperandFacts DEF ArgCount
<1>3. Size_ >= ArgCount + 1
  BY <1>1 DEF Needed
<1>4. ArgCount \in 0 .. Size_ - 1
  BY <1>1, <1>2, <1>3
<1>5. IsValue(Callee)
  BY <1>4, ValueFacts DEF Callee
<1>6. Callee = Get(Size_ - 1 - ArgCount)
  BY <1>1, <1>2 DEF Callee, Peek, Get
<1>7. IsClosure(Callee) => Callee \in [clo : DOMAIN closures]
  BY <1>5 DEF IsValue, IsClosure
<1> QED
  BY <1>1, <1>2, <1>3, <1>4, <1>5, <1>6, <1>7

(* A call of a native function keeps it. *)
LEMMA CallNativeTypes == MachineInv /\ CallNative => MachineInv'
<1> SUFFICES ASSUME MachineInv, CallNative PROVE MachineInv'
  OBVIOUS
<1>1. Fetch({"OP_CALL"}) /\ Proceed(0) /\ Quiet
  BY DEF CallNative
<1>2. status = "running"
  BY <1>1, InstructionFacts
<1>3. call_frames' \in Seq(CallFrame) /\ Len(call_frames') \in 1 .. MAX_CALLSTACK_DEPTH
  BY <1>1, ProceedTypes
<1>4. PICK t : stack' = Append(Dropped(ArgCount + 1), Num(t))
  BY DEF CallNative
<1>5. ArgCount + 1 \in 0 .. Size_ /\ IsValue(Num(t))
  BY <1>1, CalleeFacts, ValueFacts
<1>6. IsSeq(stack') /\ \A v \in Range(stack') : IsValue(v)
  BY <1>4, <1>5, StackFacts
<1> QED
  BY <1>1, <1>2, <1>3, <1>6, QuietStep, GlobalFacts DEF Quiet

(* The frames after a call of a closure. *)
LEMMA CallClosureFrames ==
  ASSUME MachineInv, CallClosure
  PROVE  /\ call_frames' \in Seq(CallFrame)
         /\ Len(call_frames') = Len(call_frames) + 1
         /\ \A i \in 1 .. Len(call_frames) - 1 : call_frames'[i] = call_frames[i]
         /\ call_frames'[Len(call_frames)] = [Frame EXCEPT !.ip = Ip + 2]
         /\ call_frames'[Len(call_frames) + 1] = NewFrame(Callee.clo, ArgCount)
         /\ NewFrame(Callee.clo, ArgCount) \in CallFrame
<1> DEFINE n   == Len(call_frames)
           fr  == [Frame EXCEPT !.ip = Ip + 2]
           new == NewFrame(Callee.clo, ArgCount)
           cf  == [call_frames EXCEPT ![n] = fr]
<1>1. Fetch({"OP_CALL"}) /\ IsClosure(Callee)
  BY DEF CallClosure
<1>2. n \in Nat \ {0} /\ Frame \in CallFrame /\ Ip \in Nat
  BY <1>1, InstructionFacts
<1>3. fr \in CallFrame
  BY <1>2 DEF CallFrame
<1>4. new \in CallFrame
  BY <1>1, CalleeFacts DEF NewFrame, CallFrame
<1>5. call_frames' = Append(cf, new)
  BY DEF CallClosure, Frame, Last, Ip
<1>6. call_frames \in Seq(CallFrame)
  BY DEF MachineInv, TypeOK
<1> HIDE DEF fr, new
<1>7. /\ cf \in Seq(CallFrame) /\ Len(cf) = n
      /\ \A j \in 1 .. n : cf[j] = IF j = n THEN fr ELSE call_frames[j]
  BY <1>2, <1>3, <1>6, ExceptSeq
<1> HIDE DEF cf
<1>8. /\ call_frames' \in Seq(CallFrame) /\ Len(call_frames') = n + 1
      /\ \A j \in 1 .. n : call_frames'[j] = cf[j]
      /\ call_frames'[n + 1] = new
  BY <1>4, <1>5, <1>7, AppendProperties
<1> QED
  BY <1>2, <1>4, <1>7, <1>8 DEF fr, new

(* A call of a closure keeps it: there is room for the frame it adds. *)
LEMMA CallClosureTypes == MachineInv /\ CallClosure => MachineInv'
<1> SUFFICES ASSUME MachineInv, CallClosure PROVE MachineInv'
  OBVIOUS
<1>1. Fetch({"OP_CALL"}) /\ Quiet /\ UNCHANGED stack
  BY DEF CallClosure
<1>2. /\ status = "running" /\ Opcode = "OP_CALL" /\ Opcode \in OpCode
      /\ Len(call_frames) \in Nat \ {0}
  BY <1>1, InstructionFacts
<1>3. ~CallFails
  BY <1>1, <1>2 DEF Fetch, Erroneous
<1>4. call_frames' \in Seq(CallFrame) /\ Len(call_frames') = Len(call_frames) + 1
  BY CallClosureFrames
<1>5. Len(call_frames') \in 1 .. MAX_CALLSTACK_DEPTH
  BY <1>2, <1>3, <1>4, DepthAssumption DEF CallFails
<1> QED
  BY <1>1, <1>2, <1>4, <1>5, QuietStep, GlobalFacts, MachineFacts, ValueFacts DEF Quiet

(* The upvalue that an instruction names. *)
LEMMA CapturedFacts ==
  ASSUME MachineInv, Fetch({"OP_SET_UPVALUE"})
  PROVE  Captured \in DOMAIN upvalues /\ Readable(Captured) /\ Operand \in Nat
<1>1. /\ Opcode = "OP_SET_UPVALUE" /\ Opcode \in OpCode
      /\ Operands[Opcode] >= 1 => Operand \in Nat
      /\ closures[Frame.closure].upvalues \in Seq(DOMAIN upvalues)
  BY InstructionFacts
<1>2. Operand < Len(closures[Frame.closure].upvalues) /\ Readable(Captured)
  BY <1>1 DEF Fetch, Erroneous, Defined
<1>3. Operand \in Nat
  BY <1>1, OperandFacts
<1>4. Operand + 1 \in 1 .. Len(closures[Frame.closure].upvalues)
  BY <1>1, <1>2, <1>3, LenProperties
<1> QED
  BY <1>1, <1>2, <1>3, <1>4, ElementOfSeq DEF Captured

(* A closed upvalue holds a value. *)
HoldsValue(u) == IsOpen(u) \/ (u \in [value : {u.value}] /\ IsValue(u.value))

(* Instructions that make a closure, or change upvalues and their list. *)
LEMMA HeapStep ==
  ASSUME MachineInv, status = "running",
         UNCHANGED <<functions, globals>>,
         status' \in {"running", "ok"}, status' = "running" => call_frames' # <<>>,
         closures' \in Seq([function : DOMAIN functions, upvalues : Seq(DOMAIN upvalues')]),
         DOMAIN closures \subseteq DOMAIN closures',
         IsSeq(stack'), \A v \in Range(stack') : IsValue(v) \/ v \in [clo : DOMAIN closures'],
         call_frames' \in Seq(CallFrame), Len(call_frames') <= MAX_CALLSTACK_DEPTH,
         Listed(upvalues', open_upvalues'),
         \A u \in DOMAIN upvalues' :
           HoldsValue(upvalues'[u])
  PROVE  MachineInv'
<1>1. \A v : IsValue(v) \/ v \in [clo : DOMAIN closures'] => IsValue(v)'
  BY DEF IsValue
<1>2. stack' \in Seq(Range(stack')) /\ \A v \in Range(stack') : IsValue(v)'
  BY <1>1 DEF IsSeq
<1>3. call_frames' \in Seq(CallFrame)'
  <2>1. CallFrame \subseteq CallFrame'
    BY DEF CallFrame
  <2> QED
    BY <2>1, SeqMonotonic
<1>4. \A v \in Range(globals') : IsValue(v)'
  BY <1>1, GlobalFacts
<1>5. upvalues' \in Seq(Range(upvalues'))
  BY DEF Listed, IsSeq
<1>6. \A u \in Range(upvalues') : IsUpvalue(u)'
  <2>1. ASSUME NEW u \in DOMAIN upvalues', IsOpen(upvalues'[u])
        PROVE  upvalues'[u] \in [index : Nat]
    BY <2>1 DEF Listed
  <2>2. \A v : IsValue(v) => IsValue(v)'
    BY <1>1
  <2>3. ASSUME NEW u \in DOMAIN upvalues', NEW w, w = upvalues'[u]
        PROVE  IsUpvalue(w)'
    <3>1. w \in [index : Nat] \/ (w \in [value : {w.value}] /\ IsValue(w.value)')
      BY <2>1, <2>2, <2>3 DEF HoldsValue
    <3> QED
      BY <3>1 DEF IsUpvalue
  <2> QED
    BY <2>3 DEF Range
<1>7. open_upvalues' \in Seq({u \in DOMAIN upvalues : IsOpen(upvalues[u])})'
  <2>1. IsSeq(open_upvalues') /\ Range(open_upvalues') = {u \in DOMAIN upvalues' : IsOpen(upvalues'[u])}
    BY DEF Listed
  <2> QED
    BY <2>1 DEF IsSeq
<1>8. closures' \in Seq([function : DOMAIN functions', upvalues : Seq(DOMAIN upvalues')])
  OBVIOUS
<1>9. "clock" \in DOMAIN globals'
  BY GlobalFacts
<1>10. TypeOK'
  BY <1>2, <1>3, <1>4, <1>5, <1>6, <1>7, <1>8, <1>9 DEF TypeOK
<1>11. OpenUpvaluesOrdered'
  BY DEF Listed, OpenUpvaluesOrdered, IsOpen
<1>12. IsProgram(functions)'
  BY DEF MachineInv
<1> QED
  BY <1>10, <1>11, <1>12 DEF MachineInv

(* OP_SET_UPVALUE keeps it, whether the upvalue is open or closed. *)
LEMMA SetUpvalueTypes == MachineInv /\ SetUpvalue => MachineInv'
<1> SUFFICES ASSUME MachineInv, SetUpvalue PROVE MachineInv'
  OBVIOUS
<1>1. /\ Fetch({"OP_SET_UPVALUE"}) /\ Proceed(0)
      /\ UNCHANGED <<functions, status, closures, open_upvalues, globals>>
  BY DEF SetUpvalue
<1>2. /\ status = "running" /\ Opcode = "OP_SET_UPVALUE" /\ Size_ >= Needed(Opcode) /\ Size_ \in Nat
  BY <1>1, InstructionFacts
<1>3. IsValue(Peek(0))
  BY <1>2, ValueFacts DEF Needed
<1>4. Captured \in DOMAIN upvalues /\ Readable(Captured)
  BY <1>1, CapturedFacts
<1>5. call_frames' \in Seq(CallFrame) /\ Len(call_frames') \in 1 .. MAX_CALLSTACK_DEPTH
  BY <1>1, ProceedTypes
<1>6. CASE IsOpen(upvalues[Captured])
  <2> DEFINE i == upvalues[Captured].index + 1
             v == Peek(0)
  <2>1. stack' = [stack EXCEPT ![i] = v] /\ UNCHANGED upvalues
    BY <1>6 DEF SetUpvalue
  <2>2. i \in 1 .. Len(stack)
    BY <1>2, <1>4, <1>6, UpvalueFacts DEF Readable, Size_
  <2>3. IsSeq(stack) /\ IsValue(v)
    BY <1>3, MachineFacts
  <2> HIDE DEF i, v
  <2>4. IsSeq([stack EXCEPT ![i] = v]) /\ Range([stack EXCEPT ![i] = v]) \subseteq Range(stack) \cup {v}
    BY <2>2, <2>3, ExceptFacts
  <2> QED
    BY <1>1, <1>2, <1>5, <2>1, <2>3, <2>4, QuietStep, GlobalFacts, ValueFacts
<1>7. CASE ~IsOpen(upvalues[Captured])
  <2> DEFINE c == Captured
             w == [upvalues[c] EXCEPT !.value = Peek(0)]
  <2>1. upvalues' = [upvalues EXCEPT ![c] = w] /\ UNCHANGED stack
    BY <1>7 DEF SetUpvalue
  <2>2. upvalues[c] \in [value : {upvalues[c].value}]
    BY <1>4, <1>7, UpvalueFacts
  <2>3. w \in [value : {w.value}] /\ w.value = Peek(0) /\ ~IsOpen(w)
    BY <2>2 DEF IsOpen
  <2> HIDE DEF w
  <2>4. /\ Listed(upvalues, open_upvalues) /\ Len(upvalues) \in Nat /\ DOMAIN upvalues = 1 .. Len(upvalues)
    BY MachineFacts, ListedElements
  <2>5. /\ IsSeq(upvalues') /\ Len(upvalues') = Len(upvalues)
        /\ \A u \in 1 .. Len(upvalues) : upvalues'[u] = IF u = c THEN w ELSE upvalues[u]
    BY <1>4, <2>1, <2>4, ExceptFacts DEF Listed
  <2>6. DOMAIN upvalues' = DOMAIN upvalues
    BY <2>4, <2>5, SeqFacts
  <2>7. \A u \in DOMAIN upvalues : /\ IsOpen(upvalues'[u]) <=> IsOpen(upvalues[u])
                                   /\ IsOpen(upvalues[u]) => upvalues'[u] = upvalues[u]
    BY <1>7, <2>3, <2>4, <2>5
  <2>8. Listed(upvalues', open_upvalues')
    <3>1. \A i \in DOMAIN open_upvalues :
            /\ open_upvalues[i] \in DOMAIN upvalues
            /\ upvalues'[open_upvalues[i]] = upvalues[open_upvalues[i]]
      BY <2>4, <2>7, ListedElements
    <3>2. \A u \in DOMAIN upvalues' : IsOpen(upvalues'[u]) => upvalues'[u] \in [index : Nat]
      BY <2>4, <2>6, <2>7 DEF Listed
    <3>3. {u \in DOMAIN upvalues' : IsOpen(upvalues'[u])} = {u \in DOMAIN upvalues : IsOpen(upvalues[u])}
      BY <2>6, <2>7
    <3> QED
      BY <1>1, <2>4, <2>5, <3>1, <3>2, <3>3 DEF Listed
  <2>9. \A u \in DOMAIN upvalues' :
          HoldsValue(upvalues'[u])
    <3> TAKE u \in DOMAIN upvalues'
    <3>1. CASE u = c
      BY <3>1, <1>3, <2>3, <2>4, <2>5, <2>6 DEF HoldsValue
    <3>2. CASE u # c
      BY <3>2, <2>4, <2>5, <2>6, UpvalueFacts DEF HoldsValue
    <3> QED
      BY <3>1, <3>2
  <2>10. closures' \in Seq([function : DOMAIN functions, upvalues : Seq(DOMAIN upvalues')])
    BY <1>1, <2>6 DEF MachineInv, TypeOK
  <2>11. Len(call_frames') <= MAX_CALLSTACK_DEPTH /\ call_frames' # <<>>
    BY <1>5, EmptyFacts, DepthAssumption
  <2>12. /\ UNCHANGED <<functions, globals>>
         /\ status' \in {"running", "ok"}
         /\ DOMAIN closures \subseteq DOMAIN closures'
         /\ IsSeq(stack')
         /\ \A v \in Range(stack') : IsValue(v) \/ v \in [clo : DOMAIN closures']
    BY <1>1, <1>2, <2>1, MachineFacts, ValueFacts
  <2> QED
    BY <1>2, <1>5, <2>8, <2>9, <2>10, <2>11, <2>12, HeapStep
<1> QED
  BY <1>6, <1>7

(* Closing upvalues keeps what a machine step must keep of them. *)
LEMMA ClosedTypes ==
  ASSUME MachineInv, NEW last \in Int, CloseUpvalues(last),
         \A u \in Closing(last) : Readable(u),
         UNCHANGED closures
  PROVE  /\ Listed(upvalues', open_upvalues')
         /\ \A u \in DOMAIN upvalues' :
              HoldsValue(upvalues'[u])
         /\ closures' \in Seq([function : DOMAIN functions, upvalues : Seq(DOMAIN upvalues')])
<1>1. /\ Listed(upvalues', open_upvalues')
      /\ DOMAIN upvalues' = DOMAIN upvalues
      /\ \A u \in DOMAIN upvalues :
           upvalues'[u] = IF IsOpen(upvalues[u]) /\ upvalues[u].index >= last
                          THEN [value |-> Get(upvalues[u].index)] ELSE upvalues[u]
  BY MachineFacts, CloseUpvaluesFacts
<1>2. \A u \in DOMAIN upvalues :
        upvalues'[u] = IF u \in Closing(last) THEN [value |-> Get(upvalues[u].index)]
                       ELSE upvalues[u]
  BY DEF CloseUpvalues
<1>3. ASSUME NEW u \in DOMAIN upvalues, ~IsOpen(upvalues'[u])
      PROVE  /\ upvalues'[u] \in [value : {upvalues'[u].value}]
             /\ IsValue(upvalues'[u].value)
  <2>1. CASE IsOpen(upvalues[u])
    <3> DEFINE v == Get(upvalues[u].index)
    <3>1. u \in Closing(last)
      BY <2>1, <1>2, <1>3
    <3>2. upvalues'[u] = [value |-> v]
      BY <3>1, <1>2
    <3>3. Readable(u)
      BY <3>1
    <3>4. IsValue(v)
      BY <2>1, <3>3, UpvalueFacts DEF ValueOf
    <3> HIDE DEF v
    <3> QED
      BY <3>2, <3>4
  <2>2. CASE ~IsOpen(upvalues[u])
    <3>1. upvalues'[u] = upvalues[u]
      BY <2>2, <1>1
    <3>2. upvalues[u] \in [value : {upvalues[u].value}] /\ IsValue(upvalues[u].value)
      BY <2>2, UpvalueFacts
    <3> QED
      BY <3>1, <3>2
  <2> QED
    BY <2>1, <2>2
<1>5. \A u \in DOMAIN upvalues' : HoldsValue(upvalues'[u])
  BY <1>1, <1>3 DEF HoldsValue
<1>4. closures' \in Seq([function : DOMAIN functions, upvalues : Seq(DOMAIN upvalues')])
  BY <1>1 DEF MachineInv, TypeOK
<1> QED
  BY <1>1, <1>4, <1>5

(* OP_CLOSE_UPVALUE keeps it. *)
LEMMA CloseUpvalueTypes == MachineInv /\ CloseUpvalue => MachineInv'
<1> SUFFICES ASSUME MachineInv, CloseUpvalue PROVE MachineInv'
  OBVIOUS
<1>1. /\ Fetch({"OP_CLOSE_UPVALUE"}) /\ Proceed(0) /\ CloseUpvalues(Size_ - 1)
      /\ stack' = Dropped(1)
      /\ UNCHANGED <<functions, status, closures, globals>>
  BY DEF CloseUpvalue
<1>2. /\ status = "running" /\ Opcode = "OP_CLOSE_UPVALUE" /\ Size_ >= Needed(Opcode) /\ Size_ \in Nat
  BY <1>1, InstructionFacts
<1>3. 1 \in 0 .. Size_
  BY <1>2 DEF Needed
<1>4. \A u \in Closing(Size_ - 1) : Readable(u)
  BY <1>1, <1>2 DEF Fetch, Erroneous, Defined
<1>5. /\ Listed(upvalues', open_upvalues')
      /\ \A u \in DOMAIN upvalues' :
           HoldsValue(upvalues'[u])
      /\ closures' \in Seq([function : DOMAIN functions, upvalues : Seq(DOMAIN upvalues')])
  <2> DEFINE last == Size_ - 1
  <2>1. last \in Int /\ CloseUpvalues(last) /\ (\A u \in Closing(last) : Readable(u)) /\ UNCHANGED closures
    BY <1>1, <1>2, <1>4
  <2> HIDE DEF last
  <2> QED
    BY <2>1, ClosedTypes
<1>6. IsSeq(stack') /\ \A v \in Range(stack') : IsValue(v)
  BY <1>1, <1>3, StackFacts, ValueFacts
<1>7. call_frames' \in Seq(CallFrame) /\ Len(call_frames') \in 1 .. MAX_CALLSTACK_DEPTH
  BY <1>1, ProceedTypes
<1>8. Len(call_frames') <= MAX_CALLSTACK_DEPTH /\ call_frames' # <<>>
  BY <1>7, EmptyFacts, DepthAssumption
<1> QED
  BY <1>1, <1>2, <1>5, <1>6, <1>7, <1>8, HeapStep

(* The frames that are left after a return. *)
LEMMA ReturnFrames ==
  ASSUME MachineInv, Return
  PROVE  /\ call_frames' \in Seq(CallFrame)
         /\ Len(call_frames') = Len(call_frames) - 1
         /\ \A i \in 1 .. Len(call_frames) - 1 : call_frames'[i] = call_frames[i]
<1> DEFINE n == Len(call_frames)
<1>1. n \in Nat \ {0}
  BY InstructionFacts DEF Return
<1>2. call_frames' = SubSeq(call_frames, 1, n - 1)
  BY DEF Return, Front
<1>3. call_frames \in Seq(CallFrame) /\ \A i \in 1 .. n - 1 : call_frames[i] \in CallFrame
  BY <1>1, MachineFacts DEF MachineInv, TypeOK
<1>4. /\ SubSeq(call_frames, 1, n - 1) \in Seq(CallFrame)
      /\ Len(SubSeq(call_frames, 1, n - 1)) = n - 1
      /\ \A i \in 1 .. n - 1 : SubSeq(call_frames, 1, n - 1)[i] = call_frames[i]
  <2>1. n - 1 \in 0 .. n
    BY <1>1
  <2>2. IsSeq(call_frames)
    BY <1>3, SeqIsSeq
  <2>3. /\ IsSeq(SubSeq(call_frames, 1, n - 1)) /\ Len(SubSeq(call_frames, 1, n - 1)) = n - 1
        /\ \A i \in 1 .. n - 1 : SubSeq(call_frames, 1, n - 1)[i] = call_frames[i]
    BY <2>1, <2>2, PrefixFacts
  <2> QED
    BY <1>3, <2>3, SeqOfType
<1> QED
  BY <1>2, <1>4

(* OP_RETURN keeps it, in the script and in a function. *)
LEMMA ReturnTypes == MachineInv /\ Return => MachineInv'
<1> SUFFICES ASSUME MachineInv, Return PROVE MachineInv'
  OBVIOUS
<1>1. /\ Fetch({"OP_RETURN"}) /\ CloseUpvalues(Frame.stack_offset + 1)
      /\ UNCHANGED <<functions, closures, globals>>
  BY DEF Return
<1>2. /\ status = "running" /\ Opcode = "OP_RETURN" /\ Size_ >= Needed(Opcode) /\ Size_ \in Nat
      /\ Len(call_frames) \in Nat \ {0} /\ Frame \in CallFrame
  BY <1>1, InstructionFacts
<1>3. /\ \A u \in Closing(Frame.stack_offset + 1) : Readable(u)
      /\ IF Len(call_frames) = 1 THEN Size_ = 2 ELSE Frame.stack_offset < Size_
  BY <1>1, <1>2 DEF Fetch, Erroneous, Defined
<1>4. Frame.stack_offset \in Nat
  BY <1>2 DEF CallFrame
<1>5. /\ Listed(upvalues', open_upvalues')
      /\ \A u \in DOMAIN upvalues' :
           HoldsValue(upvalues'[u])
      /\ closures' \in Seq([function : DOMAIN functions, upvalues : Seq(DOMAIN upvalues')])
  <2> DEFINE last == Frame.stack_offset + 1
  <2>1. last \in Int /\ CloseUpvalues(last) /\ (\A u \in Closing(last) : Readable(u)) /\ UNCHANGED closures
    BY <1>1, <1>3, <1>4
  <2> HIDE DEF last
  <2> QED
    BY <2>1, ClosedTypes
<1>6. IsSeq(stack') /\ \A v \in Range(stack') : IsValue(v)
  <2>1. CASE Len(call_frames) = 1
    BY <2>1, EmptyFacts DEF Return
  <2>2. CASE Len(call_frames) # 1
    <3> DEFINE n == Frame.stack_offset
    <3>1. stack' = Append(SubSeq(stack, 1, n), Peek(0)) /\ n \in 0 .. Len(stack)
      BY <2>2, <1>2, <1>3, <1>4 DEF Return, Size_
    <3>2. IsValue(Peek(0))
      BY <1>2, ValueFacts DEF Needed
    <3>3. IsSeq(SubSeq(stack, 1, n)) /\ Range(SubSeq(stack, 1, n)) \subseteq Range(stack)
      BY <3>1, MachineFacts, PrefixFacts
    <3> QED
      BY <3>1, <3>2, <3>3, AppendFacts, ValueFacts
  <2> QED
    BY <2>1, <2>2
<1>7. /\ call_frames' \in Seq(CallFrame) /\ Len(call_frames') = Len(call_frames) - 1
      /\ Len(call_frames) <= MAX_CALLSTACK_DEPTH
  BY ReturnFrames DEF MachineInv, TypeOK
<1>8. status' \in {"running", "ok"} /\ (status' = "running" => call_frames' # <<>>)
  BY <1>2, <1>7, EmptyFacts DEF Return
<1>9. Len(call_frames') <= MAX_CALLSTACK_DEPTH
  BY <1>2, <1>7, DepthAssumption
<1> QED
  BY <1>1, <1>2, <1>5, <1>6, <1>7, <1>8, <1>9, HeapStep

(* What OP_CLOSURE finds, and what its loop makes of it. *)
LEMMA MakeClosureFacts ==
  ASSUME MachineInv, Fetch({"OP_CLOSURE"})
  PROVE  /\ Constant \in [fun : DOMAIN functions]
         /\ Template.upvalue_count \in Nat
         /\ \A i \in 0 .. Template.upvalue_count - 1 : CaptureIndex(i) \in Nat
         /\ InOrder(CaptureAll)
         /\ ContinuedBy(upvalues, CaptureAll.upvalues, CapturedIndices)
         /\ Len(CaptureAll.captured) = Template.upvalue_count
<1>1. /\ Opcode = "OP_CLOSURE" /\ Opcode \in OpCode /\ Frame \in CallFrame
      /\ Operands[Opcode] >= 1 => Operand \in Nat
      /\ CurrFun.code \in Seq(Nat) /\ Ip \in Nat
      /\ closures[Frame.closure].upvalues \in Seq(DOMAIN upvalues)
  BY InstructionFacts
<1>2. Defined /\ ~Erroneous /\ At(CurrFun.code, Ip) \in DOMAIN Named
  BY DEF Fetch, Erroneous
<1>3. Operand \in Nat /\ Operand < Len(CurrFun.constants) /\ IsFun(Constant)
  BY <1>1, <1>2, OperandFacts DEF Defined, Erroneous
<1>4. IsConstant(functions, Constant)
  BY <1>3, InstructionFacts DEF Constant
<1>5. Constant \in [fun : DOMAIN functions]
  BY <1>3, <1>4 DEF IsConstant, IsFun, IsNum, IsStr
<1>6. Template.upvalue_count \in Nat
  BY <1>5 DEF Template, MachineInv, IsProgram
<1> DEFINE N == Template.upvalue_count
           captured == closures[Frame.closure].upvalues
<1>7. /\ Ip + 1 + 2 * N < Len(CurrFun.code)
      /\ \A i \in 0 .. N - 1 : IsLocal(i) \/ CaptureIndex(i) < Len(captured)
  BY <1>1, <1>2, <1>3 DEF Defined
<1>8. ASSUME NEW i \in 0 .. N - 1 PROVE CaptureIndex(i) \in Nat
  <2> DEFINE a == Ip + 3 + 2 * i + 1
  <2>1. a \in 1 .. Len(CurrFun.code)
    BY <1>1, <1>6, <1>7, LenProperties
  <2>2. CaptureIndex(i) = CurrFun.code[a]
    BY DEF CaptureIndex, At
  <2> HIDE DEF a
  <2> QED
    BY <1>1, <2>1, <2>2, ElementOfSeq
<1>9. /\ Listed(upvalues, open_upvalues) /\ Frame.stack_offset \in Nat
      /\ DOMAIN upvalues = 1 .. Len(upvalues)
  BY <1>1, MachineFacts, ListedElements DEF CallFrame
<1>10. ASSUME NEW i \in 0 .. N - 1
       PROVE  IF IsLocal(i) THEN CaptureIndex(i) \in Nat
              ELSE captured[CaptureIndex(i) + 1] \in 1 .. Len(upvalues)
  <2>1. CASE IsLocal(i)
    BY <2>1, <1>8
  <2>2. CASE ~IsLocal(i)
    <3> DEFINE k == CaptureIndex(i) + 1
    <3>1. k \in 1 .. Len(captured)
      BY <2>2, <1>1, <1>7, <1>8, LenProperties
    <3> HIDE DEF k
    <3>2. captured[k] \in 1 .. Len(upvalues)
      BY <3>1, <1>1, <1>9, ElementOfSeq
    <3> QED
      BY <2>2, <3>2 DEF k
  <2> QED
    BY <2>1, <2>2
<1>11. /\ InOrder(CaptureAll)
       /\ ContinuedBy(upvalues, CaptureAll.upvalues, CapturedIndices)
       /\ Len(CaptureAll.captured) = N
  BY <1>6, <1>9, <1>10, CaptureAllFacts
<1> QED
  BY <1>5, <1>6, <1>8, <1>11

(* The closures and upvalues after OP_CLOSURE. *)
LEMMA MadeClosure ==
  ASSUME MachineInv, MakeClosure
  PROVE  /\ Listed(upvalues', open_upvalues')
         /\ ContinuedBy(upvalues, upvalues', CapturedIndices)
         /\ DOMAIN upvalues \subseteq DOMAIN upvalues'
         /\ \A u \in DOMAIN upvalues : upvalues'[u] = upvalues[u]
         /\ \A u \in DOMAIN upvalues' \ DOMAIN upvalues : upvalues'[u] \in [index : CapturedIndices]
         /\ closures' \in Seq([function : DOMAIN functions, upvalues : Seq(DOMAIN upvalues')])
         /\ Len(closures') = Len(closures) + 1
         /\ \A c \in 1 .. Len(closures) : closures'[c] = closures[c]
         /\ closures'[Len(closures) + 1].function = Constant.fun
         /\ Len(closures'[Len(closures) + 1].upvalues) = Template.upvalue_count
<1> DEFINE r   == CaptureAll
           T   == [function : DOMAIN functions, upvalues : Seq(DOMAIN upvalues')]
           new == [function |-> Constant.fun, upvalues |-> r.captured]
<1>1. /\ Constant \in [fun : DOMAIN functions]
      /\ InOrder(r)
      /\ ContinuedBy(upvalues, r.upvalues, CapturedIndices)
      /\ Len(r.captured) = Template.upvalue_count
  BY MakeClosureFacts DEF MakeClosure
<1>2. upvalues' = r.upvalues /\ open_upvalues' = r.open_upvalues /\ closures' = Append(closures, new)
  BY DEF MakeClosure
<1>3. Listed(upvalues', open_upvalues')
  BY <1>1, <1>2 DEF InOrder
<1>4. /\ Len(upvalues) \in Nat /\ DOMAIN upvalues = 1 .. Len(upvalues)
      /\ Len(upvalues') \in Nat /\ DOMAIN upvalues' = 1 .. Len(upvalues')
  BY <1>3, MachineFacts, ListedElements
<1>5. /\ DOMAIN upvalues \subseteq DOMAIN upvalues'
      /\ \A u \in DOMAIN upvalues : upvalues'[u] = upvalues[u]
      /\ \A u \in DOMAIN upvalues' \ DOMAIN upvalues : upvalues'[u] \in [index : CapturedIndices]
  BY <1>1, <1>2, <1>4 DEF ContinuedBy
<1>6. new \in T
  <2>1. IsSeq(r.captured) /\ \A i \in 1 .. Len(r.captured) : r.captured[i] \in DOMAIN upvalues'
    BY <1>1, <1>2, <1>4 DEF InOrder
  <2> HIDE DEF r
  <2>2. r.captured \in Seq(DOMAIN upvalues')
    BY <2>1, SeqOfType
  <2> QED
    BY <1>1, <2>2
<1>7. closures \in Seq(T)
  <2>1. Seq(DOMAIN upvalues) \subseteq Seq(DOMAIN upvalues')
    BY <1>5, SeqMonotonic
  <2>2. [function : DOMAIN functions, upvalues : Seq(DOMAIN upvalues)] \subseteq T
    BY <2>1
  <2>3. closures \in Seq([function : DOMAIN functions, upvalues : Seq(DOMAIN upvalues)])
    BY DEF MachineInv, TypeOK
  <2> HIDE DEF T
  <2> QED
    BY <2>2, <2>3, SeqMonotonic
<1>8. new.function = Constant.fun /\ new.upvalues = r.captured
  OBVIOUS
<1> HIDE DEF T, new
<1>9. /\ closures' \in Seq(T) /\ Len(closures') = Len(closures) + 1
      /\ \A c \in 1 .. Len(closures) : closures'[c] = closures[c]
      /\ closures'[Len(closures) + 1] = new
  BY <1>2, <1>6, <1>7, AppendProperties
<1> QED
  BY <1>1, <1>2, <1>3, <1>5, <1>8, <1>9 DEF T

(* OP_CLOSURE keeps it: the loop over the captures keeps the list in order. *)
LEMMA MakeClosureTypes == MachineInv /\ MakeClosure => MachineInv'
<1> SUFFICES ASSUME MachineInv, MakeClosure PROVE MachineInv'
  OBVIOUS
<1>1. /\ Fetch({"OP_CLOSURE"}) /\ Proceed(2 * Template.upvalue_count)
      /\ stack' = Pushed(Closure(Len(closures) + 1))
      /\ UNCHANGED <<functions, status, globals>>
  BY DEF MakeClosure
<1>2. status = "running" /\ Template.upvalue_count \in Nat
  BY <1>1, InstructionFacts, MakeClosureFacts
<1>3. /\ Listed(upvalues', open_upvalues')
      /\ \A u \in DOMAIN upvalues : u \in DOMAIN upvalues' /\ upvalues'[u] = upvalues[u]
      /\ \A u \in DOMAIN upvalues' \ DOMAIN upvalues : upvalues'[u] \in [index : CapturedIndices]
      /\ closures' \in Seq([function : DOMAIN functions, upvalues : Seq(DOMAIN upvalues')])
      /\ Len(closures') = Len(closures) + 1
  BY MadeClosure
<1>4. DOMAIN closures' = 1 .. Len(closures) + 1 /\ DOMAIN closures = 1 .. Len(closures) /\ Len(closures) \in Nat
  BY <1>3, MachineFacts, LenProperties
<1>5. IsSeq(stack') /\ \A v \in Range(stack') : IsValue(v) \/ v \in [clo : DOMAIN closures']
  <2> DEFINE c == Closure(Len(closures) + 1)
  <2>1. c \in [clo : DOMAIN closures']
    BY <1>4 DEF Closure
  <2> HIDE DEF c
  <2>2. IsSeq(Append(stack, c)) /\ Range(Append(stack, c)) = Range(stack) \cup {c}
    BY MachineFacts, AppendFacts
  <2> QED
    BY <1>1, <2>1, <2>2, ValueFacts DEF Pushed, c
<1>6. \A u \in DOMAIN upvalues' : HoldsValue(upvalues'[u])
  <2> TAKE u \in DOMAIN upvalues'
  <2>1. CASE u \in DOMAIN upvalues
    BY <2>1, <1>3, UpvalueFacts DEF HoldsValue
  <2>2. CASE u \notin DOMAIN upvalues
    BY <2>2, <1>3 DEF HoldsValue, IsOpen
  <2> QED
    BY <2>1, <2>2
<1>7. call_frames' \in Seq(CallFrame) /\ Len(call_frames') \in 1 .. MAX_CALLSTACK_DEPTH
  <2> DEFINE further == 2 * Template.upvalue_count
  <2>1. further \in Int /\ Proceed(further)
    BY <1>1, <1>2
  <2> HIDE DEF further
  <2> QED
    BY <1>1, <2>1, ProceedTypes
<1>8. Len(call_frames') <= MAX_CALLSTACK_DEPTH /\ call_frames' # <<>>
  BY <1>7, EmptyFacts, DepthAssumption
<1>9. DOMAIN closures \subseteq DOMAIN closures'
  BY <1>4
<1> QED
  BY <1>1, <1>2, <1>3, <1>5, <1>6, <1>7, <1>8, <1>9, HeapStep

-----------------------------------------------------------------------------
(* Beginning, and ending otherwise *)

(* It holds before the first program is interpreted. *)
LEMMA InitTypes == Init => MachineInv
<1> SUFFICES ASSUME Init PROVE MachineInv
  OBVIOUS
<1>1. IsProgram(functions)
  BY ProgramsAssumption DEF Init
<1>2. /\ status = "ready" /\ stack = <<>> /\ call_frames = <<>> /\ closures = <<>>
      /\ upvalues = <<>> /\ open_upvalues = <<>>
      /\ globals = [name \in {"clock"} |-> Native("clock")]
  BY DEF Init, InitVM
<1>3. \A v \in Range(globals) : IsValue(v)
  BY <1>2 DEF Range, IsValue, Native
<1>4. Len(call_frames) = 0 /\ 0 <= MAX_CALLSTACK_DEPTH
  BY <1>2, DepthAssumption
<1>5. TypeOK
  BY <1>2, <1>3, <1>4, EmptyFacts DEF TypeOK
<1>6. OpenUpvaluesOrdered
  BY <1>2, EmptyFacts DEF OpenUpvaluesOrdered
<1> QED
  BY <1>1, <1>5, <1>6 DEF MachineInv

(* The script gets a closure and a frame. *)
LEMMA InterpretTypes == MachineInv /\ Interpret => MachineInv'
<1> SUFFICES ASSUME MachineInv, Interpret PROVE MachineInv'
  OBVIOUS
<1> DEFINE script == [function |-> 1, upvalues |-> <<>>]
           frame  == [closure |-> 1, ip |-> 0, stack_offset |-> 0]
<1>1. /\ closures = <<>> /\ closures' = <<script>>
      /\ stack' = <<Closure(1)>> /\ call_frames' = <<frame>> /\ status' = "running"
      /\ UNCHANGED <<functions, upvalues, open_upvalues, globals>>
  BY DEF Interpret, MachineInv, TypeOK
<1>2. 1 \in DOMAIN functions
  BY DEF MachineInv, IsProgram
<1>3. /\ script \in [function : DOMAIN functions, upvalues : Seq(DOMAIN upvalues)]
  BY <1>2, EmptySeq
<1>4. closures' \in Seq([function : DOMAIN functions, upvalues : Seq(DOMAIN upvalues)])
      /\ DOMAIN closures' = {1}
  <2> HIDE DEF script
  <2> QED
    BY <1>1, <1>3
<1>5. \A v : IsValue(v) => IsValue(v)'
  BY <1>1, <1>4, EmptyFacts DEF IsValue
<1>6. Closure(1) \in [clo : DOMAIN closures']
  BY <1>4 DEF Closure
<1>7. stack' \in Seq(Range(stack')) /\ \A v \in Range(stack') : IsValue(v)'
  <2> DEFINE c == Closure(1)
  <2>1. stack' = <<c>>
    BY <1>1
  <2> HIDE DEF c
  <2>2. IsSeq(stack') /\ Range(stack') = {c}
    BY <2>1 DEF IsSeq, Range
  <2> USE DEF c
  <2> QED
    BY <1>6, <2>2 DEF IsSeq, IsValue
<1>8. call_frames' \in Seq(CallFrame)' /\ Len(call_frames') <= MAX_CALLSTACK_DEPTH /\ call_frames' # <<>>
  <2>1. frame \in CallFrame'
    BY <1>4 DEF CallFrame
  <2> HIDE DEF frame
  <2> QED
    BY <1>1, <2>1, DepthAssumption
<1>9. \A v \in Range(globals') : IsValue(v)'
  BY <1>1, <1>5, GlobalFacts
<1>10. \A u \in Range(upvalues') : IsUpvalue(u)'
  BY <1>1, <1>5 DEF MachineInv, TypeOK, IsUpvalue
<1>11. TypeOK'
  BY <1>1, <1>4, <1>7, <1>8, <1>9, <1>10 DEF MachineInv, TypeOK, IsOpen
<1>12. OpenUpvaluesOrdered' /\ IsProgram(functions)'
  BY <1>1 DEF MachineInv, OpenUpvaluesOrdered, IsOpen
<1> QED
  BY <1>11, <1>12 DEF MachineInv

(* The program ends, or nothing happens. *)
LEMMA EndTypes == MachineInv /\ (Undefined \/ RuntimeError \/ UNCHANGED vars) => MachineInv'
<1> SUFFICES ASSUME MachineInv, Undefined \/ RuntimeError \/ UNCHANGED vars PROVE MachineInv'
  OBVIOUS
<1>1. UNCHANGED <<functions, stack, call_frames, closures, upvalues, open_upvalues, globals>>
  BY DEF Undefined, RuntimeError, vars
<1>2. status' \in {"runtime_error", "undefined"} \/ status' = status
  BY DEF Undefined, RuntimeError, vars
<1>3. TypeOK'
  BY <1>1, <1>2 DEF MachineInv, TypeOK, IsValue, IsUpvalue, IsOpen, CallFrame
<1>4. OpenUpvaluesOrdered' /\ IsProgram(functions)'
  BY <1>1 DEF MachineInv, OpenUpvaluesOrdered, IsOpen
<1> QED
  BY <1>3, <1>4 DEF MachineInv

(* Every step keeps the invariant. *)
LEMMA MachineStep == MachineInv /\ [Next]_vars => MachineInv'
BY JumpTypes, PushTypes, SimpleTypes, SetLocalTypes, SetUpvalueTypes, GlobalTypes,
   OperatorTypes, CallNativeTypes, CallClosureTypes, CloseUpvalueTypes, ReturnTypes,
   MakeClosureTypes, InterpretTypes, EndTypes DEF Next, Step

(* It holds throughout. *)
LEMMA MachineInvariant == Spec => []MachineInv
BY InitTypes, MachineStep, PTL DEF Spec

-----------------------------------------------------------------------------
(* Theorems *)

(***************************************************************************)
(* Whatever the code, even if no compiler would write it: values, frames,  *)
(* closures and the list of open upvalues refer to what exists, the frames *)
(* do not exceed MAX_CALLSTACK_DEPTH, and a running program has one.       *)
(***************************************************************************)
THEOREM TypesCorrect == Spec => []TypeOK
<1>1. MachineInv => TypeOK
  BY DEF MachineInv
<1> QED
  BY <1>1, MachineInvariant, PTL

(***************************************************************************)
(* add_or_get_upvalue and close_upvalues keep the list of open upvalues    *)
(* complete and sorted by stack index, whatever the code: so at most one   *)
(* upvalue per variable is open, and close_upvalues finds those to close   *)
(* at the end of the list.                                                 *)
(***************************************************************************)
THEOREM UpvaluesOrdered == Spec => []OpenUpvaluesOrdered
<1>1. MachineInv => OpenUpvaluesOrdered
  BY DEF MachineInv
<1> QED
  BY <1>1, MachineInvariant, PTL

-----------------------------------------------------------------------------
(***************************************************************************)
(* Well-formed code is safe: an instruction that the walk over a function  *)
(* (Bytecode!Verified) accepts has a defined effect whenever the machine   *)
(* comes to it, and the bottom slot of a frame holds the frame's closure.  *)
(*                                                                         *)
(* The set of places that the walk visits, Flow, stays unexpanded: the     *)
(* proofs only use that it has the function's entry and what follows its   *)
(* members.                                                                *)
(***************************************************************************)

(* The stack indices that open upvalues refer to. *)
OpenIndices == {upvalues[u].index : u \in {v \in DOMAIN upvalues : IsOpen(upvalues[v])}}

(* A frame begins at Bottom; once the call it has made is over, it has Top. *)
Bottom(i) == call_frames[i].stack_offset
Top(i)    == IF i = Len(call_frames) THEN Size_ ELSE Bottom(i + 1) + 1

(***************************************************************************)
(* A frame is where the walk over its function has been: at the address,   *)
(* with the height, and with no more variables captured than the walk      *)
(* knows of.                                                               *)
(***************************************************************************)
InFlow(i) ==
  \E open :
    /\ <<call_frames[i].ip, Top(i) - Bottom(i), open>> \in Flow(functions, FunctionOf(call_frames[i]))
    /\ \A x \in OpenIndices : Bottom(i) <= x /\ x < Top(i) => x - Bottom(i) \in open

(* The frames of a program of well-formed functions. *)
FramesInFlow ==
  /\ Bottom(1) = 0
  /\ closures[call_frames[1].closure].function = 1
  /\ \A i, j \in DOMAIN call_frames : i < j => Bottom(i) < Bottom(j)
  /\ \A c \in DOMAIN closures :
       Len(closures[c].upvalues) = functions[closures[c].function].upvalue_count
  /\ \A i \in DOMAIN call_frames :
       /\ Bottom(i) < Size_
       /\ Get(Bottom(i)) = Closure(call_frames[i].closure)
       /\ Bottom(i) \notin OpenIndices
       /\ InFlow(i)
  /\ \A x \in OpenIndices : x < Size_

(* The inductive invariant. *)
SafeInv ==
  /\ status = "ready" => upvalues = <<>>
  /\ status = "running" /\ WellFormed => FramesInFlow

-----------------------------------------------------------------------------
(* What the walk has found out about a place. *)
LEMMA PlaceFound ==
  ASSUME WellFormed, NEW f \in DOMAIN functions, NEW a, NEW h, NEW open,
         <<a, h, open>> \in Flow(functions, functions[f])
  PROVE  /\ Whole(functions[f], a)
         /\ a + Size(functions, functions[f], a) <= Len(functions[f].code)
         /\ OperandsValid(functions, functions[f], a, h)
         /\ h > Pops(OpAt(functions[f], a), ArgAt(functions[f], a))
         /\ OpAt(functions[f], a) = "OP_RETURN" /\ f = 1 => h = 2
         /\ OpAt(functions[f], a) \notin {"OP_RETURN", "OP_CLOSE_UPVALUE"} =>
              open \cap h - Pops(OpAt(functions[f], a), ArgAt(functions[f], a)) .. h - 1 = {}
         /\ Edges(functions, functions[f], <<a, h, open>>) \subseteq Flow(functions, functions[f])
<1> DEFINE p == <<a, h, open>>
<1>1. p[1] = a /\ p[2] = h /\ p[3] = open
  OBVIOUS
<1>2. Verified(functions, f) /\ p \in Flow(functions, functions[f])
  BY DEF WellFormed, AllVerified
<1> HIDE DEF p
<1> QED
  BY <1>1, <1>2 DEF Verified

(* Frames, while the program runs. *)
LEMMA FrameFacts ==
  ASSUME MachineInv, status = "running"
  PROVE  /\ Len(call_frames) \in Nat \ {0} /\ DOMAIN call_frames = 1 .. Len(call_frames)
         /\ Len(call_frames) \in DOMAIN call_frames
         /\ Frame = call_frames[Len(call_frames)]
         /\ \A i \in DOMAIN call_frames :
              /\ call_frames[i] \in CallFrame
              /\ Bottom(i) \in Nat
              /\ call_frames[i].closure \in DOMAIN closures
              /\ closures[call_frames[i].closure].function \in DOMAIN functions
         /\ Size_ \in Nat /\ Frame.stack_offset \in Nat /\ Ip \in Int
         /\ OpenIndices \subseteq Nat
<1>1. call_frames # <<>> /\ call_frames \in Seq(CallFrame)
  BY DEF MachineInv, TypeOK
<1>2. Len(call_frames) \in Nat \ {0}
  BY <1>1, EmptySeq
<1>3. /\ DOMAIN call_frames = 1 .. Len(call_frames)
      /\ \A i \in DOMAIN call_frames : call_frames[i] \in CallFrame
  BY MachineFacts
<1>4. \A i \in DOMAIN call_frames : /\ Bottom(i) \in Nat
                                    /\ call_frames[i].closure \in DOMAIN closures
  BY <1>3 DEF CallFrame, Bottom
<1>5. \A i \in DOMAIN call_frames : closures[call_frames[i].closure].function \in DOMAIN functions
  BY <1>4, MachineFacts
<1>6. OpenIndices \subseteq Nat
  BY UpvalueFacts DEF OpenIndices
<1>7. Frame = call_frames[Len(call_frames)] /\ Size_ \in Nat
  BY MachineFacts DEF Frame, Last, Size_
<1>8. Frame \in CallFrame
  BY <1>2, <1>3, <1>7
<1> QED
  BY <1>2, <1>3, <1>4, <1>5, <1>6, <1>7, <1>8 DEF CallFrame, Ip

(* The height of the current frame, and its place. *)
Height == Size_ - Frame.stack_offset
Here(open) ==
  /\ <<Ip, Height, open>> \in Flow(functions, CurrFun)
  /\ \A x \in OpenIndices : Frame.stack_offset <= x => x - Frame.stack_offset \in open

(* The walk has passed the place at hand. *)
LEMMA HereIs ==
  ASSUME MachineInv, SafeInv, status = "running", WellFormed
  PROVE  \E open : Here(open)
<1> DEFINE n == Len(call_frames)
<1>1. /\ n \in DOMAIN call_frames /\ Frame = call_frames[n] /\ OpenIndices \subseteq Nat
      /\ Size_ \in Nat
  BY FrameFacts
<1>2. InFlow(n) /\ \A x \in OpenIndices : x < Size_
  BY <1>1 DEF SafeInv, FramesInFlow
<1>3. Top(n) = Size_ /\ Bottom(n) = Frame.stack_offset /\ Ip = call_frames[n].ip
      /\ FunctionOf(call_frames[n]) = CurrFun
  BY <1>1 DEF Top, Bottom, Ip, CurrFun
<1>4. PICK open :
        /\ <<call_frames[n].ip, Top(n) - Bottom(n), open>> \in Flow(functions, FunctionOf(call_frames[n]))
        /\ \A x \in OpenIndices : Bottom(n) <= x /\ x < Top(n) => x - Bottom(n) \in open
  BY <1>2 DEF InFlow
<1>5. Here(open)
  BY <1>2, <1>3, <1>4 DEF Here, Height
<1> QED
  BY <1>5

(* What the walk has found out about the instruction at hand. *)
Arg == ArgAt(CurrFun, Ip)

(* What the verifier has checked of the place at hand. *)
LEMMA HereFacts ==
  ASSUME MachineInv, status = "running", WellFormed, NEW open, Here(open)
  PROVE  /\ Whole(CurrFun, Ip)
         /\ Ip + Size(functions, CurrFun, Ip) <= Len(CurrFun.code)
         /\ OperandsValid(functions, CurrFun, Ip, Height)
         /\ Height > Pops(Opcode, Arg)
         /\ Opcode = "OP_RETURN" /\ closures[Frame.closure].function = 1 => Height = 2
         /\ Opcode \notin {"OP_RETURN", "OP_CLOSE_UPVALUE"} =>
              open \cap Height - Pops(Opcode, Arg) .. Height - 1 = {}
         /\ Edges(functions, CurrFun, <<Ip, Height, open>>) \subseteq Flow(functions, CurrFun)
<1> DEFINE f == closures[Frame.closure].function
<1>1. f \in DOMAIN functions
  BY FrameFacts
<1>2. CurrFun = functions[f] /\ Opcode = OpAt(CurrFun, Ip)
  BY DEF CurrFun, FunctionOf, Opcode, OpAt
<1> HIDE DEF f
<1>3. <<Ip, Height, open>> \in Flow(functions, functions[f])
  BY <1>2 DEF Here
<1> QED
  BY <1>1, <1>2, <1>3, PlaceFound DEF Arg, f

(* The code at hand. *)
LEMMA CodeFacts ==
  ASSUME MachineInv, status = "running", Whole(CurrFun, Ip)
  PROVE  /\ CurrFun.code \in Seq(Nat) /\ Len(CurrFun.code) \in Nat
         /\ Ip \in 0 .. Len(CurrFun.code) - 1
         /\ Opcode \in OpCode /\ Operands[Opcode] \in 0 .. 2
         /\ Ip + Operands[Opcode] < Len(CurrFun.code)
         /\ Arg = IF Operands[Opcode] > 0 THEN Operand ELSE 0
         /\ Arg \in Nat
         /\ functions[closures[Frame.closure].function] = CurrFun
         /\ CurrFun.upvalue_count \in Nat /\ CurrFun.arity \in Nat
         /\ Len(CurrFun.constants) \in Nat
         /\ \A k \in Nat : k < Len(CurrFun.constants) =>
              IsConstant(functions, CurrFun.constants[k + 1])
<1>1. functions[closures[Frame.closure].function] = CurrFun
  BY DEF CurrFun, FunctionOf
<1>2. closures[Frame.closure].function \in DOMAIN functions
  BY FrameFacts
<1>3. /\ CurrFun.code \in Seq(Nat)
      /\ CurrFun.upvalue_count \in Nat /\ CurrFun.arity \in Nat
      /\ CurrFun.constants \in Seq(Range(CurrFun.constants))
      /\ \A v \in Range(CurrFun.constants) : IsConstant(functions, v)
  BY <1>1, <1>2 DEF MachineInv, IsProgram
<1>4. Len(CurrFun.code) \in Nat /\ Len(CurrFun.constants) \in Nat
  BY <1>3, LenProperties
<1>5. /\ Ip \in 0 .. Len(CurrFun.code) - 1
      /\ At(CurrFun.code, Ip) \in DOMAIN Named
      /\ Ip + Operands[Opcode] < Len(CurrFun.code)
  BY DEF Whole, OpAt, Opcode
<1>6. Opcode \in OpCode /\ Operands[Opcode] \in 0 .. 2
  BY <1>5, OpcodeFacts DEF Opcode
<1>7. Arg = IF Operands[Opcode] > 0 THEN Operand ELSE 0
  BY DEF Arg, ArgAt, OpAt, Opcode, Operand
<1>8. Operands[Opcode] > 0 => Operand \in Nat
  <2> HAVE Operands[Opcode] > 0
  <2>1. Ip + 2 \in 1 .. Len(CurrFun.code)
    BY <1>4, <1>5, <1>6
  <2> QED
    BY <2>1, <1>3, <1>5, ElementOfSeq, SMTT(30) DEF Operand, At
<1>9. ASSUME NEW k \in Nat, k < Len(CurrFun.constants)
      PROVE  IsConstant(functions, CurrFun.constants[k + 1])
  <2>1. k + 1 \in 1 .. Len(CurrFun.constants)
    BY <1>4, <1>9
  <2> QED
    BY <2>1, <1>3, ElementOfSeq
<1> QED
  BY <1>1, <1>3, <1>4, <1>5, <1>6, <1>7, <1>8, <1>9

(* In well-formed code every open upvalue refers to the stack. *)
LEMMA ReadableFacts ==
  ASSUME MachineInv, SafeInv, status = "running", WellFormed
  PROVE  /\ \A u \in DOMAIN upvalues : Readable(u)
         /\ \A last \in Int : \A u \in Closing(last) : Readable(u)
<1>1. \A x \in OpenIndices : x < Size_
  BY DEF SafeInv, FramesInFlow
<1>2. \A u \in DOMAIN upvalues : Readable(u)
  BY <1>1 DEF Readable, OpenIndices
<1>3. ASSUME NEW last \in Int, NEW u \in Closing(last) PROVE u \in DOMAIN upvalues
  <2>1. Kept(last) \in 0 .. Len(open_upvalues)
    BY MachineFacts, KeptFacts
  <2>2. PICK i \in Kept(last) + 1 .. Len(open_upvalues) : u = open_upvalues[i]
    BY <1>3 DEF Closing
  <2>3. /\ Len(open_upvalues) \in Nat /\ DOMAIN upvalues = 1 .. Len(upvalues)
        /\ \A j \in 1 .. Len(open_upvalues) : open_upvalues[j] \in 1 .. Len(upvalues)
    BY MachineFacts, ListedElements
  <2> QED
    BY <2>1, <2>2, <2>3
<1> QED
  BY <1>2, <1>3

(* The walk's captures are those of the loop. *)
LEMMA CapturesFacts ==
  ASSUME MachineInv, status = "running", Whole(CurrFun, Ip), Opcode = "OP_CLOSURE",
         Arg < Len(CurrFun.constants), IsFun(CurrFun.constants[Arg + 1]),
         Ip + Size(functions, CurrFun, Ip) <= Len(CurrFun.code)
  PROVE  /\ Arg = Operand /\ Constant = CurrFun.constants[Arg + 1] /\ IsFun(Constant)
         /\ Template.upvalue_count \in Nat
         /\ Size(functions, CurrFun, Ip) = 2 + 2 * Template.upvalue_count
         /\ Ip + 1 + 2 * Template.upvalue_count < Len(CurrFun.code)
         /\ \A i \in 0 .. Template.upvalue_count - 1 :
              <<At(CurrFun.code, Ip + 2 + 2 * i), CaptureIndex(i)>>
                \in Captures(functions, CurrFun, Ip)
<1>1. /\ Operands[Opcode] = 1 /\ Arg = Operand /\ Operand \in Nat /\ Ip \in Nat
      /\ OpAt(CurrFun, Ip) = Opcode /\ Len(CurrFun.code) \in Nat
  BY CodeFacts, OperandFacts DEF OpAt, Opcode
<1>2. Constant = CurrFun.constants[Arg + 1] /\ IsFun(Constant)
  BY <1>1 DEF Constant
<1>3. IsConstant(functions, Constant)
  BY <1>1, <1>2, CodeFacts
<1>4. Constant \in [fun : DOMAIN functions]
  BY <1>2, <1>3 DEF IsConstant, IsFun, IsNum, IsStr
<1>5. Template.upvalue_count \in Nat
  BY <1>4 DEF Template, MachineInv, IsProgram
<1> DEFINE N == Template.upvalue_count
<1>6. Size(functions, CurrFun, Ip) = 2 + 2 * N
  BY <1>1, <1>2, <1>5 DEF Size, Arg, Template
<1>7. Ip + 1 + 2 * N < Len(CurrFun.code)
  BY <1>1, <1>5, <1>6
<1>8. ASSUME NEW i \in 0 .. N - 1
      PROVE  <<At(CurrFun.code, Ip + 2 + 2 * i), CaptureIndex(i)>>
               \in Captures(functions, CurrFun, Ip)
  <2>1. Ip + 3 + 2 * i < Len(CurrFun.code)
    BY <1>1, <1>5, <1>7
  <2> DEFINE J == {j \in 0 .. N - 1 : Ip + 3 + 2 * j < Len(CurrFun.code)}
  <2>2. i \in J
    BY <2>1
  <2>3. Captures(functions, CurrFun, Ip) =
          {<<At(CurrFun.code, Ip + 2 + 2 * j), At(CurrFun.code, Ip + 3 + 2 * j)>> : j \in J}
    BY <1>1, <1>2 DEF Captures, Arg, Template
  <2> HIDE DEF J
  <2> QED
    BY <2>2, <2>3 DEF CaptureIndex
<1> QED
  BY <1>1, <1>2, <1>5, <1>6, <1>7, <1>8

(* The instruction at hand of well-formed code has a defined effect. *)
LEMMA DefinedHere ==
  ASSUME MachineInv, SafeInv, status = "running", WellFormed
  PROVE  Defined
<1> DEFINE n == Len(call_frames)
<1>1. PICK open : Here(open)
  BY HereIs
<1>2. /\ Whole(CurrFun, Ip)
      /\ Ip + Size(functions, CurrFun, Ip) <= Len(CurrFun.code)
      /\ OperandsValid(functions, CurrFun, Ip, Height)
      /\ Height > Pops(Opcode, Arg)
      /\ Opcode = "OP_RETURN" /\ closures[Frame.closure].function = 1 => Height = 2
  BY <1>1, HereFacts
<1>3. /\ Ip \in 0 .. Len(CurrFun.code) - 1
      /\ Opcode \in OpCode /\ Operands[Opcode] \in 0 .. 2
      /\ Ip + Operands[Opcode] < Len(CurrFun.code)
      /\ Arg = (IF Operands[Opcode] > 0 THEN Operand ELSE 0) /\ Arg \in Nat
  BY <1>2, CodeFacts
<1>4. /\ n \in Nat \ {0} /\ Size_ \in Nat /\ Frame.stack_offset \in Nat
      /\ Frame = call_frames[n] /\ n \in DOMAIN call_frames
      /\ Frame.closure \in DOMAIN closures
  BY FrameFacts
<1>5. OpAt(CurrFun, Ip) = Opcode
  BY DEF OpAt, Opcode
<1>6. Size_ = Frame.stack_offset + Height /\ Height \in Int
  BY <1>4 DEF Height
<1>7. \A op : op \in {"OP_CONSTANT", "OP_GET_LOCAL", "OP_SET_LOCAL", "OP_GET_GLOBAL",
                      "OP_DEFINE_GLOBAL", "OP_SET_GLOBAL", "OP_CALL", "OP_CLOSURE",
                      "OP_NOOP", "OP_GET_UPVALUE", "OP_SET_UPVALUE"} /\ Opcode = op =>
                Arg = Operand
  BY <1>3, OperandFacts
<1>8. Size_ >= Needed(Opcode)
  <2>1. Pops(Opcode, Arg) >= Needed(Opcode)
    <3>1. CASE Opcode = "OP_CALL"
      BY <3>1, <1>3, <1>7 DEF Pops, Needed, ArgCount
    <3>2. CASE Opcode # "OP_CALL"
      BY <3>2 DEF Pops, Needed
    <3> QED
      BY <3>1, <3>2
  <2>2. Pops(Opcode, Arg) \in Int /\ Needed(Opcode) \in Int
    BY <1>3, <1>7 DEF Pops, Needed, ArgCount
  <2> QED
    BY <2>1, <2>2, <1>2, <1>4, <1>6
<1>9. Opcode \in {"OP_CONSTANT", "OP_GET_GLOBAL", "OP_SET_GLOBAL", "OP_DEFINE_GLOBAL",
                  "OP_CLOSURE"} => Operand < Len(CurrFun.constants)
  BY <1>2, <1>5, <1>7 DEF OperandsValid, Arg
<1>10. Opcode \in {"OP_GET_LOCAL", "OP_SET_LOCAL"} => Slot < Size_
  <2> HAVE Opcode \in {"OP_GET_LOCAL", "OP_SET_LOCAL"}
  <2>1. Arg \in 1 .. Height - 1 /\ Arg = Operand
    BY <1>2, <1>5, <1>7 DEF OperandsValid, Arg
  <2> QED
    BY <2>1, <1>4, <1>6 DEF Slot
<1>11. ASSUME NEW c \in DOMAIN closures
       PROVE  Len(closures[c].upvalues) = functions[closures[c].function].upvalue_count
  BY DEF SafeInv, FramesInFlow
<1>12. Len(closures[Frame.closure].upvalues) = CurrFun.upvalue_count
  BY <1>4, <1>11 DEF CurrFun, FunctionOf
<1>13. Opcode \in {"OP_GET_UPVALUE", "OP_SET_UPVALUE"} =>
         Operand < Len(closures[Frame.closure].upvalues) /\ Readable(Captured)
  <2> HAVE Opcode \in {"OP_GET_UPVALUE", "OP_SET_UPVALUE"}
  <2>1. Arg < CurrFun.upvalue_count /\ Arg = Operand
    BY <1>2, <1>5, <1>7 DEF OperandsValid, Arg
  <2>2. closures[Frame.closure].upvalues \in Seq(DOMAIN upvalues)
    BY <1>4, MachineFacts
  <2>3. Operand + 1 \in 1 .. Len(closures[Frame.closure].upvalues)
    BY <2>1, <2>2, <1>3, <1>12, LenProperties
  <2>4. Captured \in DOMAIN upvalues
    BY <2>2, <2>3, ElementOfSeq DEF Captured
  <2> QED
    BY <2>1, <2>4, <1>12, ReadableFacts
<1>14. Opcode = "OP_CLOSE_UPVALUE" => \A u \in Closing(Size_ - 1) : Readable(u)
  BY <1>4, ReadableFacts
<1>15. Opcode = "OP_RETURN" =>
         /\ \A u \in Closing(Frame.stack_offset + 1) : Readable(u)
         /\ IF n = 1 THEN Size_ = 2 ELSE Frame.stack_offset < Size_
  <2> HAVE Opcode = "OP_RETURN"
  <2>1. \A u \in Closing(Frame.stack_offset + 1) : Readable(u)
    BY <1>4, ReadableFacts
  <2>2. Height > 1
    BY <1>2 DEF Pops
  <2>3. n = 1 => Size_ = 2
    <3> HAVE n = 1
    <3>1. Frame.stack_offset = 0 /\ closures[Frame.closure].function = 1
      BY <1>4 DEF SafeInv, FramesInFlow, Bottom
    <3> QED
      BY <3>1, <1>2, <1>6
  <2> QED
    BY <2>1, <2>2, <2>3, <1>4, <1>6
<1>16. Opcode = "OP_CLOSURE" /\ IsFun(Constant) =>
         /\ Template.upvalue_count <= UINT8_MAX
         /\ Ip + 1 + 2 * Template.upvalue_count < Len(CurrFun.code)
         /\ \A i \in 0 .. Template.upvalue_count - 1 :
              IsLocal(i) \/ CaptureIndex(i) < Len(closures[Frame.closure].upvalues)
  <2> HAVE Opcode = "OP_CLOSURE" /\ IsFun(Constant)
  <2>1. /\ Arg < Len(CurrFun.constants) /\ IsFun(CurrFun.constants[Arg + 1])
        /\ \A c \in Captures(functions, CurrFun, Ip) :
             IF c[1] # 0 THEN c[2] \in 1 .. Height ELSE c[2] < CurrFun.upvalue_count
    BY <1>2, <1>5 DEF OperandsValid, Arg
  <2>2. /\ Constant = CurrFun.constants[Arg + 1]
        /\ Ip + 1 + 2 * Template.upvalue_count < Len(CurrFun.code)
        /\ \A i \in 0 .. Template.upvalue_count - 1 :
             <<At(CurrFun.code, Ip + 2 + 2 * i), CaptureIndex(i)>> \in Captures(functions, CurrFun, Ip)
    BY <1>2, <2>1, CapturesFacts
  <2>3. ASSUME NEW i \in 0 .. Template.upvalue_count - 1, ~IsLocal(i)
        PROVE  CaptureIndex(i) < CurrFun.upvalue_count
    <3> DEFINE c == <<At(CurrFun.code, Ip + 2 + 2 * i), CaptureIndex(i)>>
    <3>1. c \in Captures(functions, CurrFun, Ip) /\ c[1] = 0 /\ c[2] = CaptureIndex(i)
      BY <2>2, <2>3 DEF IsLocal
    <3> QED
      BY <3>1, <2>1
  <2>4. Template.upvalue_count <= UINT8_MAX
    <3>1. IsConstant(functions, Constant)
      BY <1>2, <1>3, <2>1, <2>2, CodeFacts
    <3>2. Constant.fun \in DOMAIN functions
      BY <3>1 DEF IsConstant, IsFun, IsNum, IsStr
    <3> QED
      BY <3>2 DEF Template, WellFormed, AllVerified
  <2> QED
    BY <1>12, <2>2, <2>3, <2>4
<1> QED
  BY <1>3, <1>8, <1>9, <1>10, <1>13, <1>14, <1>15, <1>16 DEF Defined

-----------------------------------------------------------------------------
(* Steps within the current frame *)

(* The places that follow, but for the instructions that change what is captured. *)
LEMMA EdgeFacts ==
  ASSUME NEW fs, NEW f, NEW a, NEW h, NEW open, Whole(f, a),
         OpAt(f, a) \notin {"OP_CLOSURE", "OP_CLOSE_UPVALUE"}, NEW b \in Successors(fs, f, a)
  PROVE  <<b, h - Pops(OpAt(f, a), ArgAt(f, a)) + Pushes(OpAt(f, a)), open>>
           \in Edges(fs, f, <<a, h, open>>)
BY DEF Edges

(* The current frame comes to another place of its function. *)
LEMMA TopStep ==
  ASSUME MachineInv, SafeInv, status = "running", WellFormed,
         functions' = functions,
         Len(call_frames') = Len(call_frames),
         DOMAIN call_frames' = DOMAIN call_frames,
         \A i \in 1 .. Len(call_frames) - 1 : call_frames'[i] = call_frames[i],
         NEW ip, call_frames'[Len(call_frames)] = [Frame EXCEPT !.ip = ip],
         NEW open, <<ip, Len(stack') - Frame.stack_offset, open>> \in Flow(functions, CurrFun),
         Len(stack') \in Nat, Frame.stack_offset < Len(stack'),
         \A i \in DOMAIN call_frames : stack'[Bottom(i) + 1] = stack[Bottom(i) + 1],
         \A c \in DOMAIN closures : c \in DOMAIN closures' /\ closures'[c] = closures[c],
         \A c \in DOMAIN closures' \ DOMAIN closures :
           Len(closures'[c].upvalues) = functions[closures'[c].function].upvalue_count,
         OpenIndices' \subseteq Nat,
         \A x \in OpenIndices' :
           /\ x \in OpenIndices \/ x > Frame.stack_offset
           /\ x < Len(stack')
           /\ Frame.stack_offset <= x => x - Frame.stack_offset \in open
  PROVE  FramesInFlow'
<1>0. PICK n : n = Len(call_frames)
  OBVIOUS
<1>1. /\ n \in Nat \ {0} /\ DOMAIN call_frames = 1 .. n /\ Frame = call_frames[n]
      /\ \A i \in DOMAIN call_frames :
           call_frames[i] \in CallFrame /\ Bottom(i) \in Nat /\ call_frames[i].closure \in DOMAIN closures
      /\ Size_ \in Nat /\ OpenIndices \subseteq Nat
  BY <1>0, FrameFacts
<1>2. /\ Bottom(1) = 0
      /\ closures[call_frames[1].closure].function = 1
      /\ \A i, j \in DOMAIN call_frames : i < j => Bottom(i) < Bottom(j)
      /\ \A c \in DOMAIN closures :
           Len(closures[c].upvalues) = functions[closures[c].function].upvalue_count
      /\ \A i \in DOMAIN call_frames :
           /\ Get(Bottom(i)) = Closure(call_frames[i].closure)
           /\ Bottom(i) \notin OpenIndices
           /\ InFlow(i)
  BY DEF SafeInv, FramesInFlow
<1>3. \A i \in 1 .. n : /\ call_frames'[i].closure = call_frames[i].closure
                        /\ call_frames'[i].stack_offset = call_frames[i].stack_offset
                        /\ i # n => call_frames'[i].ip = call_frames[i].ip
  <2> TAKE i \in 1 .. n
  <2>1. CASE i = n
    BY <2>1, <1>0, <1>1 DEF CallFrame
  <2>2. CASE i # n
    BY <2>2, <1>0, <1>1
  <2> QED
    BY <2>1, <2>2
<1>4. call_frames'[n].ip = ip
  BY <1>0, <1>1 DEF CallFrame
<1>5. Bottom(n) = Frame.stack_offset /\ \A i \in 1 .. n : Bottom(i)' = Bottom(i)
  BY <1>1, <1>3 DEF Bottom
<1>6. \A i \in 1 .. n : Bottom(i) <= Bottom(n)
  BY <1>1, <1>2, SMTT(30)
<1>7. \A i \in 1 .. n : FunctionOf(call_frames[i])' = FunctionOf(call_frames[i])
  BY <1>1, <1>3 DEF FunctionOf
<1>8. \A i \in 1 .. n : Top(i)' = IF i = n THEN Len(stack') ELSE Bottom(i + 1) + 1
  <2> TAKE i \in 1 .. n
  <2>1. CASE i = n
    BY <2>1, <1>0 DEF Top, Size_
  <2>2. CASE i # n
    <3>1. i + 1 \in 1 .. n /\ i # Len(call_frames')
      BY <2>2, <1>0, <1>1
    <3>2. Top(i)' = Bottom(i + 1)' + 1
      BY <3>1 DEF Top
    <3> QED
      BY <2>2, <3>1, <3>2, <1>5
  <2> QED
    BY <2>1, <2>2
<1>9. ASSUME NEW i \in 1 .. n PROVE InFlow(i)'
  <2>1. CASE i = n
    <3>1. <<call_frames'[n].ip, Top(n)' - Bottom(n)', open>> \in Flow(functions', FunctionOf(call_frames[n])')
      <4>1. n \in 1 .. n
        BY <1>1
      <4>2. Top(n)' = Len(stack') /\ Bottom(n)' = Frame.stack_offset
        BY <4>1, <1>5, <1>8
      <4>3. FunctionOf(call_frames[n])' = CurrFun
        BY <4>1, <1>1, <1>7 DEF CurrFun
      <4> QED
        BY <4>2, <4>3, <1>4
    <3>2. \A x \in OpenIndices' : Bottom(n)' <= x => x - Bottom(n)' \in open
      BY <1>1, <1>5
    <3> QED
      BY <2>1, <3>1, <3>2 DEF InFlow
  <2>2. CASE i # n
    <3>1. i + 1 \in 1 .. n /\ Bottom(i + 1) <= Bottom(n) /\ Bottom(i + 1) \in Nat
      BY <2>2, <1>1, <1>6
    <3>2. Top(i) = Bottom(i + 1) + 1 /\ Top(i)' = Bottom(i + 1) + 1
      BY <2>2, <1>0, <1>8 DEF Top
    <3>3. PICK o : /\ <<call_frames[i].ip, Top(i) - Bottom(i), o>> \in Flow(functions, FunctionOf(call_frames[i]))
                   /\ \A x \in OpenIndices : Bottom(i) <= x /\ x < Top(i) => x - Bottom(i) \in o
      BY <1>1, <1>2 DEF InFlow
    <3>4. <<call_frames'[i].ip, Top(i)' - Bottom(i)', o>> \in Flow(functions', FunctionOf(call_frames[i])')
      BY <2>2, <3>2, <3>3, <1>3, <1>5, <1>7
    <3>5. ASSUME NEW x \in OpenIndices', Bottom(i) <= x, x < Top(i)
          PROVE  x - Bottom(i) \in o
      <4>1. x \in OpenIndices
        BY <3>1, <3>2, <3>5, <1>1, <1>5
      <4> QED
        BY <3>3, <3>5, <4>1
    <3>6. \A x \in OpenIndices' : Bottom(i)' <= x /\ x < Top(i)' => x - Bottom(i)' \in o
      BY <3>2, <3>5, <1>5
    <3> QED
      BY <3>4, <3>6 DEF InFlow
  <2> QED
    BY <2>1, <2>2
<1>10. ASSUME NEW i \in 1 .. n
       PROVE  /\ Bottom(i)' < Size_'
              /\ Get(Bottom(i))' = Closure(call_frames[i].closure)'
              /\ Bottom(i)' \notin OpenIndices'
  <2>1. Bottom(i)' < Size_'
    BY <1>1, <1>5, <1>6 DEF Size_
  <2>2. Get(Bottom(i))' = Closure(call_frames[i].closure)'
    <3>1. stack'[Bottom(i) + 1] = stack[Bottom(i) + 1]
      BY <1>1
    <3>2. stack[Bottom(i) + 1] = Closure(call_frames[i].closure)
      BY <1>1, <1>2 DEF Get
    <3> QED
      BY <3>1, <3>2, <1>3, <1>5 DEF Get, Closure
  <2>3. Bottom(i)' \notin OpenIndices'
    BY <1>1, <1>2, <1>5, <1>6
  <2> QED
    BY <2>1, <2>2, <2>3
<1>11. /\ Bottom(1)' = 0
       /\ closures'[call_frames'[1].closure].function = 1
       /\ \A i, j \in 1 .. n : i < j => Bottom(i)' < Bottom(j)'
  <2>1. 1 \in 1 .. n
    BY <1>1
  <2> QED
    BY <2>1, <1>1, <1>2, <1>3, <1>5
<1>12. \A c \in DOMAIN closures' :
         Len(closures'[c].upvalues) = functions'[closures'[c].function].upvalue_count
  BY <1>2
<1>13. \A x \in OpenIndices' : x < Size_'
  BY DEF Size_
<1>14. DOMAIN call_frames' = 1 .. n
  BY <1>0, <1>1
<1> QED
  BY <1>9, <1>10, <1>11, <1>12, <1>13, <1>14 DEF FramesInFlow

(* Instructions that capture nothing and return from nothing. *)
LEMMA PlainStep ==
  ASSUME MachineInv, SafeInv, WellFormed, NEW ops, Fetch(ops),
         ops \cap {"OP_RETURN", "OP_CLOSE_UPVALUE", "OP_CLOSURE"} = {},
         NEW further \in Int, Proceed(further),
         Ip + 1 + Operands[Opcode] + further \in Successors(functions, CurrFun, Ip),
         UNCHANGED <<functions, closures>>, OpenIndices' = OpenIndices,
         Len(stack') = Size_ - Pops(Opcode, Arg) + Pushes(Opcode),
         \A i \in DOMAIN call_frames : Bottom(i) + 1 <= Size_ - Pops(Opcode, Arg) =>
           stack'[Bottom(i) + 1] = stack[Bottom(i) + 1]
  PROVE  FramesInFlow'
<1> DEFINE n  == Len(call_frames)
           ip == Ip + 1 + Operands[Opcode] + further
           pops == Pops(Opcode, Arg)
           pushes == Pushes(Opcode)
<1>1. /\ status = "running" /\ Opcode \in OpCode
      /\ Opcode \notin {"OP_RETURN", "OP_CLOSE_UPVALUE", "OP_CLOSURE"}
  BY InstructionFacts
<1>2. PICK open : Here(open)
  BY <1>1, HereIs
<1>3. /\ Whole(CurrFun, Ip) /\ Height > pops
      /\ open \cap Height - pops .. Height - 1 = {}
      /\ Edges(functions, CurrFun, <<Ip, Height, open>>) \subseteq Flow(functions, CurrFun)
  BY <1>1, <1>2, HereFacts
<1>4. Arg \in Nat
  BY <1>1, <1>3, CodeFacts
<1>5. pops \in Nat /\ pushes \in Nat
  BY <1>4 DEF Pops, Pushes
<1>6. /\ n \in Nat \ {0} /\ DOMAIN call_frames = 1 .. n /\ Frame = call_frames[n]
      /\ \A i \in DOMAIN call_frames : Bottom(i) \in Nat
      /\ Size_ \in Nat /\ Frame.stack_offset \in Nat /\ OpenIndices \subseteq Nat
  BY <1>1, FrameFacts
<1>7. Size_ = Frame.stack_offset + Height /\ Height \in Int
  BY <1>6 DEF Height
<1> HIDE DEF pops, pushes
<1>8. <<ip, Height - pops + pushes, open>> \in Flow(functions, CurrFun)
  <2>1. OpAt(CurrFun, Ip) = Opcode /\ ArgAt(CurrFun, Ip) = Arg
    BY DEF OpAt, Opcode, Arg
  <2> HIDE DEF ip
  <2>2. ip \in Successors(functions, CurrFun, Ip)
    BY DEF ip
  <2>3. <<ip, Height - pops + pushes, open>> \in Edges(functions, CurrFun, <<Ip, Height, open>>)
    BY <1>1, <1>3, <2>1, <2>2, EdgeFacts DEF pops, pushes
  <2> QED
    BY <1>3, <2>3
<1>9. Len(stack') - Frame.stack_offset = Height - pops + pushes /\ Len(stack') \in Nat
      /\ Frame.stack_offset < Len(stack')
  BY <1>3, <1>5, <1>6, <1>7 DEF pops, pushes
<1>10. /\ Len(call_frames') = n
       /\ DOMAIN call_frames' = DOMAIN call_frames
       /\ \A i \in 1 .. n - 1 : call_frames'[i] = call_frames[i]
       /\ call_frames'[n] = [Frame EXCEPT !.ip = ip]
  BY <1>6, ProceedFacts, LenProperties
<1>11. \A i \in DOMAIN call_frames : stack'[Bottom(i) + 1] = stack[Bottom(i) + 1]
  <2> TAKE i \in DOMAIN call_frames
  <2>1. Bottom(i) <= Bottom(n) /\ Bottom(n) = Frame.stack_offset
    BY <1>1, <1>6 DEF SafeInv, FramesInFlow, Bottom
  <2>2. Bottom(i) + 1 <= Size_ - pops
    BY <2>1, <1>3, <1>5, <1>6, <1>7, SMTT(30)
  <2> QED
    BY <2>2 DEF pops
<1>12. ASSUME NEW x \in OpenIndices'
       PROVE  /\ x \in OpenIndices
              /\ x < Len(stack')
              /\ Frame.stack_offset <= x => x - Frame.stack_offset \in open
  <2>1. x \in OpenIndices /\ x < Size_ /\ x \in Nat
    BY <1>1, <1>6 DEF SafeInv, FramesInFlow
  <2>2. Frame.stack_offset <= x => x - Frame.stack_offset \in open
    BY <2>1, <1>2 DEF Here
  <2>3. x - Frame.stack_offset \in open => x - Frame.stack_offset < Height - pops
    BY <2>1, <1>3, <1>5, <1>6, <1>7, SMTT(30)
  <2> QED
    BY <2>1, <2>2, <2>3, <1>5, <1>6, <1>7, <1>9, <1>3
<1>13. <<ip, Len(stack') - Frame.stack_offset, open>> \in Flow(functions, CurrFun)
  BY <1>8, <1>9
<1>14. \A c \in DOMAIN closures : c \in DOMAIN closures' /\ closures'[c] = closures[c]
  OBVIOUS
<1>15. OpenIndices' \subseteq Nat
  BY <1>6
<1> HIDE DEF ip
<1> QED
  BY <1>1, <1>9, <1>10, <1>11, <1>12, <1>13, <1>14, <1>15, TopStep

-----------------------------------------------------------------------------
(* One lemma per kind of instruction *)

(* Where control goes after most instructions. *)
LEMMA FallsThrough ==
  ASSUME MachineInv, NEW ops, Fetch(ops),
         Opcode \notin {"OP_RETURN", "OP_JUMP", "OP_LOOP", "OP_CLOSURE"}
  PROVE  Ip + 1 + Operands[Opcode] + 0 \in Successors(functions, CurrFun, Ip)
<1>1. Ip \in Nat /\ Operands[Opcode] \in 0 .. 2
  BY InstructionFacts
<1>2. OpAt(CurrFun, Ip) = Opcode
  BY DEF OpAt, Opcode
<1>3. Size(functions, CurrFun, Ip) = 1 + Operands[Opcode]
  BY <1>1, <1>2 DEF Size
<1>4. Ip + Size(functions, CurrFun, Ip) \in Successors(functions, CurrFun, Ip)
  BY <1>2 DEF Successors
<1> QED
  BY <1>1, <1>3, <1>4

(* What an instruction that is executed takes off the stack is there. *)
LEMMA PopsFacts ==
  ASSUME MachineInv, SafeInv, WellFormed, NEW ops, Fetch(ops)
  PROVE  /\ Pops(Opcode, Arg) \in 0 .. Size_ - 1 /\ Size_ \in Nat
         /\ Opcode \in ops /\ Opcode \in OpCode
         /\ status = "running"
         /\ \A i \in DOMAIN call_frames : Bottom(i) \in Nat
<1>1. status = "running" /\ Opcode \in ops /\ Opcode \in OpCode
  BY InstructionFacts
<1>2. PICK open : Here(open)
  BY <1>1, HereIs
<1>3. Whole(CurrFun, Ip) /\ Height > Pops(Opcode, Arg)
  BY <1>1, <1>2, HereFacts
<1>4. Arg \in Nat
  BY <1>1, <1>3, CodeFacts
<1>5. Pops(Opcode, Arg) \in Nat
  BY <1>4 DEF Pops
<1>6. Size_ \in Nat /\ Frame.stack_offset \in Nat /\ \A i \in DOMAIN call_frames : Bottom(i) \in Nat
  BY <1>1, FrameFacts
<1> QED
  BY <1>1, <1>3, <1>5, <1>6 DEF Height

(* The captured slots are those of the open upvalues alone. *)
LEMMA OpenIndicesUnchanged == UNCHANGED upvalues => OpenIndices' = OpenIndices
BY DEF OpenIndices, IsOpen

(* Both places a jump may go to are in the flow. *)
LEMMA JumpSafe ==
  ASSUME MachineInv, SafeInv, WellFormed, Jump
  PROVE  FramesInFlow'
<1> DEFINE ops == {"OP_JUMP_IF_FALSE", "OP_JUMP", "OP_LOOP"}
<1>1. Fetch(ops) /\ Proceed(Distance) /\ UNCHANGED stack /\ Quiet
  BY DEF Jump
<1>2. /\ Opcode \in ops /\ Opcode \in OpCode /\ Size_ \in Nat
  BY <1>1, PopsFacts
<1>3. /\ Operands[Opcode] = 2 /\ Ip \in Nat
      /\ Operands[Opcode] >= 2 => Uint16(CurrFun.code, Ip + 1) \in Int
  BY <1>1, <1>2, OperandFacts, InstructionFacts
<1>4. OpAt(CurrFun, Ip) = Opcode
  BY DEF OpAt, Opcode
<1>5. Size(functions, CurrFun, Ip) = 3
  BY <1>2, <1>3, <1>4 DEF Size
<1>6. Distance \in Int /\ Ip + 1 + Operands[Opcode] + Distance \in Successors(functions, CurrFun, Ip)
  <2> DEFINE offset == Uint16(CurrFun.code, Ip + 1)
  <2>1. offset \in Int
    BY <1>3
  <2> HIDE DEF offset
  <2>2. CASE Opcode = "OP_JUMP_IF_FALSE"
    <3>1. Distance \in {offset, 0}
      BY <2>2 DEF Distance, offset
    <3>2. Successors(functions, CurrFun, Ip) = {Ip + 3, Ip + 3 + offset}
      BY <2>2, <1>4, <1>5 DEF Successors, offset
    <3> QED
      BY <3>1, <3>2, <2>1, <1>3
  <2>3. CASE Opcode = "OP_JUMP"
    <3>1. Distance = offset
      BY <2>3 DEF Distance, offset
    <3>2. Successors(functions, CurrFun, Ip) = {Ip + 3 + offset}
      BY <2>3, <1>4, <1>5 DEF Successors, offset
    <3> QED
      BY <3>1, <3>2, <2>1, <1>3
  <2>4. CASE Opcode = "OP_LOOP"
    <3>1. Distance = -offset
      BY <2>4 DEF Distance, offset
    <3>2. Successors(functions, CurrFun, Ip) = {(Ip + 3) - offset}
      BY <2>4, <1>4, <1>5 DEF Successors, offset
    <3> QED
      BY <3>1, <3>2, <2>1, <1>3
  <2> QED
    BY <1>2, <2>2, <2>3, <2>4
<1>7. Len(stack') = Size_ - Pops(Opcode, Arg) + Pushes(Opcode)
  BY <1>1, <1>2 DEF Pops, Pushes, Size_
<1>8. ops \cap {"OP_RETURN", "OP_CLOSE_UPVALUE", "OP_CLOSURE"} = {}
  OBVIOUS
<1> HIDE DEF ops
<1> QED
  BY <1>1, <1>6, <1>7, <1>8, OpenIndicesUnchanged, PlainStep DEF Quiet

(* Instructions that only change the top of the stack, and go on behind themselves. *)
LEMMA TopOfStackSafe ==
  ASSUME MachineInv, SafeInv, WellFormed, NEW ops, Fetch(ops),
         ops \cap {"OP_RETURN", "OP_CLOSE_UPVALUE", "OP_CLOSURE", "OP_JUMP", "OP_LOOP"} = {},
         Proceed(0), UNCHANGED <<functions, closures, upvalues>>,
         \/ stack' = Dropped(Pops(Opcode, Arg)) /\ Pushes(Opcode) = 0
         \/ \E v : /\ stack' = Append(Dropped(Pops(Opcode, Arg)), v) /\ IsValue(v)
                   /\ Pushes(Opcode) = 1
  PROVE  FramesInFlow'
<1> DEFINE pops == Pops(Opcode, Arg)
<1>1. /\ pops \in 0 .. Size_ - 1 /\ Size_ \in Nat /\ Opcode \in ops
      /\ \A i \in DOMAIN call_frames : Bottom(i) \in Nat
  BY PopsFacts
<1>2. Ip + 1 + Operands[Opcode] + 0 \in Successors(functions, CurrFun, Ip)
  BY <1>1, FallsThrough
<1>3. IsValue(Nil)
  BY ValueFacts
<1> HIDE DEF pops
<1>4. /\ Len(stack') = Size_ - pops + Pushes(Opcode)
      /\ \A k \in 1 .. Size_ - pops : stack'[k] = stack[k]
  <2>1. pops \in 0 .. Size_
    BY <1>1
  <2>2. CASE stack' = Dropped(pops) /\ Pushes(Opcode) = 0
    <3>1. /\ Len(Dropped(pops)) = Size_ - pops
          /\ \A k \in 1 .. Size_ - pops : Dropped(pops)[k] = stack[k]
      BY <2>1, <1>3, StackFacts
    <3>2. Size_ - pops + Pushes(Opcode) = Size_ - pops
      BY <2>2, <1>1
    <3> QED
      BY <3>1, <3>2, <2>2
  <2>3. ASSUME NEW v, stack' = Append(Dropped(pops), v), IsValue(v), Pushes(Opcode) = 1
        PROVE  /\ Len(stack') = Size_ - pops + Pushes(Opcode)
               /\ \A k \in 1 .. Size_ - pops : stack'[k] = stack[k]
    BY <2>1, <2>3, StackFacts
  <2> QED
    BY <2>2, <2>3 DEF pops
<1>5. \A i \in DOMAIN call_frames : Bottom(i) + 1 <= Size_ - pops =>
        stack'[Bottom(i) + 1] = stack[Bottom(i) + 1]
  BY <1>1, <1>4
<1> QED
  BY <1>2, <1>4, <1>5, OpenIndicesUnchanged, PlainStep DEF pops

(* Instructions that leave the stack alone, or replace a slot that no frame begins at. *)
LEMMA SameSizeSafe ==
  ASSUME MachineInv, SafeInv, WellFormed, NEW ops, Fetch(ops),
         ops \cap {"OP_RETURN", "OP_CLOSE_UPVALUE", "OP_CLOSURE", "OP_JUMP", "OP_LOOP"} = {},
         Proceed(0), UNCHANGED <<functions, closures>>, OpenIndices' = OpenIndices,
         Pops(Opcode, Arg) = Pushes(Opcode),
         \/ UNCHANGED stack
         \/ \E k \in 1 .. Size_ : /\ \E v : stack' = [stack EXCEPT ![k] = v]
                                  /\ \A i \in DOMAIN call_frames : Bottom(i) + 1 # k
  PROVE  FramesInFlow'
<1> DEFINE pops == Pops(Opcode, Arg)
<1>1. /\ pops \in 0 .. Size_ - 1 /\ Size_ \in Nat /\ Opcode \in ops
      /\ \A i \in DOMAIN call_frames : Bottom(i) \in Nat
  BY PopsFacts
<1>2. Ip + 1 + Operands[Opcode] + 0 \in Successors(functions, CurrFun, Ip)
  BY <1>1, FallsThrough
<1> HIDE DEF pops
<1>3. /\ Len(stack') = Size_
      /\ \A i \in DOMAIN call_frames : Bottom(i) + 1 <= Size_ - pops =>
           stack'[Bottom(i) + 1] = stack[Bottom(i) + 1]
  <2>1. CASE UNCHANGED stack
    BY <2>1 DEF Size_
  <2>2. ASSUME NEW k \in 1 .. Size_, NEW v, stack' = [stack EXCEPT ![k] = v],
               \A i \in DOMAIN call_frames : Bottom(i) + 1 # k
        PROVE  /\ Len(stack') = Size_
               /\ \A i \in DOMAIN call_frames : Bottom(i) + 1 <= Size_ - pops =>
                    stack'[Bottom(i) + 1] = stack[Bottom(i) + 1]
    <3>1. /\ Len(stack') = Size_
          /\ \A l \in 1 .. Size_ : stack'[l] = IF l = k THEN v ELSE stack[l]
      BY <2>2, MachineFacts, ExceptFacts DEF Size_
    <3>2. ASSUME NEW i \in DOMAIN call_frames, Bottom(i) + 1 <= Size_ - pops
          PROVE  stack'[Bottom(i) + 1] = stack[Bottom(i) + 1]
      <4>1. Bottom(i) + 1 \in 1 .. Size_
        BY <3>2, <1>1
      <4> QED
        BY <4>1, <3>1, <2>2
    <3> QED
      BY <3>1, <3>2
  <2> QED
    BY <2>1, <2>2
<1>4. Len(stack') = Size_ - pops + Pushes(Opcode)
  BY <1>1, <1>3 DEF pops
<1> QED
  BY <1>2, <1>3, <1>4, PlainStep DEF pops

(* Instructions that push leave the frame one slot higher. *)
LEMMA PushSafe ==
  ASSUME MachineInv, SafeInv, WellFormed, Push
  PROVE  FramesInFlow'
<1> DEFINE ops == {"OP_CONSTANT", "OP_NIL", "OP_TRUE", "OP_FALSE", "OP_GET_LOCAL",
                   "OP_GET_UPVALUE", "OP_GET_GLOBAL"}
<1>1. Fetch(ops) /\ Proceed(0) /\ stack' = Pushed(Loaded) /\ Quiet
  BY DEF Push
<1>2. IsValue(Loaded)
  BY <1>1, LoadedIsValue
<1>3. Opcode \in ops /\ Size_ \in Nat
  BY <1>1, PopsFacts
<1>4. Pops(Opcode, Arg) = 0 /\ Pushes(Opcode) = 1
  BY <1>3 DEF Pops, Pushes
<1>5. Dropped(0) = stack
  <2>1. Len(stack) = Size_ - 0 /\ Size_ - 0 = Size_
    BY <1>3 DEF Size_
  <2> QED
    BY <2>1, MachineFacts, PrefixFacts, SubSeqFull DEF Dropped, IsSeq
<1>6. stack' = Append(Dropped(Pops(Opcode, Arg)), Loaded)
  BY <1>1, <1>4, <1>5 DEF Pushed
<1>7. ops \cap {"OP_RETURN", "OP_CLOSE_UPVALUE", "OP_CLOSURE", "OP_JUMP", "OP_LOOP"} = {}
  OBVIOUS
<1> HIDE DEF ops
<1> QED
  BY <1>1, <1>2, <1>4, <1>6, <1>7, TopOfStackSafe DEF Quiet

(* OP_PRINT, OP_POP and OP_NOOP leave it lower, or as high as it was. *)
LEMMA SimpleSafe ==
  ASSUME MachineInv, SafeInv, WellFormed, PrintTop \/ Pop \/ Noop
  PROVE  FramesInFlow'
<1>1. PICK ops \in {{"OP_PRINT"}, {"OP_POP"}, {"OP_NOOP"}} : Fetch(ops)
  BY DEF PrintTop, Pop, Noop
<1>2. Proceed(0) /\ UNCHANGED <<functions, closures, upvalues>>
  BY DEF PrintTop, Pop, Noop, Quiet
<1>3. ops \cap {"OP_RETURN", "OP_CLOSE_UPVALUE", "OP_CLOSURE", "OP_JUMP", "OP_LOOP"} = {}
  OBVIOUS
<1>4. CASE PrintTop \/ Pop
  <2>1. Opcode \in {"OP_PRINT", "OP_POP"} /\ stack' = Dropped(1)
    BY <1>4 DEF PrintTop, Pop, Fetch
  <2>2. Pops(Opcode, Arg) = 1 /\ Pushes(Opcode) = 0
    BY <2>1 DEF Pops, Pushes
  <2> QED
    BY <1>1, <1>2, <1>3, <2>1, <2>2, TopOfStackSafe
<1>5. CASE Noop
  <2>1. Opcode = "OP_NOOP" /\ UNCHANGED stack
    BY <1>5 DEF Noop, Fetch
  <2>2. Pops(Opcode, Arg) = Pushes(Opcode)
    BY <2>1 DEF Pops, Pushes
  <2> QED
    BY <1>1, <1>2, <1>3, <2>1, <2>2, OpenIndicesUnchanged, SameSizeSafe
<1> QED
  BY <1>4, <1>5

(* Instructions on global variables leave the top of the stack, or take it off. *)
LEMMA GlobalSafe ==
  ASSUME MachineInv, SafeInv, WellFormed, SetGlobal \/ DefineGlobal
  PROVE  FramesInFlow'
<1>1. PICK ops \in {{"OP_SET_GLOBAL"}, {"OP_DEFINE_GLOBAL"}} : Fetch(ops)
  BY DEF SetGlobal, DefineGlobal
<1>2. Proceed(0) /\ UNCHANGED <<functions, closures, upvalues>>
  BY DEF SetGlobal, DefineGlobal
<1>3. ops \cap {"OP_RETURN", "OP_CLOSE_UPVALUE", "OP_CLOSURE", "OP_JUMP", "OP_LOOP"} = {}
  OBVIOUS
<1>4. CASE DefineGlobal
  <2>1. Opcode = "OP_DEFINE_GLOBAL" /\ stack' = Dropped(1)
    BY <1>4 DEF DefineGlobal, Fetch
  <2>2. Pops(Opcode, Arg) = 1 /\ Pushes(Opcode) = 0
    BY <2>1 DEF Pops, Pushes
  <2> QED
    BY <1>1, <1>2, <1>3, <2>1, <2>2, TopOfStackSafe
<1>5. CASE SetGlobal
  <2>1. Opcode = "OP_SET_GLOBAL" /\ UNCHANGED stack
    BY <1>5 DEF SetGlobal, Fetch
  <2>2. Pops(Opcode, Arg) = Pushes(Opcode)
    BY <2>1 DEF Pops, Pushes
  <2> QED
    BY <1>1, <1>2, <1>3, <2>1, <2>2, OpenIndicesUnchanged, SameSizeSafe
<1> QED
  BY <1>4, <1>5

(* Operators replace their operands by one value. *)
LEMMA OperatorSafe ==
  ASSUME MachineInv, SafeInv, WellFormed, Binary \/ Unary
  PROVE  FramesInFlow'
<1> DEFINE binary == {"OP_EQUAL", "OP_GREATER", "OP_LESS", "OP_ADD", "OP_SUBTRACT",
                      "OP_MULTIPLY", "OP_DIVIDE"}
           unary  == {"OP_NOT", "OP_NEGATE"}
           others == {"OP_RETURN", "OP_CLOSE_UPVALUE", "OP_CLOSURE", "OP_JUMP", "OP_LOOP"}
<1>1. CASE Binary
  <2> DEFINE v == Result(Opcode, Peek(1), Peek(0))
  <2>1. /\ Fetch(binary) /\ Proceed(0) /\ UNCHANGED <<functions, closures, upvalues>>
        /\ stack' = Append(Dropped(2), v) /\ Opcode \in binary
    BY <1>1 DEF Binary, Quiet, Fetch
  <2>2. IsValue(v)
    BY <2>1, ValueFacts DEF Result
  <2>3. Pops(Opcode, Arg) = 2 /\ Pushes(Opcode) = 1
    BY <2>1 DEF Pops, Pushes
  <2>4. binary \cap others = {}
    OBVIOUS
  <2> HIDE DEF binary, v
  <2> QED
    BY <2>1, <2>2, <2>3, <2>4, TopOfStackSafe
<1>2. CASE Unary
  <2> DEFINE v == IF Opcode = "OP_NOT" THEN Bool(IsFalsey(Peek(0))) ELSE Num(-Peek(0).num)
  <2>1. /\ Fetch(unary) /\ Proceed(0) /\ UNCHANGED <<functions, closures, upvalues>>
        /\ stack' = Append(Dropped(1), v) /\ Opcode \in unary
    BY <1>2 DEF Unary, Quiet, Fetch
  <2>2. IsValue(v)
    BY ValueFacts
  <2>3. Pops(Opcode, Arg) = 1 /\ Pushes(Opcode) = 1
    BY <2>1 DEF Pops, Pushes
  <2>4. unary \cap others = {}
    OBVIOUS
  <2> HIDE DEF unary, v
  <2> QED
    BY <2>1, <2>2, <2>3, <2>4, TopOfStackSafe
<1> QED
  BY <1>1, <1>2

(* A native call replaces the callee and its arguments by one value. *)
LEMMA CallNativeSafe ==
  ASSUME MachineInv, SafeInv, WellFormed, CallNative
  PROVE  FramesInFlow'
<1>1. Fetch({"OP_CALL"}) /\ Proceed(0) /\ UNCHANGED <<functions, closures, upvalues>>
  BY DEF CallNative, Quiet
<1>2. Opcode = "OP_CALL" /\ Operands[Opcode] = 1
  BY <1>1, PopsFacts, OperandFacts
<1>3. Arg = ArgCount
  BY <1>2 DEF Arg, ArgAt, OpAt, Opcode, ArgCount, Operand
<1>4. Pops(Opcode, Arg) = ArgCount + 1 /\ Pushes(Opcode) = 1
  BY <1>2, <1>3 DEF Pops, Pushes
<1>5. PICK t : stack' = Append(Dropped(ArgCount + 1), Num(t))
  BY DEF CallNative
<1>6. IsValue(Num(t))
  BY ValueFacts
<1> QED
  BY <1>1, <1>4, <1>5, <1>6, TopOfStackSafe

(* OP_SET_LOCAL never names slot 0, where the closure of the frame lies. *)
LEMMA SetLocalSafe ==
  ASSUME MachineInv, SafeInv, WellFormed, SetLocal
  PROVE  FramesInFlow'
<1>1. /\ Fetch({"OP_SET_LOCAL"}) /\ Proceed(0) /\ UNCHANGED <<functions, closures, upvalues>>
      /\ stack' = [stack EXCEPT ![Slot + 1] = Peek(0)]
  BY DEF SetLocal, Quiet
<1>2. /\ status = "running" /\ Opcode = "OP_SET_LOCAL" /\ Operands[Opcode] = 1
      /\ Size_ \in Nat
  BY <1>1, PopsFacts, OperandFacts
<1>3. PICK open : Here(open)
  BY <1>2, HereIs
<1>4. OperandsValid(functions, CurrFun, Ip, Height)
  BY <1>2, <1>3, HereFacts
<1>5. Operand \in 1 .. Height - 1
  BY <1>2, <1>4 DEF OperandsValid, ArgAt, OpAt, Opcode, Operand
<1> DEFINE n == Len(call_frames)
<1>6. /\ Frame.stack_offset \in Nat /\ Bottom(n) = Frame.stack_offset
      /\ DOMAIN call_frames = 1 .. n /\ n \in Nat \ {0}
      /\ \A i \in DOMAIN call_frames : Bottom(i) \in Nat
      /\ \A i \in DOMAIN call_frames : Bottom(i) <= Bottom(n)
  BY <1>2, FrameFacts DEF SafeInv, FramesInFlow, Bottom
<1>7. Slot + 1 \in 1 .. Size_ /\ \A i \in DOMAIN call_frames : Bottom(i) + 1 # Slot + 1
  BY <1>2, <1>5, <1>6 DEF Slot, Height
<1>8. Pops(Opcode, Arg) = Pushes(Opcode)
  BY <1>2 DEF Pops, Pushes
<1> QED
  BY <1>1, <1>7, <1>8, OpenIndicesUnchanged, SameSizeSafe

(* OP_SET_UPVALUE writes to no slot that any frame begins at: no open upvalue refers to one. *)
LEMMA SetUpvalueSafe ==
  ASSUME MachineInv, SafeInv, WellFormed, SetUpvalue
  PROVE  FramesInFlow'
<1>1. Fetch({"OP_SET_UPVALUE"}) /\ Proceed(0) /\ UNCHANGED <<functions, closures>>
  BY DEF SetUpvalue
<1>2. status = "running" /\ Opcode = "OP_SET_UPVALUE" /\ Size_ \in Nat
  BY <1>1, PopsFacts
<1>3. Pops(Opcode, Arg) = Pushes(Opcode)
  BY <1>2 DEF Pops, Pushes
<1>4. Captured \in DOMAIN upvalues /\ Readable(Captured)
  BY <1>1, CapturedFacts
<1>5. CASE IsOpen(upvalues[Captured])
  <2> DEFINE x == upvalues[Captured].index
             k == x + 1
             v == Peek(0)
  <2>1. stack' = [stack EXCEPT ![k] = v] /\ UNCHANGED upvalues
    BY <1>5 DEF SetUpvalue
  <2>2. x \in OpenIndices /\ x \in Nat /\ x < Size_
    BY <1>2, <1>4, <1>5, FrameFacts DEF OpenIndices, Readable
  <2>3. \A i \in DOMAIN call_frames : Bottom(i) # x /\ Bottom(i) \in Nat
    BY <1>2, <2>2, FrameFacts DEF SafeInv, FramesInFlow
  <2>4. k \in 1 .. Size_ /\ \A i \in DOMAIN call_frames : Bottom(i) + 1 # k
    BY <1>2, <2>2, <2>3
  <2> HIDE DEF k, v
  <2> QED
    BY <1>1, <1>3, <2>1, <2>4, OpenIndicesUnchanged, SameSizeSafe
<1>6. CASE ~IsOpen(upvalues[Captured])
  <2> DEFINE c == Captured
             w == [upvalues[c] EXCEPT !.value = Peek(0)]
  <2>1. upvalues' = [upvalues EXCEPT ![c] = w] /\ UNCHANGED stack
    BY <1>6 DEF SetUpvalue
  <2>2. upvalues[c] \in [value : {upvalues[c].value}]
    BY <1>4, <1>6, UpvalueFacts
  <2>3. ~IsOpen(w)
    BY <2>2 DEF IsOpen
  <2> HIDE DEF w
  <2>4. DOMAIN upvalues' = DOMAIN upvalues
    BY <2>1
  <2>5. \A u \in DOMAIN upvalues : /\ IsOpen(upvalues'[u]) <=> IsOpen(upvalues[u])
                                   /\ IsOpen(upvalues[u]) => upvalues'[u] = upvalues[u]
    BY <1>6, <2>1, <2>3
  <2>6. OpenIndices' = {upvalues'[u].index : u \in {v \in DOMAIN upvalues' : IsOpen(upvalues'[v])}}
    BY DEF OpenIndices, IsOpen
  <2>7. OpenIndices' = OpenIndices
    BY <2>4, <2>5, <2>6 DEF OpenIndices
  <2> QED
    BY <1>1, <1>3, <2>1, <2>7, SameSizeSafe
<1> QED
  BY <1>5, <1>6

-----------------------------------------------------------------------------
(* Instructions that change what is captured *)

(* close_upvalues leaves the open upvalues below the one it was given. *)
LEMMA ClosedIndices ==
  ASSUME MachineInv, NEW last \in Int, CloseUpvalues(last)
  PROVE  OpenIndices' = {x \in OpenIndices : x < last}
<1>1. /\ DOMAIN upvalues' = DOMAIN upvalues
      /\ \A u \in DOMAIN upvalues :
           upvalues'[u] = IF IsOpen(upvalues[u]) /\ upvalues[u].index >= last
                          THEN [value |-> Get(upvalues[u].index)] ELSE upvalues[u]
  BY MachineFacts, CloseUpvaluesFacts
<1>2. \A x : ~IsOpen([value |-> x])
  BY DEF IsOpen
<1>3. \A u \in DOMAIN upvalues : IsOpen(upvalues[u]) => upvalues[u].index \in Nat
  BY UpvalueFacts
<1>4. \A u \in DOMAIN upvalues :
        /\ IsOpen(upvalues'[u]) <=> IsOpen(upvalues[u]) /\ upvalues[u].index < last
        /\ IsOpen(upvalues'[u]) => upvalues'[u] = upvalues[u]
  BY <1>1, <1>2, <1>3
<1>5. OpenIndices' = {upvalues'[u].index : u \in {v \in DOMAIN upvalues' : IsOpen(upvalues'[v])}}
  BY DEF OpenIndices, IsOpen
<1> QED
  BY <1>1, <1>4, <1>5 DEF OpenIndices

(* OP_CLOSE_UPVALUE takes the top slot off, and nothing open refers to it any more. *)
LEMMA CloseUpvalueSafe ==
  ASSUME MachineInv, SafeInv, WellFormed, CloseUpvalue
  PROVE  FramesInFlow'
<1> DEFINE n  == Len(call_frames)
           ip == Ip + 1 + Operands[Opcode] + 0
<1>1. /\ Fetch({"OP_CLOSE_UPVALUE"}) /\ Proceed(0) /\ CloseUpvalues(Size_ - 1)
      /\ stack' = Dropped(1) /\ UNCHANGED <<functions, closures>>
  BY DEF CloseUpvalue
<1>2. /\ status = "running" /\ Opcode = "OP_CLOSE_UPVALUE" /\ Size_ \in Nat
      /\ Pops(Opcode, Arg) \in 0 .. Size_ - 1
  BY <1>1, PopsFacts
<1>3. PICK open : Here(open)
  BY <1>2, HereIs
<1>4. /\ Whole(CurrFun, Ip) /\ Height > 1
      /\ Edges(functions, CurrFun, <<Ip, Height, open>>) \subseteq Flow(functions, CurrFun)
  BY <1>2, <1>3, HereFacts DEF Pops
<1> DEFINE open2 == open \ {Height - 1}
<1>5. /\ n \in Nat \ {0} /\ DOMAIN call_frames = 1 .. n
      /\ \A i \in DOMAIN call_frames : Bottom(i) \in Nat /\ Bottom(i) <= Frame.stack_offset
      /\ Frame.stack_offset \in Nat /\ OpenIndices \subseteq Nat
      /\ Size_ = Frame.stack_offset + Height /\ Height \in Int
  BY <1>2, FrameFacts, SMTT(30) DEF SafeInv, FramesInFlow, Bottom, Height
<1>6. <<ip, Height - 1, open2>> \in Flow(functions, CurrFun)
  <2>1. ip \in Successors(functions, CurrFun, Ip) /\ OpAt(CurrFun, Ip) = Opcode
    BY <1>1, <1>2, FallsThrough DEF OpAt, Opcode
  <2>2. Height - Pops(Opcode, ArgAt(CurrFun, Ip)) + Pushes(Opcode) = Height - 1
    BY <1>2, <1>5 DEF Pops, Pushes
  <2> HIDE DEF ip
  <2>3. <<ip, Height - Pops(Opcode, ArgAt(CurrFun, Ip)) + Pushes(Opcode), open2>>
          \in Edges(functions, CurrFun, <<Ip, Height, open>>)
    BY <1>2, <1>4, <2>1 DEF Edges
  <2> QED
    BY <1>4, <2>2, <2>3
<1>7. /\ Len(stack') = Size_ - 1
      /\ \A k \in 1 .. Size_ - 1 : stack'[k] = stack[k]
  <2>1. 1 \in 0 .. Size_ /\ IsValue(Nil)
    BY <1>4, <1>5, ValueFacts
  <2> QED
    BY <1>1, <2>1, StackFacts
<1>8. /\ Len(call_frames') = n
      /\ DOMAIN call_frames' = DOMAIN call_frames
      /\ \A i \in 1 .. n - 1 : call_frames'[i] = call_frames[i]
      /\ call_frames'[n] = [Frame EXCEPT !.ip = ip]
  BY <1>1, <1>5, ProceedFacts, LenProperties
<1>9. \A i \in DOMAIN call_frames : stack'[Bottom(i) + 1] = stack[Bottom(i) + 1]
  <2> TAKE i \in DOMAIN call_frames
  <2>1. Bottom(i) + 1 \in 1 .. Size_ - 1
    BY <1>4, <1>5
  <2> QED
    BY <2>1, <1>7
<1>10. OpenIndices' = {x \in OpenIndices : x < Size_ - 1}
  BY <1>1, <1>2, ClosedIndices
<1>11. ASSUME NEW x \in OpenIndices'
       PROVE  /\ x \in OpenIndices
              /\ x < Len(stack')
              /\ Frame.stack_offset <= x => x - Frame.stack_offset \in open2
  <2>1. x \in OpenIndices /\ x < Size_ - 1 /\ x \in Nat
    BY <1>5, <1>10
  <2>2. Frame.stack_offset <= x => x - Frame.stack_offset \in open
    BY <2>1, <1>3 DEF Here
  <2> QED
    BY <2>1, <2>2, <1>5, <1>7
<1>12. <<ip, Len(stack') - Frame.stack_offset, open2>> \in Flow(functions, CurrFun)
  <2>1. Len(stack') - Frame.stack_offset = Height - 1
    BY <1>5, <1>7
  <2> QED
    BY <1>6, <2>1
<1>13. Len(stack') \in Nat /\ Frame.stack_offset < Len(stack') /\ OpenIndices' \subseteq Nat
  <2>1. OpenIndices' \subseteq Nat
    BY <1>5, <1>10
  <2>2. Frame.stack_offset < Size_ - 1 /\ Size_ - 1 \in Nat
    BY <1>2, <1>4, <1>5
  <2> QED
    BY <2>1, <2>2, <1>7
<1> HIDE DEF ip, open2
<1> QED
  BY <1>1, <1>2, <1>8, <1>9, <1>11, <1>12, <1>13, TopStep

(* OP_CLOSURE opens upvalues for the slots that the walk takes note of. *)
LEMMA MakeClosureSafe ==
  ASSUME MachineInv, SafeInv, WellFormed, MakeClosure
  PROVE  FramesInFlow'
<1> DEFINE n  == Len(call_frames)
           N  == Template.upvalue_count
           ip == Ip + 1 + Operands[Opcode] + 2 * N
<1>1. /\ Fetch({"OP_CLOSURE"}) /\ Proceed(2 * N) /\ UNCHANGED functions
      /\ stack' = Pushed(Closure(Len(closures) + 1))
  BY DEF MakeClosure
<1>2. /\ status = "running" /\ Opcode = "OP_CLOSURE" /\ Opcode \in OpCode /\ Size_ \in Nat
      /\ Operands[Opcode] = 1
  BY <1>1, PopsFacts, OperandFacts
<1>3. PICK open : Here(open)
  BY <1>2, HereIs
<1>4. /\ Whole(CurrFun, Ip) /\ Height > 0
      /\ Edges(functions, CurrFun, <<Ip, Height, open>>) \subseteq Flow(functions, CurrFun)
      /\ Ip + Size(functions, CurrFun, Ip) <= Len(CurrFun.code)
      /\ OperandsValid(functions, CurrFun, Ip, Height)
  BY <1>2, <1>3, HereFacts DEF Pops
<1>5. OpAt(CurrFun, Ip) = Opcode /\ Ip \in Nat
  BY <1>1, InstructionFacts DEF OpAt, Opcode
<1>6. /\ Arg < Len(CurrFun.constants) /\ IsFun(CurrFun.constants[Arg + 1])
      /\ \A c \in Captures(functions, CurrFun, Ip) :
           IF c[1] # 0 THEN c[2] \in 1 .. Height ELSE c[2] < CurrFun.upvalue_count
  BY <1>2, <1>4, <1>5 DEF OperandsValid, Arg
<1>7. /\ N \in Nat /\ Size(functions, CurrFun, Ip) = 2 + 2 * N
      /\ \A i \in 0 .. N - 1 :
           <<At(CurrFun.code, Ip + 2 + 2 * i), CaptureIndex(i)>> \in Captures(functions, CurrFun, Ip)
  BY <1>2, <1>4, <1>6, CapturesFacts
<1> DEFINE locals == {c[2] : c \in {d \in Captures(functions, CurrFun, Ip) : d[1] # 0}}
           open2  == open \cup locals
<1>8. /\ n \in Nat \ {0} /\ DOMAIN call_frames = 1 .. n
      /\ \A i \in DOMAIN call_frames : Bottom(i) \in Nat /\ Bottom(i) <= Frame.stack_offset
      /\ Frame.stack_offset \in Nat /\ OpenIndices \subseteq Nat
      /\ Size_ = Frame.stack_offset + Height /\ Height \in Int
  BY <1>2, FrameFacts DEF SafeInv, FramesInFlow, Bottom, Height
<1>9. <<ip, Height + 1, open2>> \in Flow(functions, CurrFun)
  <2>1. Successors(functions, CurrFun, Ip) = {Ip + Size(functions, CurrFun, Ip)}
    BY <1>2, <1>5 DEF Successors
  <2>2. ip \in Successors(functions, CurrFun, Ip)
    BY <2>1, <1>2, <1>5, <1>7
  <2>3. Height - Pops(Opcode, ArgAt(CurrFun, Ip)) + Pushes(Opcode) = Height + 1
    BY <1>2, <1>8 DEF Pops, Pushes
  <2> HIDE DEF ip
  <2>4. <<ip, Height - Pops(Opcode, ArgAt(CurrFun, Ip)) + Pushes(Opcode), open2>>
          \in Edges(functions, CurrFun, <<Ip, Height, open>>)
    BY <1>2, <1>4, <1>5, <2>2 DEF Edges
  <2> QED
    BY <1>4, <2>3, <2>4
<1>10. /\ Len(stack') = Size_ + 1
       /\ \A k \in 1 .. Size_ : stack'[k] = stack[k]
  BY <1>1, MachineFacts, AppendFacts DEF Pushed, Size_
<1>11. /\ Len(call_frames') = n
       /\ DOMAIN call_frames' = DOMAIN call_frames
       /\ \A i \in 1 .. n - 1 : call_frames'[i] = call_frames[i]
       /\ call_frames'[n] = [Frame EXCEPT !.ip = ip]
  <2> DEFINE further == 2 * N
  <2>1. further \in Int /\ Proceed(further) /\ ip = Ip + 1 + Operands[Opcode] + further
    BY <1>1, <1>7
  <2> HIDE DEF further, ip
  <2> QED
    BY <1>1, <1>8, <2>1, ProceedFacts, LenProperties
<1>12. \A i \in DOMAIN call_frames : stack'[Bottom(i) + 1] = stack[Bottom(i) + 1]
  <2> TAKE i \in DOMAIN call_frames
  <2>1. Bottom(i) + 1 \in 1 .. Size_
    BY <1>4, <1>8
  <2> QED
    BY <2>1, <1>10
<1>13. /\ DOMAIN upvalues \subseteq DOMAIN upvalues'
       /\ \A u \in DOMAIN upvalues : upvalues'[u] = upvalues[u]
       /\ \A u \in DOMAIN upvalues' \ DOMAIN upvalues : upvalues'[u] \in [index : CapturedIndices]
       /\ closures' \in Seq([function : DOMAIN functions, upvalues : Seq(DOMAIN upvalues')])
       /\ Len(closures') = Len(closures) + 1
       /\ \A c \in 1 .. Len(closures) : closures'[c] = closures[c]
       /\ closures'[Len(closures) + 1].function = Constant.fun
       /\ Len(closures'[Len(closures) + 1].upvalues) = N
  BY MadeClosure
<1>14. OpenIndices' \subseteq OpenIndices \cup CapturedIndices
  <2>1. OpenIndices' = {upvalues'[u].index : u \in {v \in DOMAIN upvalues' : IsOpen(upvalues'[v])}}
    BY DEF OpenIndices, IsOpen
  <2>2. ASSUME NEW u \in DOMAIN upvalues', IsOpen(upvalues'[u])
        PROVE  upvalues'[u].index \in OpenIndices \cup CapturedIndices
    <3>1. CASE u \in DOMAIN upvalues
      BY <2>2, <3>1, <1>13 DEF OpenIndices
    <3>2. CASE u \notin DOMAIN upvalues
      BY <3>2, <1>13
    <3> QED
      BY <3>1, <3>2
  <2> QED
    BY <2>1, <2>2
<1>15. ASSUME NEW x \in CapturedIndices
       PROVE  /\ x > Frame.stack_offset /\ x <= Size_ /\ x \in Nat
              /\ x - Frame.stack_offset \in locals
  <2>1. PICK i \in 0 .. N - 1 : IsLocal(i) /\ x = Frame.stack_offset + CaptureIndex(i)
    BY DEF CapturedIndices
  <2> DEFINE c == <<At(CurrFun.code, Ip + 2 + 2 * i), CaptureIndex(i)>>
  <2>2. c \in Captures(functions, CurrFun, Ip) /\ c[1] # 0 /\ c[2] = CaptureIndex(i)
    BY <2>1, <1>7 DEF IsLocal
  <2> HIDE DEF c
  <2>3. CaptureIndex(i) \in 1 .. Height /\ CaptureIndex(i) \in locals
    BY <2>2, <1>6
  <2> HIDE DEF locals
  <2> QED
    BY <2>1, <2>3, <1>8
<1>16. ASSUME NEW x \in OpenIndices'
       PROVE  /\ x \in OpenIndices \/ x > Frame.stack_offset
              /\ x < Len(stack') /\ x \in Nat
              /\ Frame.stack_offset <= x => x - Frame.stack_offset \in open2
  <2>1. CASE x \in OpenIndices
    <3>1. x < Size_ /\ x \in Nat
      BY <2>1, <1>2, <1>8 DEF SafeInv, FramesInFlow
    <3>2. Frame.stack_offset <= x => x - Frame.stack_offset \in open
      BY <2>1, <1>3 DEF Here
    <3> QED
      BY <2>1, <3>1, <3>2, <1>2, <1>10
  <2>2. CASE x \notin OpenIndices
    <3>1. x \in CapturedIndices
      BY <2>2, <1>14
    <3> QED
      BY <3>1, <1>2, <1>10, <1>15
  <2> QED
    BY <2>1, <2>2
<1>17. <<ip, Len(stack') - Frame.stack_offset, open2>> \in Flow(functions, CurrFun)
  <2>1. Len(stack') - Frame.stack_offset = Height + 1
    BY <1>8, <1>10
  <2> QED
    BY <1>9, <2>1
<1>18. Len(stack') \in Nat /\ Frame.stack_offset < Len(stack') /\ OpenIndices' \subseteq Nat
  BY <1>4, <1>8, <1>10, <1>16
<1>19. /\ DOMAIN closures = 1 .. Len(closures) /\ Len(closures) \in Nat
       /\ DOMAIN closures' = 1 .. Len(closures) + 1
  BY <1>13, MachineFacts, LenProperties
<1>20. \A c \in DOMAIN closures : c \in DOMAIN closures' /\ closures'[c] = closures[c]
  BY <1>13, <1>19
<1>21. \A c \in DOMAIN closures' \ DOMAIN closures :
         Len(closures'[c].upvalues) = functions[closures'[c].function].upvalue_count
  BY <1>13, <1>19 DEF Template
<1> HIDE DEF ip, open2
<1> QED
  BY <1>1, <1>2, <1>11, <1>12, <1>16, <1>17, <1>18, <1>20, <1>21, TopStep

-----------------------------------------------------------------------------
(* Calls and returns *)

(* The new frame begins at the callee, above every captured slot of the caller. *)
LEMMA CallClosureSafe ==
  ASSUME MachineInv, SafeInv, WellFormed, CallClosure
  PROVE  FramesInFlow'
<1>0. PICK n : n = Len(call_frames)
  OBVIOUS
<1> DEFINE b == Size_ - 1 - ArgCount
<1>1. Fetch({"OP_CALL"}) /\ IsClosure(Callee) /\ UNCHANGED <<stack, functions, closures, upvalues>>
  BY DEF CallClosure, Quiet
<1>2. /\ status = "running" /\ Opcode = "OP_CALL" /\ Opcode \in OpCode /\ Size_ \in Nat
      /\ Operands[Opcode] = 1 /\ Ip \in Nat
  BY <1>1, PopsFacts, OperandFacts, InstructionFacts
<1>3. PICK open : Here(open)
  BY <1>2, HereIs
<1>4. Arg = ArgCount /\ ArgCount \in Nat /\ Pops(Opcode, Arg) = ArgCount + 1
  <2>1. Arg = ArgCount /\ ArgCount \in Nat
    BY <1>1, <1>2, CalleeFacts DEF Arg, ArgAt, OpAt, Opcode, ArgCount, Operand
  <2> QED
    BY <2>1, <1>2 DEF Pops
<1>5. /\ Whole(CurrFun, Ip) /\ Height > ArgCount + 1
      /\ open \cap Height - (ArgCount + 1) .. Height - 1 = {}
      /\ Edges(functions, CurrFun, <<Ip, Height, open>>) \subseteq Flow(functions, CurrFun)
  BY <1>2, <1>3, <1>4, HereFacts
<1>6. /\ n \in Nat \ {0} /\ DOMAIN call_frames = 1 .. n /\ Frame = call_frames[n]
      /\ \A i \in DOMAIN call_frames :
           call_frames[i] \in CallFrame /\ Bottom(i) \in Nat /\ Bottom(i) <= Bottom(n)
      /\ Bottom(n) = Frame.stack_offset
      /\ Size_ = Bottom(n) + Height /\ Height \in Int
      /\ OpenIndices \subseteq Nat
  BY <1>0, <1>2, FrameFacts DEF SafeInv, FramesInFlow, Bottom, Height
<1>7. /\ Bottom(1) = 0
      /\ closures[call_frames[1].closure].function = 1
      /\ \A i, j \in DOMAIN call_frames : i < j => Bottom(i) < Bottom(j)
      /\ \A c \in DOMAIN closures :
           Len(closures[c].upvalues) = functions[closures[c].function].upvalue_count
      /\ \A i \in DOMAIN call_frames :
           /\ Bottom(i) < Size_
           /\ Get(Bottom(i)) = Closure(call_frames[i].closure)
           /\ Bottom(i) \notin OpenIndices
           /\ InFlow(i)
      /\ \A x \in OpenIndices : x < Size_
  BY <1>2 DEF SafeInv, FramesInFlow
<1>8. b \in Nat /\ Bottom(n) < b /\ b < Size_
  BY <1>2, <1>4, <1>5, <1>6, SMTT(30)
<1>9. /\ Callee \in [clo : DOMAIN closures] /\ Callee = Get(b)
  BY <1>1, CalleeFacts
<1>10. Callee = Closure(Callee.clo)
  BY <1>9 DEF Closure
<1>11. /\ call_frames' \in Seq(CallFrame)
       /\ Len(call_frames') = n + 1
       /\ \A i \in 1 .. n - 1 : call_frames'[i] = call_frames[i]
       /\ call_frames'[n] = [Frame EXCEPT !.ip = Ip + 2]
       /\ call_frames'[n + 1] = [closure |-> Callee.clo, ip |-> 0, stack_offset |-> b]
  BY <1>0, CallClosureFrames DEF NewFrame
<1> HIDE DEF b
<1>12. DOMAIN call_frames' = 1 .. n + 1
  BY <1>11, LenProperties
<1>13. \A i \in 1 .. n : /\ call_frames'[i].closure = call_frames[i].closure
                         /\ call_frames'[i].stack_offset = call_frames[i].stack_offset
                         /\ i # n => call_frames'[i].ip = call_frames[i].ip
  <2> TAKE i \in 1 .. n
  <2>1. CASE i = n
    BY <2>1, <1>6, <1>11 DEF CallFrame
  <2>2. CASE i # n
    BY <2>2, <1>6, <1>11
  <2> QED
    BY <2>1, <2>2
<1>14. call_frames'[n].ip = Ip + 2
  BY <1>6, <1>11 DEF CallFrame
<1>15. /\ \A i \in 1 .. n : Bottom(i)' = Bottom(i)
       /\ Bottom(n + 1)' = b
  BY <1>11, <1>13 DEF Bottom
<1>16. \A i \in 1 .. n : FunctionOf(call_frames[i])' = FunctionOf(call_frames[i])
  BY <1>1, <1>6, <1>13 DEF FunctionOf
<1>17. /\ \A i \in 1 .. n - 1 : Top(i)' = Bottom(i + 1) + 1
       /\ Top(n)' = b + 1
       /\ Top(n + 1)' = Size_
  <2>1. \A i \in 1 .. n : Top(i)' = Bottom(i + 1)' + 1
    BY <1>6, <1>11 DEF Top
  <2>2. Top(n + 1)' = Size_
    BY <1>1, <1>11 DEF Top, Size_
  <2> QED
    BY <2>1, <2>2, <1>6, <1>15
<1>18. OpenIndices' = OpenIndices /\ Size_' = Size_ /\ stack' = stack
  BY <1>1, OpenIndicesUnchanged DEF Size_
<1>19. \A x \in OpenIndices : x < b
  <2> TAKE x \in OpenIndices
  <2>1. x \in Nat /\ x < Size_
    BY <1>6, <1>7
  <2>2. Bottom(n) <= x => x - Bottom(n) \in open
    BY <2>1, <1>3, <1>6 DEF Here
  <2>3. x - Bottom(n) \in open => x - Bottom(n) < Height - (ArgCount + 1)
    <3> DEFINE y    == x - Bottom(n)
               pops == ArgCount + 1
    <3>1. y \in Int /\ y < Height /\ pops \in Nat /\ Height \in Int
      BY <2>1, <1>4, <1>6
    <3>2. open \cap Height - pops .. Height - 1 = {}
      BY <1>5
    <3> HIDE DEF y, pops
    <3>3. y \in open => y < Height - pops
      BY <3>1, <3>2
    <3> QED
      BY <3>3 DEF y, pops
  <2> QED
    BY <2>1, <2>2, <2>3, <1>2, <1>4, <1>6, <1>8, SMTT(30) DEF b
<1>20. ASSUME NEW i \in 1 .. n - 1 PROVE InFlow(i)'
  <2>1. Top(i) = Bottom(i + 1) + 1 /\ Top(i)' = Bottom(i + 1) + 1 /\ i \in 1 .. n /\ i # n
    BY <1>0, <1>6, <1>17 DEF Top
  <2>2. PICK o : /\ <<call_frames[i].ip, Top(i) - Bottom(i), o>> \in Flow(functions, FunctionOf(call_frames[i]))
                 /\ \A x \in OpenIndices : Bottom(i) <= x /\ x < Top(i) => x - Bottom(i) \in o
    BY <2>1, <1>6, <1>7 DEF InFlow
  <2>3. <<call_frames'[i].ip, Top(i)' - Bottom(i)', o>> \in Flow(functions', FunctionOf(call_frames[i])')
    BY <2>1, <2>2, <1>1, <1>13, <1>15, <1>16
  <2>4. \A x \in OpenIndices' : Bottom(i)' <= x /\ x < Top(i)' => x - Bottom(i)' \in o
    BY <2>1, <2>2, <1>15, <1>18
  <2> QED
    BY <2>3, <2>4 DEF InFlow
<1>21. InFlow(n)'
  <2>1. n \in 1 .. n
    BY <1>6
  <2>2. Ip + 1 + Operands[Opcode] + 0 \in Successors(functions, CurrFun, Ip)
    BY <1>1, <1>2, FallsThrough
  <2>3. Ip + 1 + Operands[Opcode] + 0 = Ip + 2
    BY <1>2
  <2>4. OpAt(CurrFun, Ip) = Opcode /\ ArgAt(CurrFun, Ip) = Arg
    BY DEF OpAt, Opcode, Arg
  <2>5. <<Ip + 2, Height - Pops(Opcode, Arg) + Pushes(Opcode), open>>
          \in Edges(functions, CurrFun, <<Ip, Height, open>>)
    BY <1>2, <1>5, <2>2, <2>3, <2>4, EdgeFacts
  <2>6. Height - Pops(Opcode, Arg) + Pushes(Opcode) = Top(n)' - Bottom(n)'
    BY <2>1, <1>2, <1>4, <1>6, <1>15, <1>17, SMTT(30) DEF Pushes, b
  <2>7. FunctionOf(call_frames[n])' = CurrFun
    BY <2>1, <1>6, <1>16 DEF CurrFun
  <2>8. <<call_frames'[n].ip, Top(n)' - Bottom(n)', open>> \in Flow(functions', FunctionOf(call_frames[n])')
    BY <2>5, <2>6, <2>7, <1>1, <1>5, <1>14
  <2>9. \A x \in OpenIndices' : Bottom(n)' <= x => x - Bottom(n)' \in open
    BY <2>1, <1>3, <1>6, <1>15, <1>18 DEF Here
  <2> QED
    BY <2>8, <2>9 DEF InFlow
<1>22. InFlow(n + 1)'
  <2> DEFINE f == closures[Callee.clo].function
  <2>1. f \in DOMAIN functions
    BY <1>9, MachineFacts
  <2>2. ~CallFails
    BY <1>1, <1>2 DEF Fetch, Erroneous
  <2>3. ArgCount = functions[f].arity
    BY <2>2, <1>1 DEF CallFails
  <2>4. <<0, 1 + functions[f].arity, {}>> \in Flow(functions, functions[f])
    BY <2>1 DEF WellFormed, AllVerified, Verified
  <2>5. FunctionOf(call_frames[n + 1])' = functions[f]
    BY <1>1, <1>11 DEF FunctionOf
  <2> HIDE DEF f
  <2>6. Top(n + 1)' - Bottom(n + 1)' = 1 + functions[f].arity
    BY <2>3, <1>2, <1>4, <1>15, <1>17 DEF b
  <2>7. call_frames'[n + 1].ip = 0
    BY <1>11
  <2>8. <<call_frames'[n + 1].ip, Top(n + 1)' - Bottom(n + 1)', {}>>
          \in Flow(functions', FunctionOf(call_frames[n + 1])')
    BY <2>4, <2>5, <2>6, <2>7, <1>1
  <2>9. \A x \in OpenIndices' : ~(Bottom(n + 1)' <= x)
    BY <1>6, <1>8, <1>15, <1>18, <1>19
  <2> QED
    BY <2>8, <2>9 DEF InFlow
<1>23. ASSUME NEW i \in 1 .. n + 1
       PROVE  /\ Bottom(i)' < Size_'
              /\ Get(Bottom(i))' = Closure(call_frames[i].closure)'
              /\ Bottom(i)' \notin OpenIndices'
              /\ InFlow(i)'
  <2>1. CASE i \in 1 .. n
    <3>1. InFlow(i)'
      BY <2>1, <1>6, <1>20, <1>21
    <3>2. stack[Bottom(i) + 1] = Closure(call_frames[i].closure)
      BY <2>1, <1>6, <1>7 DEF Get
    <3>3. Get(Bottom(i))' = Closure(call_frames[i].closure)'
      BY <2>1, <3>2, <1>13, <1>15, <1>18 DEF Get, Closure
    <3> QED
      BY <2>1, <3>1, <3>3, <1>6, <1>7, <1>15, <1>18
  <2>2. CASE i = n + 1
    <3>1. Get(Bottom(n + 1))' = Closure(call_frames[n + 1].closure)'
      BY <1>9, <1>10, <1>11, <1>15, <1>18 DEF Get, Closure
    <3>2. b \notin OpenIndices
      BY <1>6, <1>8, <1>19
    <3> QED
      BY <2>2, <3>1, <3>2, <1>8, <1>15, <1>18, <1>22
  <2> QED
    BY <2>1, <2>2, <1>6
<1>24. ASSUME NEW i \in 1 .. n + 1, NEW j \in 1 .. n + 1, i < j
       PROVE  Bottom(i)' < Bottom(j)'
  <2>1. CASE j \in 1 .. n
    BY <2>1, <1>6, <1>7, <1>15, <1>24
  <2>2. CASE j = n + 1
    <3>1. i \in 1 .. n /\ Bottom(i) <= Bottom(n) /\ Bottom(i) \in Nat
      BY <2>2, <1>6, <1>24
    <3> QED
      BY <2>2, <3>1, <1>6, <1>8, <1>15
  <2> QED
    BY <2>1, <2>2, <1>6
<1>25. Bottom(1)' = 0 /\ closures'[call_frames'[1].closure].function = 1
  <2>1. 1 \in 1 .. n
    BY <1>6
  <2> QED
    BY <2>1, <1>1, <1>7, <1>13, <1>15
<1>26. /\ \A c \in DOMAIN closures' :
            Len(closures'[c].upvalues) = functions'[closures'[c].function].upvalue_count
       /\ \A x \in OpenIndices' : x < Size_'
  BY <1>1, <1>7, <1>18
<1> QED
  BY <1>12, <1>23, <1>24, <1>25, <1>26 DEF FramesInFlow

(* The caller finds its frame as it was, with the result in place of callee and arguments. *)
LEMMA ReturnSafe ==
  ASSUME MachineInv, SafeInv, WellFormed, Return, status' = "running"
  PROVE  FramesInFlow'
<1>0. PICK n : n = Len(call_frames)
  OBVIOUS
<1>1. /\ Fetch({"OP_RETURN"}) /\ CloseUpvalues(Frame.stack_offset + 1)
      /\ UNCHANGED <<functions, closures>>
  BY DEF Return
<1>2. /\ status = "running" /\ Opcode = "OP_RETURN" /\ Size_ \in Nat
      /\ Pops(Opcode, Arg) \in 0 .. Size_ - 1
  BY <1>1, PopsFacts
<1>3. /\ n # 1 /\ stack' = Append(SubSeq(stack, 1, Frame.stack_offset), Peek(0))
  BY <1>0 DEF Return
<1>4. /\ n \in Nat \ {0} /\ DOMAIN call_frames = 1 .. n /\ Frame = call_frames[n]
      /\ \A i \in DOMAIN call_frames :
           call_frames[i] \in CallFrame /\ Bottom(i) \in Nat /\ Bottom(i) <= Bottom(n)
      /\ Bottom(n) = Frame.stack_offset /\ Bottom(n) < Size_
      /\ OpenIndices \subseteq Nat
  BY <1>0, <1>2, FrameFacts DEF SafeInv, FramesInFlow, Bottom
<1>5. /\ Bottom(1) = 0
      /\ closures[call_frames[1].closure].function = 1
      /\ \A i, j \in DOMAIN call_frames : i < j => Bottom(i) < Bottom(j)
      /\ \A c \in DOMAIN closures :
           Len(closures[c].upvalues) = functions[closures[c].function].upvalue_count
      /\ \A i \in DOMAIN call_frames :
           /\ Get(Bottom(i)) = Closure(call_frames[i].closure)
           /\ Bottom(i) \notin OpenIndices
           /\ InFlow(i)
  BY <1>2 DEF SafeInv, FramesInFlow
<1> DEFINE b == Bottom(n)
<1>6. /\ call_frames' \in Seq(CallFrame)
      /\ Len(call_frames') = n - 1
      /\ \A i \in 1 .. n - 1 : call_frames'[i] = call_frames[i]
  BY <1>0, ReturnFrames
<1>7. DOMAIN call_frames' = 1 .. n - 1 /\ n - 1 \in Nat \ {0}
  BY <1>3, <1>4, <1>6, LenProperties
<1>8. /\ Len(stack') = b + 1 /\ b \in Nat
      /\ \A k \in 1 .. b : stack'[k] = stack[k]
  <2>1. b \in 0 .. Len(stack) /\ b = Frame.stack_offset
    BY <1>2, <1>4 DEF Size_
  <2>2. IsSeq(stack)
    BY MachineFacts
  <2> HIDE DEF b
  <2>3. /\ IsSeq(SubSeq(stack, 1, b)) /\ Len(SubSeq(stack, 1, b)) = b
        /\ \A k \in 1 .. b : SubSeq(stack, 1, b)[k] = stack[k]
    BY <2>1, <2>2, PrefixFacts
  <2> DEFINE below == SubSeq(stack, 1, b)
             v     == Peek(0)
  <2>4. stack' = Append(below, v)
    BY <1>3, <2>1
  <2> HIDE DEF below, v
  <2>5. /\ Len(Append(below, v)) = Len(below) + 1
        /\ \A k \in 1 .. Len(below) : Append(below, v)[k] = below[k]
    BY <2>3, AppendFacts, ZenonT(60) DEF below
  <2> QED
    BY <2>1, <2>3, <2>4, <2>5 DEF below
<1>9. OpenIndices' = {x \in OpenIndices : x < b + 1}
  <2> DEFINE last == Frame.stack_offset + 1
  <2>1. last \in Int /\ CloseUpvalues(last) /\ last = b + 1
    BY <1>1, <1>4
  <2> HIDE DEF last, b
  <2> QED
    BY <2>1, ClosedIndices
<1>10. \A x \in OpenIndices' : x \in OpenIndices /\ x < b
  <2> TAKE x \in OpenIndices'
  <2>1. x \in OpenIndices /\ x < b + 1 /\ x \in Nat
    BY <1>4, <1>9
  <2>2. x # b
    BY <2>1, <1>4, <1>5
  <2> QED
    BY <2>1, <2>2, <1>4
<1>11. Size_' = b + 1
  BY <1>8 DEF Size_
<1>12. \A i \in 1 .. n - 1 :
         /\ Bottom(i)' = Bottom(i)
         /\ FunctionOf(call_frames[i])' = FunctionOf(call_frames[i])
         /\ Bottom(i) < b
         /\ i \in 1 .. n
  BY <1>1, <1>4, <1>5, <1>6 DEF Bottom, FunctionOf
<1>13. ASSUME NEW i \in 1 .. n - 1 PROVE Top(i) = Bottom(i + 1) + 1 /\ Top(i)' = Top(i)
  <2>1. Top(i) = Bottom(i + 1) + 1
    BY <1>0, <1>4 DEF Top
  <2>2. CASE i = n - 1
    <3>1. Top(i)' = b + 1
      BY <2>2, <1>6, <1>11 DEF Top
    <3>2. i + 1 = n
      BY <2>2, <1>4
    <3> QED
      BY <2>1, <3>1, <3>2
  <2>3. CASE i # n - 1
    <3>1. i + 1 \in 1 .. n - 1 /\ i # Len(call_frames')
      BY <2>3, <1>4, <1>6
    <3>2. Top(i)' = Bottom(i + 1)' + 1
      BY <3>1 DEF Top
    <3> QED
      BY <2>1, <3>1, <3>2, <1>12
  <2> QED
    BY <2>1, <2>2, <2>3
<1>14. ASSUME NEW i \in 1 .. n - 1 PROVE InFlow(i)'
  <2>1. PICK o : /\ <<call_frames[i].ip, Top(i) - Bottom(i), o>> \in Flow(functions, FunctionOf(call_frames[i]))
                 /\ \A x \in OpenIndices : Bottom(i) <= x /\ x < Top(i) => x - Bottom(i) \in o
    BY <1>4, <1>5, <1>12 DEF InFlow
  <2>2. <<call_frames'[i].ip, Top(i)' - Bottom(i)', o>> \in Flow(functions', FunctionOf(call_frames[i])')
    BY <2>1, <1>1, <1>6, <1>12, <1>13
  <2>3. \A x \in OpenIndices' : Bottom(i)' <= x /\ x < Top(i)' => x - Bottom(i)' \in o
    BY <2>1, <1>10, <1>12, <1>13
  <2> QED
    BY <2>2, <2>3 DEF InFlow
<1>15. ASSUME NEW i \in 1 .. n - 1
       PROVE  /\ Bottom(i)' < Size_'
              /\ Get(Bottom(i))' = Closure(call_frames[i].closure)'
              /\ Bottom(i)' \notin OpenIndices'
  <2>1. Bottom(i) < b /\ Bottom(i)' = Bottom(i) /\ Bottom(i) \in Nat /\ i \in DOMAIN call_frames
    BY <1>4, <1>12
  <2>2. stack'[Bottom(i) + 1] = Closure(call_frames[i].closure)
    <3>1. Bottom(i) + 1 \in 1 .. b
      BY <2>1, <1>8
    <3>2. stack[Bottom(i) + 1] = Closure(call_frames[i].closure)
      BY <2>1, <1>5 DEF Get
    <3> QED
      BY <3>1, <3>2, <1>8
  <2>3. Get(Bottom(i))' = Closure(call_frames[i].closure)'
    BY <2>1, <2>2, <1>6 DEF Get, Closure
  <2>4. Bottom(i)' \notin OpenIndices'
    BY <2>1, <1>5, <1>10
  <2> QED
    BY <2>1, <2>3, <2>4, <1>8, <1>11
<1>16. \A i, j \in 1 .. n - 1 : i < j => Bottom(i)' < Bottom(j)'
  BY <1>4, <1>5, <1>12
<1>17. Bottom(1)' = 0 /\ closures'[call_frames'[1].closure].function = 1
  <2>1. 1 \in 1 .. n - 1
    BY <1>4, <1>7
  <2> QED
    BY <2>1, <1>1, <1>5, <1>6, <1>12
<1>18. /\ \A c \in DOMAIN closures' :
            Len(closures'[c].upvalues) = functions'[closures'[c].function].upvalue_count
       /\ \A x \in OpenIndices' : x < Size_'
  <2>1. ASSUME NEW x \in OpenIndices' PROVE x < Size_'
    <3>1. x \in Nat /\ x < b
      BY <1>4, <1>10
    <3>2. Size_' = b + 1 /\ b \in Nat
      BY <1>8, <1>11
    <3> HIDE DEF b
    <3> QED
      BY <3>1, <3>2
  <2> QED
    BY <2>1, <1>1, <1>5
<1> QED
  BY <1>7, <1>14, <1>15, <1>16, <1>17, <1>18 DEF FramesInFlow

(* The script begins at the entry of its flow. *)
LEMMA InterpretSafe ==
  ASSUME MachineInv, SafeInv, WellFormed, Interpret
  PROVE  FramesInFlow'
<1>1. /\ status = "ready" /\ closures' = <<[function |-> 1, upvalues |-> <<>>]>>
      /\ stack' = <<Closure(1)>>
      /\ call_frames' = <<[closure |-> 1, ip |-> 0, stack_offset |-> 0]>>
      /\ UNCHANGED <<functions, upvalues>>
  BY DEF Interpret
<1>2. OpenIndices' = {}
  <2>1. upvalues' = <<>>
    BY <1>1 DEF SafeInv
  <2> QED
    BY <2>1 DEF OpenIndices
<1>3. Verified(functions, 1)
  BY DEF WellFormed, AllVerified, MachineInv, IsProgram
<1>4. functions[1].upvalue_count = 0 /\ <<0, 1 + functions[1].arity, {}>> \in Flow(functions, functions[1])
      /\ functions[1].arity = 0
  BY <1>3 DEF Verified
<1>5. /\ Len(call_frames') = 1 /\ DOMAIN call_frames' = {1} /\ DOMAIN closures' = {1}
      /\ Size_' = 1
      /\ closures'[1].function = 1 /\ Len(closures'[1].upvalues) = 0
      /\ call_frames'[1].closure = 1 /\ call_frames'[1].ip = 0 /\ call_frames'[1].stack_offset = 0
      /\ stack'[1] = Closure(1)
  BY <1>1 DEF Size_
<1>6. Bottom(1)' = 0 /\ Top(1)' = 1 /\ FunctionOf(call_frames[1])' = functions[1]
  BY <1>1, <1>5 DEF Bottom, Top, FunctionOf
<1>7. InFlow(1)'
  <2>1. <<call_frames'[1].ip, Top(1)' - Bottom(1)', {}>> \in Flow(functions', FunctionOf(call_frames[1])')
    <3>1. Top(1)' - Bottom(1)' = 1 + functions[1].arity
      BY <1>4, <1>6
    <3> QED
      BY <3>1, <1>1, <1>4, <1>5, <1>6
  <2> QED
    BY <2>1, <1>2 DEF InFlow
<1>8. Get(Bottom(1))' = Closure(call_frames[1].closure)'
  BY <1>5, <1>6 DEF Get, Closure
<1> QED
  BY <1>1, <1>2, <1>4, <1>5, <1>6, <1>7, <1>8 DEF FramesInFlow

-----------------------------------------------------------------------------
(* The invariant *)

(* Before the first program there are neither frames nor upvalues. *)
LEMMA InitSafe == Init => SafeInv
BY DEF Init, InitVM, SafeInv

(* Every step keeps the invariant. *)
LEMMA SafeStep == MachineInv /\ SafeInv /\ [Next]_vars => SafeInv'
<1> SUFFICES ASSUME MachineInv, SafeInv, [Next]_vars PROVE SafeInv'
  OBVIOUS
<1>1. CASE Undefined \/ RuntimeError
  BY <1>1 DEF Undefined, RuntimeError, SafeInv
<1>2. CASE UNCHANGED vars
  <2>1. UNCHANGED <<functions, status, stack, call_frames, closures, upvalues>>
    BY <1>2 DEF vars
  <2>2. OpenIndices' = OpenIndices /\ (WellFormed' <=> WellFormed)
    BY <2>1 DEF OpenIndices, IsOpen, WellFormed
  <2>3. \A i : Bottom(i)' = Bottom(i) /\ Top(i)' = Top(i)
    BY <2>1 DEF Bottom, Top, Size_
  <2>4. \A i : InFlow(i)' <=> InFlow(i)
    BY <2>1, <2>2, <2>3 DEF InFlow, FunctionOf
  <2>5. FramesInFlow' <=> FramesInFlow
    BY <2>1, <2>2, <2>3, <2>4 DEF FramesInFlow, Size_, Get, Closure
  <2> QED
    BY <2>1, <2>2, <2>5 DEF SafeInv
<1>3. CASE Next /\ ~(Undefined \/ RuntimeError)
  <2>1. status' # "ready" /\ UNCHANGED functions
    BY <1>3 DEF Next, Step, Interpret, Jump, PrintTop, Push, Pop, Noop, SetLocal, SetUpvalue,
                SetGlobal, DefineGlobal, Binary, Unary, CloseUpvalue, Return, CallClosure,
                CallNative, MakeClosure, Fetch, Quiet
  <2>2. WellFormed' <=> WellFormed
    BY <2>1 DEF WellFormed
  <2>3. ASSUME status' = "running", WellFormed PROVE FramesInFlow'
    BY <1>3, <2>3, InterpretSafe, JumpSafe, SimpleSafe, PushSafe, SetLocalSafe, SetUpvalueSafe,
       GlobalSafe, OperatorSafe, CloseUpvalueSafe, ReturnSafe, CallClosureSafe, CallNativeSafe,
       MakeClosureSafe DEF Next, Step
  <2> QED
    BY <2>1, <2>2, <2>3 DEF SafeInv
<1> QED
  BY <1>1, <1>2, <1>3

(* Both invariants hold throughout. *)
LEMMA SafeInvariant == Spec => [](MachineInv /\ SafeInv)
<1>1. Init => MachineInv /\ SafeInv
  BY InitTypes, InitSafe
<1>2. MachineInv /\ SafeInv /\ [Next]_vars => (MachineInv /\ SafeInv)'
  BY MachineStep, SafeStep
<1> QED
  BY <1>1, <1>2, PTL DEF Spec

-----------------------------------------------------------------------------
(* Theorems *)

(***************************************************************************)
(* Verified code is safe, whatever the program: no instruction of it reads *)
(* outside of the code, the constants, the stack or a closure's upvalues,  *)
(* pops more than there is, reads an open upvalue that is not on the stack *)
(* or returns from the script with anything left behind.                   *)
(***************************************************************************)
THEOREM VerifiedCodeIsSafe == Spec => []WellFormedCodeIsSafe
<1>1. MachineInv /\ SafeInv => WellFormedCodeIsSafe
  BY DefinedHere DEF WellFormedCodeIsSafe
<1> QED
  BY <1>1, SafeInvariant, PTL

(***************************************************************************)
(* Verified code leaves the closure of every active frame in the bottom    *)
(* slot of the frame, which is what keeps the closure alive that CallFrame *)
(* refers to, and the frames lie above each other.                         *)
(***************************************************************************)
THEOREM FramesKeepClosures == Spec => []FramesHoldTheirClosures
<1>1. MachineInv /\ SafeInv => FramesHoldTheirClosures
  <2> SUFFICES ASSUME MachineInv, SafeInv, status = "running", WellFormed,
                      NEW i \in DOMAIN call_frames
               PROVE  FrameHoldsItsClosure(i)
    BY DEF FramesHoldTheirClosures
  <2>1. DOMAIN call_frames = 1 .. Len(call_frames) /\ Len(call_frames) \in Nat
    BY FrameFacts
  <2> QED
    BY <2>1 DEF SafeInv, FramesInFlow, FrameHoldsItsClosure, Bottom
<1> QED
  BY <1>1, SafeInvariant, PTL

-----------------------------------------------------------------------------
(***************************************************************************)
(* RuntimeUpvalues implement captured variables (module Variables): the    *)
(* machine's steps, running well-formed code, are steps of the promise.    *)
(*                                                                         *)
(* A step may touch a captured variable in two ways.  One that writes to   *)
(* the stack may write to the slot an open upvalue stands for: the walk    *)
(* over the code has made sure that it is a variable the instruction       *)
(* names, and not one that is thrown away.  One that closes upvalues has   *)
(* to copy the values of all that leave the stack: the order of the list   *)
(* has made sure that it finds them.                                       *)
(***************************************************************************)

(* What changes no captured variable *)

(* The variables are what the open upvalues' slots and the closed upvalues hold. *)
LEMMA VariablesUnchanged ==
  ASSUME MachineInv, UNCHANGED upvalues, \A x \in OpenIndices : stack'[x + 1] = stack[x + 1]
  PROVE  Lexical!Other
<1>1. ASSUME NEW u \in DOMAIN upvalues PROVE ValueOf(u)' = ValueOf(u)
  <2>1. CASE IsOpen(upvalues[u])
    <3>1. upvalues[u].index \in OpenIndices
      BY <2>1 DEF OpenIndices
    <3> QED
      BY <2>1, <3>1 DEF ValueOf, IsOpen, Get
  <2>2. CASE ~IsOpen(upvalues[u])
    BY <2>2 DEF ValueOf, IsOpen
  <2> QED
    BY <2>1, <2>2
<1>2. [u \in DOMAIN upvalues |-> ValueOf(u)]' = [u \in DOMAIN upvalues |-> ValueOf(u)]
  BY <1>1
<1>3. {u \in DOMAIN upvalues : IsOpen(upvalues[u])}' = {u \in DOMAIN upvalues : IsOpen(upvalues[u])}
  BY DEF IsOpen
<1> QED
  BY <1>2, <1>3 DEF Lexical!Other

(* What an instruction takes off the stack is no captured variable. *)
LEMMA OpenBelow ==
  ASSUME MachineInv, SafeInv, WellFormed, NEW ops, Fetch(ops),
         ops \cap {"OP_RETURN", "OP_CLOSE_UPVALUE"} = {}
  PROVE  \A x \in OpenIndices : x \in Nat /\ x < Size_ - Pops(Opcode, Arg)
<1>1. /\ status = "running" /\ Opcode \in ops
      /\ Pops(Opcode, Arg) \in 0 .. Size_ - 1 /\ Size_ \in Nat
  BY PopsFacts
<1>2. PICK open : Here(open)
  BY <1>1, HereIs
<1>3. /\ Height > Pops(Opcode, Arg)
      /\ open \cap Height - Pops(Opcode, Arg) .. Height - 1 = {}
  BY <1>1, <1>2, HereFacts
<1>4. /\ Frame.stack_offset \in Nat /\ OpenIndices \subseteq Nat
      /\ \A x \in OpenIndices : x < Size_
  BY <1>1, FrameFacts DEF SafeInv, FramesInFlow
<1>5. \A x \in OpenIndices : Frame.stack_offset <= x => x - Frame.stack_offset \in open
  BY <1>2 DEF Here
<1> DEFINE pops == Pops(Opcode, Arg)
           base == Frame.stack_offset
<1> SUFFICES ASSUME NEW x \in OpenIndices PROVE x < Size_ - pops
  BY <1>4
<1>6. pops \in Nat /\ base \in Nat /\ x \in Nat /\ x < Size_ /\ Height = Size_ - base
  BY <1>1, <1>4 DEF Height
<1>7. Height > pops /\ (base <= x => x - base \notin Height - pops .. Height - 1)
  BY <1>3, <1>5
<1> HIDE DEF pops, base
<1> QED
  BY <1>1, <1>6, <1>7

(* Instructions that work on the top of the stack, and perhaps on global variables. *)
LEMMA TopOfStackKeepsVariables ==
  ASSUME MachineInv, SafeInv, WellFormed, NEW ops, Fetch(ops),
         ops \cap {"OP_RETURN", "OP_CLOSE_UPVALUE"} = {},
         UNCHANGED upvalues,
         \A k \in 1 .. Size_ - Pops(Opcode, Arg) : stack'[k] = stack[k]
  PROVE  Lexical!Other
<1>1. Pops(Opcode, Arg) \in 0 .. Size_ - 1 /\ Size_ \in Nat
  BY PopsFacts
<1>2. \A x \in OpenIndices : x + 1 \in 1 .. Size_ - Pops(Opcode, Arg)
  <2> TAKE x \in OpenIndices
  <2> DEFINE pops == Pops(Opcode, Arg)
  <2>1. x \in Nat /\ x < Size_ - pops /\ pops \in Nat
    BY <1>1, OpenBelow
  <2> HIDE DEF pops
  <2>2. x + 1 \in 1 .. Size_ - pops
    BY <1>1, <2>1
  <2> QED
    BY <2>2 DEF pops
<1> QED
  BY <1>2, VariablesUnchanged

(* What is left of the stack below n values, whatever comes on top. *)
LEMMA BelowKept ==
  ASSUME MachineInv, NEW n \in 0 .. Size_, NEW v
  PROVE  /\ \A k \in 1 .. Size_ - n : Dropped(n)[k] = stack[k]
         /\ \A k \in 1 .. Size_ - n : Append(Dropped(n), v)[k] = stack[k]
         /\ \A k \in 1 .. Size_ : Pushed(v)[k] = stack[k]
<1>1. /\ IsSeq(Dropped(n)) /\ Len(Dropped(n)) = Size_ - n
      /\ \A k \in 1 .. Size_ - n : Dropped(n)[k] = stack[k]
  BY ValueFacts, StackFacts
<1>2. \A k \in 1 .. Len(Dropped(n)) : Append(Dropped(n), v)[k] = Dropped(n)[k]
  BY <1>1, AppendFacts
<1>3. \A k \in 1 .. Size_ : Pushed(v)[k] = stack[k]
  BY MachineFacts, AppendFacts DEF Pushed, Size_
<1> QED
  BY <1>1, <1>2, <1>3

(* Most instructions. *)
LEMMA QuietInstructions ==
  ASSUME MachineInv, SafeInv, WellFormed,
         \/ Jump \/ PrintTop \/ Push \/ Pop \/ Noop \/ SetGlobal \/ DefineGlobal
         \/ Binary \/ Unary \/ CallClosure \/ CallNative
  PROVE  Lexical!Other
<1>1. CASE Jump \/ Noop \/ SetGlobal \/ CallClosure
  <2>1. UNCHANGED <<stack, upvalues>>
    BY <1>1 DEF Jump, Noop, SetGlobal, CallClosure, Quiet
  <2> QED
    BY <2>1, VariablesUnchanged
<1>2. CASE PrintTop \/ Pop \/ DefineGlobal
  <2> DEFINE ops == {"OP_PRINT", "OP_POP", "OP_DEFINE_GLOBAL"}
  <2>1. Fetch(ops) /\ stack' = Dropped(1) /\ UNCHANGED upvalues
    BY <1>2 DEF PrintTop, Pop, DefineGlobal, Quiet, Fetch
  <2>2. Opcode \in ops /\ Pops(Opcode, Arg) \in 0 .. Size_ - 1 /\ Size_ \in Nat
    BY <2>1, PopsFacts
  <2>3. Pops(Opcode, Arg) = 1 /\ 1 \in 0 .. Size_
    BY <2>2 DEF Pops
  <2>4. \A k \in 1 .. Size_ - 1 : stack'[k] = stack[k]
    BY <2>1, <2>3, BelowKept
  <2> QED
    BY <2>1, <2>3, <2>4, TopOfStackKeepsVariables
<1>3. CASE Push
  <2> DEFINE ops == {"OP_CONSTANT", "OP_NIL", "OP_TRUE", "OP_FALSE", "OP_GET_LOCAL",
                     "OP_GET_UPVALUE", "OP_GET_GLOBAL"}
  <2>1. Fetch(ops) /\ stack' = Pushed(Loaded) /\ UNCHANGED upvalues
    BY <1>3 DEF Push, Quiet
  <2>2. Opcode \in ops /\ Pops(Opcode, Arg) \in 0 .. Size_ - 1 /\ Size_ \in Nat
    BY <2>1, PopsFacts
  <2>3. Pops(Opcode, Arg) = 0 /\ Size_ - 0 = Size_ /\ 0 \in 0 .. Size_
    BY <2>2 DEF Pops
  <2>4. \A k \in 1 .. Size_ : stack'[k] = stack[k]
    BY <2>1, <2>3, BelowKept
  <2> QED
    BY <2>1, <2>3, <2>4, TopOfStackKeepsVariables
<1>4. CASE Binary
  <2> DEFINE ops == {"OP_EQUAL", "OP_GREATER", "OP_LESS", "OP_ADD", "OP_SUBTRACT",
                     "OP_MULTIPLY", "OP_DIVIDE"}
  <2>1. Fetch(ops) /\ stack' = Append(Dropped(2), Result(Opcode, Peek(1), Peek(0)))
        /\ UNCHANGED upvalues
    BY <1>4 DEF Binary, Quiet
  <2>2. Opcode \in ops /\ Pops(Opcode, Arg) \in 0 .. Size_ - 1 /\ Size_ \in Nat
    BY <2>1, PopsFacts
  <2>3. Pops(Opcode, Arg) = 2 /\ 2 \in 0 .. Size_
    BY <2>2 DEF Pops
  <2>4. \A k \in 1 .. Size_ - 2 : stack'[k] = stack[k]
    BY <2>1, <2>3, BelowKept
  <2> QED
    BY <2>1, <2>3, <2>4, TopOfStackKeepsVariables
<1>5. CASE Unary
  <2> DEFINE ops == {"OP_NOT", "OP_NEGATE"}
  <2>0. PICK v : stack' = Append(Dropped(1), v)
    BY <1>5 DEF Unary
  <2>1. Fetch(ops) /\ UNCHANGED upvalues
    BY <1>5 DEF Unary, Quiet
  <2>2. Opcode \in ops /\ Pops(Opcode, Arg) \in 0 .. Size_ - 1 /\ Size_ \in Nat
    BY <2>1, PopsFacts
  <2>3. Pops(Opcode, Arg) = 1 /\ 1 \in 0 .. Size_
    BY <2>2 DEF Pops
  <2>4. \A k \in 1 .. Size_ - 1 : stack'[k] = stack[k]
    BY <2>0, <2>3, BelowKept
  <2> QED
    BY <2>1, <2>3, <2>4, TopOfStackKeepsVariables
<1>6. CASE CallNative
  <2>1. Fetch({"OP_CALL"}) /\ (\E v : stack' = Append(Dropped(ArgCount + 1), v))
        /\ UNCHANGED upvalues
    BY <1>6 DEF CallNative, Quiet
  <2>2. Opcode = "OP_CALL" /\ Pops(Opcode, Arg) \in 0 .. Size_ - 1 /\ Size_ \in Nat
    BY <2>1, PopsFacts
  <2>3. Pops(Opcode, Arg) = ArgCount + 1
    <3>1. Arg = ArgCount
      BY <2>1, <2>2, CalleeFacts, OperandFacts, InstructionFacts
         DEF Arg, ArgAt, OpAt, Opcode, ArgCount, Operand
    <3> QED
      BY <2>2, <3>1 DEF Pops
  <2>4. ArgCount + 1 \in 0 .. Size_
    BY <2>2, <2>3
  <2>5. \A k \in 1 .. Size_ - (ArgCount + 1) : stack'[k] = stack[k]
    <3>1. PICK v : stack' = Append(Dropped(ArgCount + 1), v)
      BY <2>1
    <3> QED
      BY <2>4, <3>1, BelowKept
  <2> QED
    BY <2>1, <2>3, <2>5, TopOfStackKeepsVariables
<1> QED
  BY <1>1, <1>2, <1>3, <1>4, <1>5, <1>6

-----------------------------------------------------------------------------
(* What assigns to one *)

(* No variable has two upvalues. *)
LEMMA OneUpvalue ==
  ASSUME MachineInv, NEW u \in DOMAIN upvalues, NEW v \in DOMAIN upvalues,
         IsOpen(upvalues[u]), IsOpen(upvalues[v]), upvalues[u].index = upvalues[v].index
  PROVE  u = v
<1>1. Listed(upvalues, open_upvalues)
  BY MachineFacts
<1>2. PICK i \in 1 .. Len(open_upvalues) : open_upvalues[i] = u
  BY <1>1, ListedElements
<1>3. PICK j \in 1 .. Len(open_upvalues) : open_upvalues[j] = v
  BY <1>1, ListedElements
<1>4. /\ DOMAIN open_upvalues = 1 .. Len(open_upvalues)
      /\ upvalues[u].index \in Nat
      /\ \A k, l \in DOMAIN open_upvalues :
           k < l => upvalues[open_upvalues[k]].index < upvalues[open_upvalues[l]].index
  BY <1>1, ListedElements DEF Listed
<1>5. ~(i < j) /\ ~(j < i)
  BY <1>2, <1>3, <1>4
<1>6. i = j
  BY <1>5
<1> QED
  BY <1>2, <1>3, <1>6

(* A value that is written to the stack is assigned to the variable there, if it is one. *)
LEMMA StackAssignment ==
  ASSUME MachineInv, UNCHANGED upvalues, NEW slot \in Int, NEW v,
         stack' = [stack EXCEPT ![slot + 1] = v],
         status = "running", Opcode \in {"OP_SET_LOCAL", "OP_SET_UPVALUE"}
  PROVE  Lexical!Assign \/ Lexical!Other
<1> DEFINE variable == [u \in DOMAIN upvalues |-> ValueOf(u)]
<1>1. CASE \A x \in OpenIndices : x # slot
  <2>1. \A x \in OpenIndices : stack'[x + 1] = stack[x + 1]
    <3>1. OpenIndices \subseteq Nat
      BY FrameFacts
    <3> TAKE x \in OpenIndices
    <3>2. x + 1 # slot + 1
      BY <1>1, <3>1
    <3> QED
      BY <3>2
  <2> QED
    BY <2>1, VariablesUnchanged
<1>2. CASE \E x \in OpenIndices : x = slot
  <2>1. PICK w \in DOMAIN upvalues : IsOpen(upvalues[w]) /\ upvalues[w].index = slot
    BY <1>2 DEF OpenIndices
  <2>2. ASSUME NEW u \in DOMAIN upvalues, u # w PROVE ValueOf(u)' = ValueOf(u)
    <3>1. CASE IsOpen(upvalues[u])
      <4>1. upvalues[u].index # slot /\ upvalues[u].index \in Nat
        BY <2>1, <2>2, <3>1, OneUpvalue, UpvalueFacts
      <4>2. upvalues[u].index + 1 # slot + 1
        BY <4>1
      <4> QED
        BY <3>1, <4>2 DEF ValueOf, IsOpen, Get
    <3>2. CASE ~IsOpen(upvalues[u])
      BY <3>2 DEF ValueOf, IsOpen
    <3> QED
      BY <3>1, <3>2
  <2>3. DOMAIN variable' = DOMAIN variable /\ w \in DOMAIN variable
    OBVIOUS
  <2>4. \A u \in DOMAIN variable \ {w} : variable'[u] = variable[u]
    BY <2>2
  <2>5. {u \in DOMAIN upvalues : IsOpen(upvalues[u])}' = {u \in DOMAIN upvalues : IsOpen(upvalues[u])}
    BY DEF IsOpen
  <2> QED
    BY <2>3, <2>4, <2>5 DEF Lexical!Assign
<1> QED
  BY <1>1, <1>2

(* OP_SET_LOCAL. *)
LEMMA SetLocalAssigns ==
  ASSUME MachineInv, SetLocal
  PROVE  Lexical!Assign \/ Lexical!Other
<1>1. /\ Fetch({"OP_SET_LOCAL"}) /\ UNCHANGED upvalues
      /\ stack' = [stack EXCEPT ![Slot + 1] = Peek(0)]
  BY DEF SetLocal, Quiet
<1>2. /\ status = "running" /\ Opcode = "OP_SET_LOCAL" /\ Opcode \in OpCode
      /\ Operands[Opcode] >= 1 => Operand \in Nat
  BY <1>1, InstructionFacts
<1>3. Slot \in Int
  BY <1>2, OperandFacts, FrameFacts DEF Slot
<1> QED
  BY <1>1, <1>2, <1>3, StackAssignment

(* OP_SET_UPVALUE. *)
LEMMA SetUpvalueAssigns ==
  ASSUME MachineInv, SetUpvalue
  PROVE  Lexical!Assign \/ Lexical!Other
<1>1. Fetch({"OP_SET_UPVALUE"})
  BY DEF SetUpvalue
<1>2. status = "running" /\ Opcode = "OP_SET_UPVALUE"
  BY <1>1, InstructionFacts
<1>3. Captured \in DOMAIN upvalues
  BY <1>1, CapturedFacts
<1>4. CASE IsOpen(upvalues[Captured])
  <2>1. /\ upvalues[Captured].index \in Int /\ UNCHANGED upvalues
        /\ stack' = [stack EXCEPT ![upvalues[Captured].index + 1] = Peek(0)]
    BY <1>3, <1>4, UpvalueFacts DEF SetUpvalue
  <2> QED
    BY <1>2, <2>1, StackAssignment
<1>5. CASE ~IsOpen(upvalues[Captured])
  <2> DEFINE w == Captured
             variable == [u \in DOMAIN upvalues |-> ValueOf(u)]
  <2>1. upvalues' = [upvalues EXCEPT ![w].value = Peek(0)] /\ UNCHANGED stack
    BY <1>5 DEF SetUpvalue
  <2>2. upvalues[w] \in [value : {upvalues[w].value}]
    BY <1>3, <1>5, UpvalueFacts
  <2>3. w \in DOMAIN upvalues
    BY <1>3
  <2>4. PICK k : k = w
    OBVIOUS
  <2> HIDE DEF w
  <2>5. /\ DOMAIN upvalues' = DOMAIN upvalues
        /\ \A u \in DOMAIN upvalues : u # k => upvalues'[u] = upvalues[u]
        /\ \A u \in DOMAIN upvalues : IsOpen(upvalues[u])' <=> IsOpen(upvalues[u])
    BY <2>1, <2>2, <2>3, <2>4 DEF IsOpen
  <2>6. ASSUME NEW u \in DOMAIN upvalues, u # k PROVE ValueOf(u)' = ValueOf(u)
    <3>1. upvalues'[u] = upvalues[u] /\ stack' = stack
      BY <2>1, <2>5, <2>6
    <3> QED
      BY <3>1 DEF ValueOf, IsOpen, Get
  <2>7. DOMAIN variable' = DOMAIN variable /\ k \in DOMAIN variable
    BY <2>3, <2>4, <2>5
  <2>8. \A u \in DOMAIN variable \ {k} : variable'[u] = variable[u]
    BY <2>5, <2>6
  <2>9. {u \in DOMAIN upvalues : IsOpen(upvalues[u])}' = {u \in DOMAIN upvalues : IsOpen(upvalues[u])}
    BY <2>5
  <2> QED
    BY <1>2, <2>7, <2>8, <2>9 DEF Lexical!Assign
<1> QED
  BY <1>4, <1>5

-----------------------------------------------------------------------------
(* What captures variables, and what ends their scope *)

(* OP_CLOSURE: the new upvalues are open, and the others untouched. *)
LEMMA MakeClosureCaptures ==
  ASSUME MachineInv, SafeInv, WellFormed, MakeClosure
  PROVE  Lexical!Capture \/ Lexical!Other
<1> DEFINE variable == [u \in DOMAIN upvalues |-> ValueOf(u)]
           in_scope == {u \in DOMAIN upvalues : IsOpen(upvalues[u])}
<1>1. Fetch({"OP_CLOSURE"}) /\ stack' = Pushed(Closure(Len(closures) + 1))
  BY DEF MakeClosure
<1>2. status = "running" /\ Opcode = "OP_CLOSURE" /\ Size_ \in Nat
  BY <1>1, PopsFacts
<1>3. /\ DOMAIN upvalues \subseteq DOMAIN upvalues'
      /\ \A u \in DOMAIN upvalues : upvalues'[u] = upvalues[u]
      /\ \A u \in DOMAIN upvalues' \ DOMAIN upvalues : upvalues'[u] \in [index : CapturedIndices]
      /\ Listed(upvalues', open_upvalues') /\ Listed(upvalues, open_upvalues)
  BY MadeClosure, MachineFacts
<1>4. /\ DOMAIN upvalues = 1 .. Len(upvalues) /\ Len(upvalues) \in Nat
      /\ DOMAIN upvalues' = 1 .. Len(upvalues') /\ Len(upvalues') \in Nat
  BY <1>3, SeqFacts DEF Listed
<1>5. \A x \in OpenIndices : stack'[x + 1] = stack[x + 1]
  <2> TAKE x \in OpenIndices
  <2>1. x \in Nat /\ x < Size_
    BY <1>2, FrameFacts DEF SafeInv, FramesInFlow
  <2>2. x + 1 \in 1 .. Size_ /\ 0 \in 0 .. Size_
    BY <1>2, <2>1
  <2> QED
    BY <1>1, <2>2, BelowKept
<1>6. ASSUME NEW u \in DOMAIN upvalues PROVE ValueOf(u)' = ValueOf(u)
  <2>1. CASE IsOpen(upvalues[u])
    <3>1. upvalues[u].index \in OpenIndices
      BY <2>1 DEF OpenIndices
    <3> QED
      BY <2>1, <3>1, <1>3, <1>5 DEF ValueOf, IsOpen, Get
  <2>2. CASE ~IsOpen(upvalues[u])
    BY <2>2, <1>3 DEF ValueOf, IsOpen
  <2> QED
    BY <2>1, <2>2
<1>7. in_scope' = in_scope \cup (DOMAIN upvalues' \ DOMAIN upvalues)
  <2>1. \A u \in DOMAIN upvalues' \ DOMAIN upvalues : IsOpen(upvalues[u])'
    BY <1>3 DEF IsOpen
  <2>2. \A u \in DOMAIN upvalues : IsOpen(upvalues[u])' <=> IsOpen(upvalues[u])
    BY <1>3 DEF IsOpen
  <2> QED
    BY <1>3, <2>1, <2>2
<1>8. DOMAIN variable = DOMAIN upvalues /\ DOMAIN variable' = DOMAIN upvalues'
  OBVIOUS
<1>9. \A u \in DOMAIN variable : variable'[u] = variable[u]
  BY <1>3, <1>6
<1>10. CASE Len(upvalues') > Len(upvalues)
  <2>1. Len(variable) = Len(upvalues) /\ Len(variable') = Len(upvalues')
    <3>1. \A n \in Nat : \A f : f = [i \in 1 .. n |-> f[i]] => Len(f) = n
      BY FunctionIsSeq
    <3> QED
      BY <1>4, <3>1
  <2> HIDE DEF variable, in_scope
  <2>2. Len(variable') > Len(variable)
    BY <1>10, <2>1
  <2>3. in_scope' = in_scope \cup (DOMAIN variable' \ DOMAIN variable)
    BY <1>7, <1>8
  <2> QED
    BY <1>2, <1>9, <2>2, <2>3 DEF Lexical!Capture, variable, in_scope
<1>11. CASE ~(Len(upvalues') > Len(upvalues))
  <2>1. DOMAIN upvalues' = DOMAIN upvalues
    <3>1. Len(upvalues) # 0 => Len(upvalues) \in 1 .. Len(upvalues')
      BY <1>3, <1>4
    <3> DEFINE m == Len(upvalues)
    <3>m. PICK n : n = Len(upvalues')
      OBVIOUS
    <3>2. m \in Nat /\ n \in Nat /\ ~(n > m) /\ (m # 0 => m \in 1 .. n)
      BY <1>4, <1>11, <3>1, <3>m
    <3> HIDE DEF m
    <3>3. n = m
      BY <3>2
    <3> QED
      BY <1>4, <3>m, <3>3 DEF m
  <2>2. variable' = variable
    BY <2>1, <1>6
  <2>3. in_scope' = in_scope
    BY <2>1, <1>7
  <2> QED
    BY <2>2, <2>3 DEF Lexical!Other
<1> QED
  BY <1>10, <1>11

(* close_upvalues copies what it closes; what stays open has to stay on the stack. *)
LEMMA ClosingLeaves ==
  ASSUME MachineInv, NEW last \in Int, CloseUpvalues(last),
         \A x \in OpenIndices : x < last => stack'[x + 1] = stack[x + 1],
         Opcode \notin {"OP_SET_LOCAL", "OP_SET_UPVALUE"}
  PROVE  Lexical!Leave
<1>1. /\ DOMAIN upvalues' = DOMAIN upvalues
      /\ \A u \in DOMAIN upvalues :
           upvalues'[u] = IF IsOpen(upvalues[u]) /\ upvalues[u].index >= last
                          THEN [value |-> Get(upvalues[u].index)] ELSE upvalues[u]
  BY MachineFacts, CloseUpvaluesFacts
<1>2. ASSUME NEW u \in DOMAIN upvalues
      PROVE  ValueOf(u)' = ValueOf(u) /\ (IsOpen(upvalues[u])' => IsOpen(upvalues[u]))
  <2>1. CASE IsOpen(upvalues[u]) /\ upvalues[u].index >= last
    <3>1. upvalues'[u] = [value |-> Get(upvalues[u].index)]
      BY <1>1, <2>1
    <3> QED
      BY <2>1, <3>1 DEF ValueOf, IsOpen
  <2>2. CASE IsOpen(upvalues[u]) /\ ~(upvalues[u].index >= last)
    <3>1. upvalues[u].index \in OpenIndices /\ upvalues[u].index \in Nat
      BY <2>2, UpvalueFacts DEF OpenIndices
    <3>2. upvalues'[u] = upvalues[u] /\ upvalues[u].index < last
      BY <1>1, <2>2, <3>1
    <3> QED
      BY <2>2, <3>1, <3>2 DEF ValueOf, IsOpen, Get
  <2>3. CASE ~IsOpen(upvalues[u])
    BY <1>1, <2>3 DEF ValueOf, IsOpen
  <2> QED
    BY <2>1, <2>2, <2>3
<1>3. [u \in DOMAIN upvalues |-> ValueOf(u)]' = [u \in DOMAIN upvalues |-> ValueOf(u)]
  BY <1>1, <1>2
<1>4. {u \in DOMAIN upvalues : IsOpen(upvalues[u])}'
        \subseteq {u \in DOMAIN upvalues : IsOpen(upvalues[u])}
  BY <1>1, <1>2
<1> QED
  BY <1>3, <1>4 DEF Lexical!Leave

(* OP_CLOSE_UPVALUE closes the top of the stack before it is popped. *)
LEMMA CloseUpvalueLeaves ==
  ASSUME MachineInv, SafeInv, WellFormed, CloseUpvalue
  PROVE  Lexical!Leave
<1>1. Fetch({"OP_CLOSE_UPVALUE"}) /\ CloseUpvalues(Size_ - 1) /\ stack' = Dropped(1)
  BY DEF CloseUpvalue
<1>2. Opcode = "OP_CLOSE_UPVALUE" /\ Pops(Opcode, Arg) \in 0 .. Size_ - 1 /\ Size_ \in Nat
      /\ status = "running"
  BY <1>1, PopsFacts
<1>3. 1 \in 0 .. Size_ /\ Size_ - 1 \in Int
  BY <1>2 DEF Pops
<1>4. \A x \in OpenIndices : x < Size_ - 1 => stack'[x + 1] = stack[x + 1]
  <2> TAKE x \in OpenIndices
  <2> HAVE x < Size_ - 1
  <2>1. x \in Nat
    BY <1>2, FrameFacts
  <2>2. x + 1 \in 1 .. Size_ - 1
    BY <1>2, <2>1
  <2> QED
    BY <1>1, <1>3, <2>2, BelowKept
<1> QED
  BY <1>1, <1>2, <1>3, <1>4, ClosingLeaves

(* OP_RETURN closes the frame but for its bottom slot, which no closure captures. *)
LEMMA ReturnLeaves ==
  ASSUME MachineInv, SafeInv, WellFormed, Return
  PROVE  Lexical!Leave
<1> DEFINE b == Frame.stack_offset
<1>1. Fetch({"OP_RETURN"}) /\ CloseUpvalues(b + 1)
  BY DEF Return
<1>2. Opcode = "OP_RETURN" /\ status = "running" /\ Size_ \in Nat
  BY <1>1, PopsFacts
<1>3. /\ b \in Nat /\ b < Size_ /\ b \notin OpenIndices /\ OpenIndices \subseteq Nat
      /\ Len(call_frames) = 1 => b = 0
  BY <1>2, FrameFacts DEF SafeInv, FramesInFlow, Bottom
<1>4. \A x \in OpenIndices : x < b + 1 => x \in Nat /\ x < b
  <2> HIDE DEF b
  <2> TAKE x \in OpenIndices
  <2>1. x \in Nat /\ x # b
    BY <1>3
  <2> QED
    BY <1>3, <2>1
<1>5. \A x \in OpenIndices : x < b + 1 => stack'[x + 1] = stack[x + 1]
  <2>1. CASE Len(call_frames) = 1
    <3>1. b = 0
      BY <1>3, <2>1
    <3> HIDE DEF b
    <3> QED
      BY <1>4, <3>1
  <2>2. CASE Len(call_frames) # 1
    <3>1. stack' = Append(SubSeq(stack, 1, b), Peek(0))
      BY <2>2 DEF Return
    <3>2. IsSeq(stack) /\ b \in 0 .. Len(stack)
      BY <1>2, <1>3, MachineFacts DEF Size_
    <3> HIDE DEF b
    <3>3. /\ IsSeq(SubSeq(stack, 1, b)) /\ Len(SubSeq(stack, 1, b)) = b
          /\ \A k \in 1 .. b : SubSeq(stack, 1, b)[k] = stack[k]
      BY <3>2, PrefixFacts
    <3> DEFINE below == SubSeq(stack, 1, b)
               v     == Peek(0)
    <3>4. IsSeq(below) /\ Len(below) = b /\ stack' = Append(below, v)
      BY <3>1, <3>3
    <3> HIDE DEF below, v
    <3>5. \A k \in 1 .. b : stack'[k] = below[k]
      BY <3>4, AppendFacts
    <3>6. \A k \in 1 .. b : stack'[k] = stack[k]
      BY <3>3, <3>5 DEF below
    <3>7. \A x \in Nat : x < b => x + 1 \in 1 .. b
      BY <1>3
    <3> QED
      BY <1>4, <3>6, <3>7
  <2> QED
    BY <2>1, <2>2
<1>6. b + 1 \in Int
  BY <1>3
<1> HIDE DEF b
<1> QED
  BY <1>1, <1>2, <1>5, <1>6, ClosingLeaves

-----------------------------------------------------------------------------
(* The refinement *)

(* Before the script runs there are no captured variables. *)
LEMMA InitVariables == Init => Lexical!Init
BY DEF Init, InitVM, Lexical!Init

(* A step is one of the promise's. *)
LEMMA VariablesStep ==
  ASSUME MachineInv, SafeInv, WellFormed, [Next]_vars
  PROVE  [Lexical!Next]_Lexical!vars
<1>1. CASE UNCHANGED vars
  BY <1>1, VariablesUnchanged DEF vars, Lexical!Next
<1>2. CASE Undefined \/ RuntimeError
  <2>1. UNCHANGED <<upvalues, stack>>
    BY <1>2 DEF Undefined, RuntimeError
  <2> QED
    BY <2>1, VariablesUnchanged DEF Lexical!Next
<1>3. CASE Interpret
  <2>1. upvalues = <<>> /\ UNCHANGED upvalues
    BY <1>3 DEF Interpret, SafeInv
  <2>2. OpenIndices = {}
    BY <2>1 DEF OpenIndices
  <2> QED
    BY <2>1, <2>2, VariablesUnchanged DEF Lexical!Next
<1>4. CASE Jump \/ PrintTop \/ Push \/ Pop \/ Noop \/ SetGlobal \/ DefineGlobal
           \/ Binary \/ Unary \/ CallClosure \/ CallNative
  BY <1>4, QuietInstructions DEF Lexical!Next
<1>5. CASE SetLocal
  BY <1>5, SetLocalAssigns DEF Lexical!Next
<1>6. CASE SetUpvalue
  BY <1>6, SetUpvalueAssigns DEF Lexical!Next
<1>7. CASE MakeClosure
  BY <1>7, MakeClosureCaptures DEF Lexical!Next
<1>8. CASE CloseUpvalue
  BY <1>8, CloseUpvalueLeaves DEF Lexical!Next
<1>9. CASE Return
  BY <1>9, ReturnLeaves DEF Lexical!Next
<1> QED
  BY <1>1, <1>2, <1>3, <1>4, <1>5, <1>6, <1>7, <1>8, <1>9 DEF Next, Step

(***************************************************************************)
(* "RuntimeUpvalues close over variables, not values" (LoxObject.h:45-48): *)
(* with well-formed code the machine keeps the promise of captured         *)
(* variables, whatever the program.  A captured variable changes only when *)
(* it is assigned to, one at a time; it keeps its value when its scope is  *)
(* left, and all that captured it share it.                                *)
(***************************************************************************)
THEOREM ImplementsVariables == Spec => UpvaluesAreVariables
<1>1. Spec => [](MachineInv /\ SafeInv)
  BY SafeInvariant
<1>2. MachineInv /\ SafeInv /\ [Next]_vars => [WellFormed => Lexical!Next]_Lexical!vars
  BY VariablesStep
<1> QED
  BY <1>1, <1>2, InitVariables, PTL DEF Spec, UpvaluesAreVariables

-----------------------------------------------------------------------------
(***************************************************************************)
(* A collection in the middle of a program finds all that is alive: the    *)
(* root marking callback of the virtual machine and the trace_references   *)
(* functions lead to every string, function, closure and native function   *)
(* the machine can still get to (module LoxGC).                            *)
(*                                                                         *)
(* The callback takes two things for granted.  A frame's closure is not    *)
(* marked, for the stack holds it: that is FramesHoldTheirClosures.  The   *)
(* trace function of a closure does not mark its function: that one is a   *)
(* constant of the function that made the closure, and so on up to the     *)
(* script, which the first frame runs.                                     *)
(***************************************************************************)

-----------------------------------------------------------------------------
(* Reachability *)

(* The worklist runs dry, and leaves the least closed set above its start. *)
LEMMA ReachedIsLeast ==
  ASSUME NEW next, IsFiniteSet(DOMAIN next), \A c \in DOMAIN next : next[c] \subseteq DOMAIN next,
         NEW from \in SUBSET DOMAIN next
  PROVE  /\ from \subseteq Reached(from, next)
         /\ Reached(from, next) \subseteq DOMAIN next
         /\ \A c \in Reached(from, next) : next[c] \subseteq Reached(from, next)
         /\ \A S \in SUBSET DOMAIN next :
              from \subseteq S /\ (\A c \in S : next[c] \subseteq S) => Reached(from, next) \subseteq S
<1> DEFINE D           == DOMAIN next
           Closed(S)   == \A c \in S : next[c] \subseteq S
           More(cells) == cells \cup UNION {next[c] : c \in cells}
           Least(cells) == {d \in D : \A S \in SUBSET D : cells \subseteq S /\ Closed(S) => d \in S}
           Defines(g)  == g = [cells \in SUBSET D |->
                                 IF More(cells) = cells THEN cells ELSE g[More(cells)]]
           grown       == CHOOSE g : Defines(g)
           least       == [cells \in SUBSET D |-> Least(cells)]
<1>1. ASSUME NEW cells \in SUBSET D
      PROVE  /\ More(cells) \in SUBSET D /\ cells \subseteq More(cells)
             /\ More(cells) = cells => Closed(cells) /\ Least(cells) = cells
             /\ Least(More(cells)) = Least(cells)
  <2>1. More(cells) \in SUBSET D /\ cells \subseteq More(cells)
    OBVIOUS
  <2>2. More(cells) = cells => Closed(cells)
    OBVIOUS
  <2>3. Closed(cells) => Least(cells) = cells
    <3>1. cells \subseteq Least(cells)
      OBVIOUS
    <3> QED
      BY <3>1
  <2>4. \A S \in SUBSET D : Closed(S) => (cells \subseteq S <=> More(cells) \subseteq S)
    OBVIOUS
  <2>5. Least(More(cells)) = Least(cells)
    <3> HIDE DEF Closed, More
    <3> QED
      BY <2>4
  <2> QED
    BY <2>1, <2>2, <2>3, <2>5
<1>2. Defines(least)
  <2>1. ASSUME NEW cells \in SUBSET D
        PROVE  least[cells] = IF More(cells) = cells THEN cells ELSE least[More(cells)]
    <3> HIDE DEF More, Least
    <3> QED
      BY <1>1
  <2> HIDE DEF More, Least
  <2> QED
    BY <2>1
<1>3. Defines(grown)
  <2> HIDE DEF Defines, least
  <2> QED
    BY <1>2
<1>4. Reached(from, next) = grown[from]
  BY DEF Reached
<1>5. ASSUME NEW cells \in SUBSET D
      PROVE  grown[cells] = IF More(cells) = cells THEN cells ELSE grown[More(cells)]
  <2> HIDE DEF grown, More
  <2> QED
    BY <1>3
<1> DEFINE Left(cells) == Cardinality(D \ cells)
           N == {n \in Nat : \A cells \in SUBSET D :
                               Left(cells) <= n => grown[cells] = Least(cells)}
<1>6. ASSUME NEW cells \in SUBSET D
      PROVE  /\ Left(cells) \in Nat
             /\ More(cells) # cells => Left(More(cells)) \in Nat /\ Left(More(cells)) < Left(cells)
  <2>1. IsFiniteSet(D \ cells) /\ Cardinality(D \ cells) \in Nat
    BY FS_Subset, FS_CardinalityType
  <2>2. ASSUME More(cells) # cells
        PROVE  Cardinality(D \ More(cells)) \in Nat
               /\ Cardinality(D \ More(cells)) < Cardinality(D \ cells)
    <3> HIDE DEF More, D
    <3>1. D \ More(cells) \in SUBSET (D \ cells) /\ D \ More(cells) # D \ cells
      BY <1>1, <2>2
    <3>2. /\ Cardinality(D \ More(cells)) <= Cardinality(D \ cells)
          /\ Cardinality(D \ More(cells)) # Cardinality(D \ cells)
          /\ IsFiniteSet(D \ More(cells))
      BY <2>1, <3>1, FS_Subset
    <3>3. Cardinality(D \ More(cells)) \in Nat
      BY <3>2, FS_CardinalityType
    <3> QED
      BY <2>1, <3>2, <3>3
  <2> QED
    BY <2>1, <2>2
<1> HIDE DEF D, More, Least, Closed, grown, Defines, Left
<1>7. 0 \in N
  <2>1. ASSUME NEW cells \in SUBSET D, Left(cells) <= 0 PROVE grown[cells] = Least(cells)
    <3>1. More(cells) = cells
      BY <1>6, <2>1
    <3> QED
      BY <1>1, <1>5, <3>1
  <2> QED
    BY <2>1
<1>8. ASSUME NEW n \in Nat, n \in N PROVE n + 1 \in N
  <2>1. ASSUME NEW cells \in SUBSET D, Left(cells) <= n + 1
        PROVE  grown[cells] = Least(cells)
    <3>1. CASE More(cells) = cells
      BY <1>1, <1>5, <3>1
    <3>2. CASE More(cells) # cells
      <4>1. More(cells) \in SUBSET D /\ Left(More(cells)) <= n
        BY <1>1, <1>6, <2>1, <3>2
      <4> QED
        BY <1>1, <1>5, <1>8, <3>2, <4>1
    <3> QED
      BY <3>1, <3>2
  <2> QED
    BY <2>1
<1>9. grown[from] = Least(from)
  <2>1. Nat \subseteq N
    <3> HIDE DEF N
    <3> QED
      BY <1>7, <1>8, Induction
  <2>2. from \in SUBSET D
    BY DEF D
  <2>3. Left(from) \in N
    BY <1>6, <2>1, <2>2
  <2> QED
    BY <1>6, <2>2, <2>3
<1>10. /\ from \subseteq Least(from) /\ Least(from) \subseteq D
       /\ \A c \in Least(from) : next[c] \subseteq Least(from)
       /\ \A S \in SUBSET D : from \subseteq S /\ Closed(S) => Least(from) \subseteq S
  BY DEF Least, Closed, D
<1> QED
  BY <1>4, <1>9, <1>10 DEF D, Closed


-----------------------------------------------------------------------------
(* There are finitely many cells *)

(* A function on a finite set has finitely many values. *)
LEMMA FiniteImage ==
  ASSUME NEW f, IsFiniteSet(DOMAIN f)
  PROVE  IsFiniteSet({f[x] : x \in DOMAIN f})
<1> DEFINE g == [x \in DOMAIN f |-> f[x]]
           T == {f[x] : x \in DOMAIN f}
<1>1. g \in Surjection(DOMAIN f, T)
  BY DEF Surjection
<1> HIDE DEF g
<1> QED
  BY <1>1, FS_Surjection

(* So has a sequence. *)
LEMMA FiniteElements ==
  ASSUME NEW s, IsSeq(s)
  PROVE  IsFiniteSet(DOMAIN s) /\ IsFiniteSet(ToSet(s))
<1>1. DOMAIN s = 1 .. Len(s) /\ Len(s) \in Nat
  BY SeqFacts
<1>2. IsFiniteSet(DOMAIN s)
  BY <1>1, FS_Interval
<1> QED
  BY <1>2, FiniteImage DEF ToSet

(* There are finitely many global variables. *)
GlobalsFinite == IsFiniteSet(DOMAIN globals)

(* The program has finitely many functions, and each is a function of the code. *)
LEMMA ProgramFacts ==
  ASSUME MachineInv
  PROVE  /\ IsSeq(functions)
         /\ \A f \in DOMAIN functions :
              /\ IsSeq(functions[f].constants)
              /\ \A v \in ToSet(functions[f].constants) : IsConstant(functions, v)
BY SeqIsSeq DEF MachineInv, IsProgram, IsSeq, ToSet, Range

(* All that gc_ptrs may lead to is finite. *)
LEMMA AnyCellFinite ==
  ASSUME MachineInv, GlobalsFinite
  PROVE  IsFiniteSet(AnyCell)
<1>1. IsSeq(functions) /\ IsSeq(stack) /\ IsSeq(closures) /\ IsSeq(upvalues)
  BY ProgramFacts, MachineFacts, SeqIsSeq DEF MachineInv, TypeOK, Listed
<1>2. /\ IsFiniteSet(DOMAIN functions) /\ IsFiniteSet(DOMAIN closures)
      /\ IsFiniteSet(DOMAIN upvalues) /\ IsFiniteSet(ToSet(stack))
      /\ IsFiniteSet(DOMAIN globals)
  BY <1>1, FiniteElements DEF GlobalsFinite
<1>3. IsFiniteSet({Fun(f) : f \in DOMAIN functions})
  <2> DEFINE g == [f \in DOMAIN functions |-> Fun(f)]
  <2>1. IsFiniteSet({g[f] : f \in DOMAIN g})
    BY <1>2, FiniteImage
  <2> QED
    BY <2>1
<1>4. IsFiniteSet({Closure(c) : c \in DOMAIN closures})
  <2> DEFINE g == [c \in DOMAIN closures |-> Closure(c)]
  <2>1. IsFiniteSet({g[c] : c \in DOMAIN g})
    BY <1>2, FiniteImage
  <2> QED
    BY <2>1
<1>5. IsFiniteSet(UpvalueCells)
  <2> DEFINE g == [u \in DOMAIN upvalues |-> UpvalueCell(u)]
  <2>1. IsFiniteSet({g[u] : u \in DOMAIN g})
    BY <1>2, FiniteImage
  <2> QED
    BY <2>1 DEF UpvalueCells
<1>6. IsFiniteSet({Str(name) : name \in DOMAIN globals})
  <2> DEFINE g == [name \in DOMAIN globals |-> Str(name)]
  <2>1. IsFiniteSet({g[name] : name \in DOMAIN g})
    BY <1>2, FiniteImage
  <2> QED
    BY <2>1
<1>7. IsFiniteSet(UNION {FunctionCells(f) : f \in DOMAIN functions})
  <2> DEFINE g == [f \in DOMAIN functions |-> FunctionCells(f)]
  <2>1. IsFiniteSet({g[f] : f \in DOMAIN g})
    BY <1>2, FiniteImage
  <2>2. {g[f] : f \in DOMAIN g} = {FunctionCells(f) : f \in DOMAIN functions}
    OBVIOUS
  <2>3. ASSUME NEW f \in DOMAIN functions PROVE IsFiniteSet(FunctionCells(f))
    <3>1. IsFiniteSet(ToSet(functions[f].constants))
      BY ProgramFacts, FiniteElements
    <3>2. Cells(ToSet(functions[f].constants)) \subseteq ToSet(functions[f].constants)
      BY DEF Cells
    <3> QED
      BY <3>1, <3>2, FS_Subset, FS_Singleton, FS_Union DEF FunctionCells
  <2> HIDE DEF g
  <2> QED
    BY <2>1, <2>2, <2>3, FS_UNION
<1>8. IsFiniteSet(Cells(ToSet(stack) \cup {globals[name] : name \in DOMAIN globals}))
  <2>1. IsFiniteSet({globals[name] : name \in DOMAIN globals})
    BY <1>2, FiniteImage
  <2> DEFINE values == ToSet(stack) \cup {globals[name] : name \in DOMAIN globals}
  <2>2. IsFiniteSet(values)
    BY <1>2, <2>1, FS_Union
  <2>3. Cells(values) \subseteq values
    BY DEF Cells
  <2> QED
    BY <2>2, <2>3, FS_Subset
<1>9. IsFiniteSet(ValueCells({u \in DOMAIN upvalues : ~IsOpen(upvalues[u])}))
  <2> DEFINE closed == {u \in DOMAIN upvalues : ~IsOpen(upvalues[u])}
             g      == [u \in closed |-> ValueOf(u)]
  <2>1. IsFiniteSet(closed)
    BY <1>2, FS_Subset
  <2>2. IsFiniteSet({g[u] : u \in DOMAIN g})
    BY <2>1, FiniteImage
  <2>3. Cells({ValueOf(u) : u \in closed}) \subseteq {g[u] : u \in DOMAIN g}
    BY DEF Cells
  <2> QED
    BY <2>2, <2>3, FS_Subset DEF ValueCells
<1> QED
  BY <1>3, <1>4, <1>5, <1>6, <1>7, <1>8, <1>9, FS_Union DEF AnyCell


-----------------------------------------------------------------------------
(* Where cells lead *)

(* A gc_ptr among values and constants leads to what there is. *)
LEMMA CellShapes ==
  ASSUME MachineInv, NEW v, IsValue(v) \/ IsConstant(functions, v)
  PROVE  /\ DOMAIN v # {"upvalue"}
         /\ DOMAIN v = {"fun"} => v.fun \in DOMAIN functions /\ v = Fun(v.fun)
         /\ DOMAIN v = {"clo"} => v.clo \in DOMAIN closures /\ v = Closure(v.clo)
BY DEF IsValue, IsConstant, IsNum, IsStr, Fun, Closure

(* What the machine's values are. *)
LEMMA ValuesHere ==
  ASSUME MachineInv
  PROVE  /\ \A v \in ToSet(stack) : IsValue(v)
         /\ \A name \in DOMAIN globals : IsValue(globals[name])
         /\ \A u \in DOMAIN upvalues : Readable(u) => IsValue(ValueOf(u))
BY UpvalueFacts DEF MachineInv, TypeOK, Range, ToSet

(* The cells of functions, and of values, are among all cells. *)
LEMMA CellsOfFunctions ==
  ASSUME NEW f \in DOMAIN functions
  PROVE  FunctionCells(f) \subseteq AnyCell
BY DEF AnyCell

(* A readable upvalue leads to values of the stack, or to its own. *)
LEMMA CellsOfUpvalues ==
  ASSUME MachineInv, AllReadable, NEW us \in SUBSET DOMAIN upvalues
  PROVE  ValueCells(us) \subseteq AnyCell
<1> SUFFICES ASSUME NEW u \in us, ValueOf(u) \in Cells({ValueOf(u)})
             PROVE  ValueOf(u) \in AnyCell
  BY DEF ValueCells, Cells
<1>1. CASE IsOpen(upvalues[u])
  <2>1. upvalues[u].index \in Nat /\ upvalues[u].index < Size_
    BY <1>1, UpvalueFacts DEF AllReadable, Readable
  <2>2. upvalues[u].index + 1 \in DOMAIN stack
    BY <2>1, MachineFacts DEF Size_
  <2>3. ValueOf(u) \in ToSet(stack)
    BY <1>1, <2>2 DEF ValueOf, Get, ToSet
  <2>4. ValueOf(u) \in Cells(ToSet(stack) \cup {globals[name] : name \in DOMAIN globals})
    BY <2>3 DEF Cells
  <2> QED
    BY <2>4 DEF AnyCell
<1>2. CASE ~IsOpen(upvalues[u])
  <2>1. ValueOf(u) \in ValueCells({w \in DOMAIN upvalues : ~IsOpen(upvalues[w])})
    BY <1>2 DEF ValueCells, Cells
  <2> QED
    BY <2>1 DEF AnyCell
<1> QED
  BY <1>1, <1>2

(* What kind of cell leads where. *)
LEMMA CellKinds ==
  ASSUME MachineInv, AllReadable, NEW c \in AnyCell
  PROVE  /\ DOMAIN c = {"fun"} => c.fun \in DOMAIN functions /\ c = Fun(c.fun)
         /\ DOMAIN c = {"clo"} => c.clo \in DOMAIN closures /\ c = Closure(c.clo)
         /\ DOMAIN c = {"upvalue"} => c.upvalue \in DOMAIN upvalues /\ c = UpvalueCell(c.upvalue)
<1>1. CASE c \in UpvalueCells
  BY <1>1 DEF UpvalueCells, UpvalueCell
<1>2. CASE c \in {Fun(f) : f \in DOMAIN functions} \cup {Closure(d) : d \in DOMAIN closures}
             \cup {Str(name) : name \in DOMAIN globals}
  BY <1>2 DEF Fun, Closure, Str
<1>3. CASE c \in UNION {FunctionCells(f) : f \in DOMAIN functions}
  <2>1. PICK f \in DOMAIN functions : c \in FunctionCells(f)
    BY <1>3
  <2>2. CASE c = Str(functions[f].name)
    BY <2>2 DEF Str
  <2>3. CASE c \in ToSet(functions[f].constants)
    BY <2>3, ProgramFacts, CellShapes
  <2> QED
    BY <2>1, <2>2, <2>3 DEF FunctionCells, Cells
<1>4. CASE \/ c \in Cells(ToSet(stack) \cup {globals[name] : name \in DOMAIN globals})
           \/ c \in ValueCells({u \in DOMAIN upvalues : ~IsOpen(upvalues[u])})
  <2>1. IsValue(c)
    BY <1>4, ValuesHere DEF Cells, ValueCells, AllReadable
  <2> QED
    BY <2>1, CellShapes
<1> QED
  BY <1>1, <1>2, <1>3, <1>4 DEF AnyCell

(* The upvalues of a closure exist. *)
LEMMA UpvaluesExist ==
  ASSUME MachineInv, NEW c \in DOMAIN closures
  PROVE  Upvalues(c) \subseteq DOMAIN upvalues /\ closures[c].function \in DOMAIN functions
<1>1. closures[c] \in [function : DOMAIN functions, upvalues : Seq(DOMAIN upvalues)]
  BY MachineFacts
<1>2. closures[c].upvalues \in Seq(DOMAIN upvalues)
  BY <1>1
<1>3. \A i \in DOMAIN closures[c].upvalues : closures[c].upvalues[i] \in DOMAIN upvalues
  BY <1>2
<1> QED
  BY <1>1, <1>3 DEF Upvalues, ToSet

(* Cells lead to cells. *)
LEMMA CellsLeadToCells ==
  ASSUME MachineInv, AllReadable
  PROVE  /\ DOMAIN Traced = AnyCell /\ \A c \in AnyCell : Traced[c] \subseteq AnyCell
         /\ DOMAIN Contents = AnyCell /\ \A c \in AnyCell : Contents[c] \subseteq AnyCell
<1>1. DOMAIN Traced = AnyCell /\ DOMAIN Contents = AnyCell
  BY DEF Traced, Contents
<1>2. ASSUME NEW c \in AnyCell
      PROVE  Traced[c] \subseteq AnyCell /\ Contents[c] \subseteq AnyCell
  <2>1. CASE DOMAIN c = {"fun"}
    <3>1. Traced[c] = FunctionCells(c.fun) /\ Contents[c] = FunctionCells(c.fun)
      BY <2>1 DEF Traced, Contents
    <3> QED
      BY <2>1, <3>1, CellKinds, CellsOfFunctions
  <2>2. CASE DOMAIN c = {"clo"}
    <3>1. /\ Traced[c] = FunctionCells(closures[c.clo].function) \cup ValueCells(Upvalues(c.clo))
          /\ Contents[c] = {Fun(closures[c.clo].function)}
                             \cup {UpvalueCell(u) : u \in Upvalues(c.clo)}
      BY <2>2 DEF Traced, Contents
    <3>2. /\ Upvalues(c.clo) \in SUBSET DOMAIN upvalues
          /\ closures[c.clo].function \in DOMAIN functions
      BY <2>2, CellKinds, UpvaluesExist
    <3>3. Fun(closures[c.clo].function) \in AnyCell
      BY <3>2 DEF AnyCell
    <3>4. {UpvalueCell(u) : u \in Upvalues(c.clo)} \subseteq AnyCell
      BY <3>2 DEF AnyCell, UpvalueCells
    <3> QED
      BY <3>1, <3>2, <3>3, <3>4, CellsOfFunctions, CellsOfUpvalues
  <2>3. CASE DOMAIN c = {"upvalue"}
    <3>1. Traced[c] = {} /\ Contents[c] = ValueCells({c.upvalue})
      BY <2>3 DEF Traced, Contents
    <3>2. {c.upvalue} \in SUBSET DOMAIN upvalues
      BY <2>3, CellKinds
    <3> QED
      BY <3>1, <3>2, CellsOfUpvalues
  <2>4. CASE DOMAIN c \notin {{"fun"}, {"clo"}, {"upvalue"}}
    BY <2>4 DEF Traced, Contents
  <2> QED
    BY <2>1, <2>2, <2>3, <2>4
<1> QED
  BY <1>1, <1>2


(* What the machine holds, and what the callback marks, are cells. *)
LEMMA RootsAreCells ==
  ASSUME MachineInv, AllReadable, status = "running"
  PROVE  Roots \subseteq AnyCell /\ Held \subseteq AnyCell
<1>1. /\ Cells(ToSet(stack)) \subseteq AnyCell
      /\ Cells({globals[name] : name \in DOMAIN globals}) \subseteq AnyCell
      /\ {Str(name) : name \in DOMAIN globals} \subseteq AnyCell
  BY DEF AnyCell, Cells
<1>2. ToSet(open_upvalues) \subseteq DOMAIN upvalues
  BY DEF MachineInv, OpenUpvaluesOrdered, Range, ToSet
<1>3. ASSUME NEW i \in DOMAIN call_frames
      PROVE  /\ Closure(call_frames[i].closure) \in AnyCell
             /\ MarkedOfFrame(call_frames[i]) \subseteq AnyCell
  <2>1. call_frames[i].closure \in DOMAIN closures
    BY FrameFacts
  <2>2. Upvalues(call_frames[i].closure) \in SUBSET DOMAIN upvalues
    BY <2>1, UpvaluesExist
  <2>3. closures[call_frames[i].closure].function \in DOMAIN functions
    BY <2>1, UpvaluesExist
  <2>4. Fun(closures[call_frames[i].closure].function) \in AnyCell
    BY <2>3 DEF AnyCell
  <2>5. Closure(call_frames[i].closure) \in AnyCell
    BY <2>1 DEF AnyCell
  <2> QED
    BY <2>2, <2>4, <2>5, CellsOfUpvalues DEF MarkedOfFrame
<1>4. ValueCells(ToSet(open_upvalues)) \subseteq AnyCell
  BY <1>2, CellsOfUpvalues
<1>5. {UpvalueCell(u) : u \in ToSet(open_upvalues)} \subseteq AnyCell
  BY <1>2 DEF AnyCell, UpvalueCells
<1> QED
  BY <1>1, <1>3, <1>4, <1>5 DEF Roots, Held

(* Neither the callback nor a trace function marks the cell of an upvalue. *)
LEMMA NoUpvalueIsMarked ==
  ASSUME MachineInv, AllReadable, status = "running"
  PROVE  LET others == {c \in AnyCell : DOMAIN c # {"upvalue"}}
         IN  Roots \subseteq others /\ \A c \in AnyCell : Traced[c] \subseteq others
<1> DEFINE plain(S) == \A c \in S : DOMAIN c # {"upvalue"}
<1>1. ASSUME NEW values PROVE plain(Cells(values))
  BY DEF Cells
<1>2. \A us : plain(ValueCells(us))
  BY <1>1 DEF ValueCells
<1>3. \A name : DOMAIN Str(name) # {"upvalue"}
  BY DEF Str
<1>4. \A f : plain(FunctionCells(f))
  BY <1>1, <1>3 DEF FunctionCells
<1>5. \A f : DOMAIN Fun(f) # {"upvalue"}
  BY DEF Fun
<1>6. \A frame : plain(MarkedOfFrame(frame))
  BY <1>2, <1>5 DEF MarkedOfFrame
<1>7. plain(Roots)
  BY <1>1, <1>2, <1>3, <1>6 DEF Roots
<1>8. \A c \in AnyCell : plain(Traced[c])
  BY <1>2, <1>4 DEF Traced
<1> QED
  BY <1>7, <1>8, RootsAreCells, CellsLeadToCells

-----------------------------------------------------------------------------
(* Functions *)

(* A set of functions that has those among the constants of its members. *)
HasItsConstants(S) ==
  \A f \in S : \A v \in ToSet(functions[f].constants) : IsFun(v) => v.fun \in S

(***************************************************************************)
(* Every function that has a closure is a constant of a constant ... of    *)
(* the script.                                                             *)
(***************************************************************************)
ClosuresOfTheScript ==
  \A S \in SUBSET DOMAIN functions :
    1 \in S /\ HasItsConstants(S) => \A c \in DOMAIN closures : closures[c].function \in S

(* The invariants of this module. *)
CollectionInv == GlobalsFinite /\ ClosuresOfTheScript

(* It holds before the script runs. *)
LEMMA InitCollection == Init => CollectionInv
<1> SUFFICES ASSUME Init PROVE CollectionInv
  OBVIOUS
<1>1. DOMAIN globals = {"clock"} /\ DOMAIN closures = {}
  BY DEF Init, InitVM
<1>2. IsFiniteSet({"clock"})
  BY FS_Singleton
<1> QED
  BY <1>1, <1>2 DEF CollectionInv, GlobalsFinite, ClosuresOfTheScript

(* A new closure's function is a constant of the function that runs. *)
LEMMA MakeClosureOfTheScript ==
  ASSUME MachineInv, ClosuresOfTheScript, MakeClosure
  PROVE  ClosuresOfTheScript'
<1>1. Fetch({"OP_CLOSURE"}) /\ UNCHANGED functions
  BY DEF MakeClosure
<1>2. /\ Len(closures') = Len(closures) + 1
      /\ \A c \in 1 .. Len(closures) : closures'[c] = closures[c]
      /\ closures'[Len(closures) + 1].function = Constant.fun
      /\ closures' \in Seq([function : DOMAIN functions, upvalues : Seq(DOMAIN upvalues')])
  BY MadeClosure
<1>3. DOMAIN closures' = 1 .. Len(closures) + 1 /\ DOMAIN closures = 1 .. Len(closures)
      /\ Len(closures) \in Nat
  BY <1>2, MachineFacts, LenProperties
<1>4. IsFun(Constant)
  BY <1>1, MakeClosureFacts DEF IsFun
<1>5. Constant \in ToSet(CurrFun.constants)
  <2>1. /\ Opcode = "OP_CLOSURE" /\ Opcode \in OpCode
        /\ Operands[Opcode] >= 1 => Operand \in Nat
        /\ closures[Frame.closure].function \in DOMAIN functions
    BY <1>1, InstructionFacts
  <2>2. Defined /\ At(CurrFun.code, Ip) \in DOMAIN Named
    BY <1>1 DEF Fetch, Erroneous
  <2>3. Operand \in Nat /\ Operand < Len(CurrFun.constants)
    BY <2>1, <2>2, OperandFacts DEF Defined
  <2>4. IsSeq(CurrFun.constants)
    BY <2>1, ProgramFacts DEF CurrFun, FunctionOf
  <2>5. Operand + 1 \in DOMAIN CurrFun.constants
    BY <2>3, <2>4, SeqFacts
  <2> QED
    BY <2>5 DEF Constant, ToSet
<1>6. Frame.closure \in DOMAIN closures /\ CurrFun = functions[closures[Frame.closure].function]
  BY <1>1, InstructionFacts, FrameFacts DEF CurrFun, FunctionOf
<1>7. ASSUME NEW S \in SUBSET DOMAIN functions, 1 \in S, HasItsConstants(S)
      PROVE  \A c \in DOMAIN closures' : closures'[c].function \in S
  <2>1. \A c \in DOMAIN closures : closures[c].function \in S
    BY <1>7 DEF ClosuresOfTheScript
  <2>2. Constant.fun \in S
    BY <1>4, <1>5, <1>6, <1>7, <2>1 DEF HasItsConstants
  <2> QED
    BY <1>2, <1>3, <2>1, <2>2
<1>8. \A S : HasItsConstants(S)' <=> HasItsConstants(S)
  BY <1>1 DEF HasItsConstants
<1> QED
  BY <1>1, <1>7, <1>8 DEF ClosuresOfTheScript

(* Every step keeps it. *)
LEMMA CollectionStep == MachineInv /\ CollectionInv /\ [Next]_vars => CollectionInv'
<1> SUFFICES ASSUME MachineInv, CollectionInv, [Next]_vars PROVE CollectionInv'
  OBVIOUS
<1> USE DEF CollectionInv
<1>1. CASE UNCHANGED <<functions, closures, globals>>
  BY <1>1 DEF GlobalsFinite, ClosuresOfTheScript, HasItsConstants
<1>2. CASE Interpret
  <2>1. UNCHANGED <<functions, globals>> /\ closures' = <<[function |-> 1, upvalues |-> <<>>]>>
    BY <1>2 DEF Interpret
  <2>2. \A c \in DOMAIN closures' : closures'[c].function = 1
    BY <2>1
  <2> QED
    BY <2>1, <2>2 DEF GlobalsFinite, ClosuresOfTheScript
<1>3. CASE MakeClosure
  <2>1. UNCHANGED globals
    BY <1>3 DEF MakeClosure
  <2> QED
    BY <1>3, <2>1, MakeClosureOfTheScript DEF GlobalsFinite
<1>4. CASE SetGlobal
  <2>1. UNCHANGED <<functions, closures>> /\ DOMAIN globals' = DOMAIN globals
    BY <1>4 DEF SetGlobal
  <2> QED
    BY <2>1 DEF GlobalsFinite, ClosuresOfTheScript, HasItsConstants
<1>5. CASE DefineGlobal
  <2>1. UNCHANGED <<functions, closures>> /\ DOMAIN globals' = DOMAIN globals \cup {Constant.str}
    BY <1>5 DEF DefineGlobal
  <2> QED
    BY <2>1, FS_AddElement DEF GlobalsFinite, ClosuresOfTheScript, HasItsConstants
<1>6. CASE Undefined \/ RuntimeError \/ Jump \/ PrintTop \/ Push \/ Pop \/ Noop
  <2>1. UNCHANGED <<functions, closures, globals>>
    BY <1>6 DEF Undefined, RuntimeError, Jump, PrintTop, Push, Pop, Noop, Quiet
  <2> QED
    BY <2>1, <1>1
<1>7. CASE SetLocal \/ SetUpvalue \/ Binary \/ Unary \/ CloseUpvalue \/ Return
           \/ CallClosure \/ CallNative
  <2>1. UNCHANGED <<functions, closures, globals>>
    BY <1>7 DEF SetLocal, SetUpvalue, Binary, Unary, CloseUpvalue, Return, CallClosure,
                CallNative, Quiet
  <2> QED
    BY <2>1, <1>1
<1>8. CASE UNCHANGED vars
  BY <1>1, <1>8 DEF vars
<1> QED
  BY <1>2, <1>3, <1>4, <1>5, <1>6, <1>7, <1>8 DEF Next, Step

-----------------------------------------------------------------------------
(* The theorem *)

(* While the script runs, what its code names is marked. *)
LEMMA FunctionsMarked ==
  ASSUME MachineInv, SafeInv, CollectionInv, WellFormed, AllReadable, status = "running",
         NEW M \in SUBSET AnyCell, Roots \subseteq M, \A c \in M : Traced[c] \subseteq M
  PROVE  \A c \in DOMAIN closures : Fun(closures[c].function) \in M
<1> DEFINE S == {f \in DOMAIN functions : Fun(f) \in M}
<1>1. 1 \in S
  <2>1. 1 \in DOMAIN call_frames
    BY FrameFacts
  <2>2. closures[call_frames[1].closure].function = 1
    BY DEF SafeInv, FramesInFlow
  <2>3. Fun(1) \in Roots
    BY <2>1, <2>2 DEF Roots, MarkedOfFrame
  <2> QED
    BY <2>3 DEF MachineInv, IsProgram
<1>2. ASSUME NEW f \in S, NEW v \in ToSet(functions[f].constants), IsFun(v) PROVE v.fun \in S
  <2>1. Fun(f) \in AnyCell /\ DOMAIN Fun(f) = {"fun"} /\ Fun(f).fun = f
    BY DEF AnyCell, Fun
  <2>2. Traced[Fun(f)] = FunctionCells(f)
    BY <2>1 DEF Traced
  <2>3. v \in FunctionCells(f)
    BY <1>2 DEF FunctionCells, Cells, IsFun
  <2>4. v.fun \in DOMAIN functions /\ v = Fun(v.fun)
    BY <1>2, ProgramFacts, CellShapes DEF IsFun
  <2> QED
    BY <2>2, <2>3, <2>4
<1> HIDE DEF S
<1>3. HasItsConstants(S)
  BY <1>2 DEF HasItsConstants
<1> QED
  BY <1>1, <1>3 DEF S, CollectionInv, ClosuresOfTheScript

(***************************************************************************)
(* "In what cases anything that the closure owns is not reachable via      *)
(* stack?" (VM.cpp:313): a collection that takes place while well-formed   *)
(* code runs marks every string, function, closure and native function     *)
(* that the machine can still get to, whatever the program.                *)
(***************************************************************************)
THEOREM CollectionsFindValues == Spec => []ValuesSurvive
<1>1. MachineInv /\ SafeInv /\ CollectionInv => ValuesSurvive
  <2> SUFFICES ASSUME MachineInv, SafeInv, CollectionInv, WellFormed, AllReadable,
                      status = "running"
               PROVE  Alive \subseteq Marked \cup UpvalueCells
    BY DEF ValuesSurvive
  <2>1. /\ Roots \subseteq Marked /\ Marked \subseteq AnyCell
        /\ \A c \in Marked : Traced[c] \subseteq Marked
    <3>1. IsFiniteSet(DOMAIN Traced) /\ Roots \in SUBSET DOMAIN Traced
          /\ \A c \in DOMAIN Traced : Traced[c] \subseteq DOMAIN Traced
      BY AnyCellFinite, CellsLeadToCells, RootsAreCells DEF CollectionInv
    <3> QED
      BY <3>1, ReachedIsLeast, CellsLeadToCells DEF Marked
  <2>2. \A S \in SUBSET AnyCell :
          Held \subseteq S /\ (\A c \in S : Contents[c] \subseteq S) => Alive \subseteq S
    <3>1. IsFiniteSet(DOMAIN Contents) /\ Held \in SUBSET DOMAIN Contents
          /\ \A c \in DOMAIN Contents : Contents[c] \subseteq DOMAIN Contents
      BY AnyCellFinite, CellsLeadToCells, RootsAreCells DEF CollectionInv
    <3> QED
      BY <3>1, ReachedIsLeast, CellsLeadToCells DEF Alive
  <2>3. \A c \in DOMAIN closures : Fun(closures[c].function) \in Marked
    BY <2>1, FunctionsMarked
  <2>4. \A c \in Marked : DOMAIN c # {"upvalue"}
    <3>1. IsFiniteSet(DOMAIN Traced) /\ Roots \in SUBSET DOMAIN Traced
          /\ \A c \in DOMAIN Traced : Traced[c] \subseteq DOMAIN Traced
      BY AnyCellFinite, CellsLeadToCells, RootsAreCells DEF CollectionInv
    <3> DEFINE others == {c \in AnyCell : DOMAIN c # {"upvalue"}}
    <3>2. Roots \subseteq others /\ others \in SUBSET DOMAIN Traced
          /\ \A c \in others : Traced[c] \subseteq others
      BY NoUpvalueIsMarked, CellsLeadToCells
    <3> HIDE DEF others
    <3>3. Marked \subseteq others
      BY <3>1, <3>2, ReachedIsLeast DEF Marked
    <3> QED
      BY <3>3 DEF others
  <2>5. \A u : DOMAIN UpvalueCell(u) = {"upvalue"} /\ UpvalueCell(u).upvalue = u
    BY DEF UpvalueCell
  <2> DEFINE Covered == {u \in DOMAIN upvalues : ValueCells({u}) \subseteq Marked}
             S == Marked \cup {UpvalueCell(u) : u \in Covered}
  <2>6. S \in SUBSET AnyCell /\ S \subseteq Marked \cup UpvalueCells
    BY <2>1 DEF UpvalueCells, AnyCell
  <2>7. Held \subseteq S
    <3>1. \A i \in DOMAIN call_frames : Closure(call_frames[i].closure) \in Cells(ToSet(stack))
      <4> TAKE i \in DOMAIN call_frames
      <4>1. /\ Bottom(i) \in Nat /\ Bottom(i) < Size_
            /\ Get(Bottom(i)) = Closure(call_frames[i].closure)
        BY FrameFacts DEF SafeInv, FramesInFlow
      <4>2. Bottom(i) + 1 \in DOMAIN stack
        BY <4>1, MachineFacts DEF Size_
      <4> QED
        BY <4>1, <4>2 DEF Get, ToSet, Cells, Closure
    <3>2. ToSet(open_upvalues) \subseteq Covered
      <4>1. ToSet(open_upvalues) \subseteq DOMAIN upvalues
        BY DEF MachineInv, OpenUpvaluesOrdered, Range, ToSet
      <4>2. \A u \in ToSet(open_upvalues) : ValueCells({u}) \subseteq ValueCells(ToSet(open_upvalues))
        BY DEF ValueCells, Cells
      <4> QED
        BY <2>1, <4>1, <4>2 DEF Roots
    <3> QED
      BY <2>1, <3>1, <3>2 DEF Held, Roots
  <2>8. ASSUME NEW c \in S PROVE Contents[c] \subseteq S
    <3>0. c \in AnyCell
      BY <2>6
    <3>1. CASE DOMAIN c = {"fun"}
      <4>1. c \in Marked
        BY <2>5, <3>1
      <4>2. Contents[c] = FunctionCells(c.fun) /\ Traced[c] = FunctionCells(c.fun)
        BY <3>0, <3>1 DEF Contents, Traced
      <4> QED
        BY <2>1, <4>1, <4>2
    <3>2. CASE DOMAIN c = {"clo"}
      <4>1. c \in Marked
        BY <2>5, <3>2
      <4>2. /\ Traced[c] = FunctionCells(closures[c.clo].function) \cup ValueCells(Upvalues(c.clo))
            /\ Contents[c] = {Fun(closures[c.clo].function)}
                               \cup {UpvalueCell(u) : u \in Upvalues(c.clo)}
        BY <3>0, <3>2 DEF Contents, Traced
      <4>3. c.clo \in DOMAIN closures /\ Upvalues(c.clo) \subseteq DOMAIN upvalues
        BY <3>0, <3>2, CellKinds, UpvaluesExist
      <4>4. \A u \in Upvalues(c.clo) : ValueCells({u}) \subseteq ValueCells(Upvalues(c.clo))
        BY DEF ValueCells, Cells
      <4>5. Upvalues(c.clo) \subseteq Covered
        BY <2>1, <4>1, <4>2, <4>3, <4>4
      <4> QED
        BY <2>3, <4>2, <4>3, <4>5
    <3>3. CASE DOMAIN c = {"upvalue"}
      <4>1. Contents[c] = ValueCells({c.upvalue}) /\ Traced[c] = {}
        BY <3>0, <3>3 DEF Contents, Traced
      <4>2. c.upvalue \in Covered
        BY <2>4, <2>5, <3>3
      <4> QED
        BY <4>1, <4>2
    <3>4. CASE DOMAIN c \notin {{"fun"}, {"clo"}, {"upvalue"}}
      BY <3>0, <3>4 DEF Contents
    <3> QED
      BY <3>1, <3>2, <3>3, <3>4
  <2> HIDE DEF S
  <2> QED
    BY <2>2, <2>6, <2>7, <2>8
<1>2. Spec => [](MachineInv /\ SafeInv)
  BY SafeInvariant
<1> QED
  BY <1>1, <1>2, InitCollection, CollectionStep, PTL DEF Spec

=============================================================================
