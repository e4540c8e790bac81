--------------------------- MODULE SelectionProofs ---------------------------
(***************************************************************************)
(* Induction over the natural numbers as a fact about sets, which provers  *)
(* can apply, and with it what Selected returns, for sequences of any      *)
(* length.                                                                 *)
(***************************************************************************)
EXTENDS Selection, Integers, SequenceTheorems, WellFoundedInduction, TLAPS

\* A set of natural numbers has a least one.
LEMMA LeastNumber ==
  ASSUME NEW S \in SUBSET Nat, S # {}
  PROVE  \E x \in S : \A y \in S : x <= y
<1>1. PICK x \in S : \A y \in S : <<y, x>> \notin OpToRel(<, Nat)
  <2>1. IsWellFoundedOn(OpToRel(<, Nat), Nat)
    BY NatLessThanWellFounded
  <2> QED  BY <2>1, WFMin
<1>2. ASSUME NEW y \in S PROVE x <= y
  <2>1. y < x => <<y, x>> \in OpToRel(<, Nat)
    BY DEF OpToRel
  <2>2. ~(y < x)
    BY <1>1, <2>1
  <2> QED  BY <2>2
<1> QED  BY <1>2

\* Induction: a set with 0 and every successor holds all natural numbers.
LEMMA NatInduct ==
  ASSUME NEW S, 0 \in S, \A n \in Nat : n \in S => n + 1 \in S
  PROVE  Nat \subseteq S
<1> DEFINE T == Nat \ S
<1>1. SUFFICES ASSUME T # {} PROVE FALSE
  OBVIOUS
<1>2. PICK x \in T : \A y \in T : x <= y
  BY <1>1, LeastNumber
<1>3. x \in Nat /\ x # 0 /\ x - 1 \in Nat
  OBVIOUS
<1>4. x - 1 \in S
  BY <1>2, <1>3
<1>5. (x - 1) + 1 \in S
  BY <1>3, <1>4
<1> QED  BY <1>3, <1>5

\* A function defined from its value one place before exists.
LEMMA Iteration ==
  ASSUME NEW S, NEW start \in S, NEW N \in Nat, NEW step \in [1..N -> [S -> S]]
  PROVE  \E f \in [0..N -> S] :
           f[0] = start /\ \A i \in 1..N : f[i] = step[i][f[i - 1]]
<1> DEFINE Good(n, f) == /\ f \in [0..n -> S]
                         /\ f[0] = start
                         /\ \A i \in 1..n : f[i] = step[i][f[i - 1]]
           T == {n \in Nat : n <= N => \E f : Good(n, f)}
<1>1. 0 \in T
  <2>1. Good(0, [i \in 0..0 |-> start])
    OBVIOUS
  <2> QED  BY <2>1
<1>2. ASSUME NEW n \in Nat, n \in T PROVE n + 1 \in T
  <2> SUFFICES ASSUME n + 1 <= N PROVE \E f : Good(n + 1, f)
    OBVIOUS
  <2>1. PICK f : Good(n, f)
    BY <1>2
  <2> DEFINE m == n + 1
             g == [i \in 0..m |-> IF i = m THEN step[m][f[m - 1]] ELSE f[i]]
  <2>2. m \in 1..N /\ m - 1 \in 0..n
    OBVIOUS
  <2>3. f[m - 1] \in S /\ step[m] \in [S -> S]
    BY <2>1, <2>2
  <2>4. g \in [0..m -> S]
    <3> SUFFICES ASSUME NEW i \in 0..m PROVE g[i] \in S
      OBVIOUS
    <3>1. CASE i = m
      BY <2>3, <3>1
    <3>2. CASE i # m
      BY <2>1, <3>2
    <3> QED  BY <3>1, <3>2
  <2>5. g[0] = start
    BY <2>1
  <2>6. ASSUME NEW i \in 1..m PROVE g[i] = step[i][g[i - 1]]
    <3>1. i - 1 \in 0..m /\ i - 1 # m /\ g[i - 1] = f[i - 1]
      OBVIOUS
    <3>2. CASE i = m
      BY <3>1, <3>2
    <3>3. CASE i # m
      BY <2>1, <3>1, <3>3
    <3> QED  BY <3>2, <3>3
  <2> HIDE DEF g
  <2>7. Good(m, g)
    BY <2>4, <2>5, <2>6
  <2> QED  BY <2>7
<1>3. Nat \subseteq T
  <2> HIDE DEF T
  <2> QED  BY <1>1, <1>2, NatInduct
<1>4. PICK f : Good(N, f)
  BY <1>3
<1> QED  BY <1>4

-----------------------------------------------------------------------------
(* Selected *)

LEMMA TakenType ==
  ASSUME NEW V, NEW items \in Seq(V), NEW kept, NEW n \in 1..Len(items), NEW t \in Seq(V)
  PROVE  Taken(items, kept, n, t) \in Seq(V)
<1>1. items[n] \in V
  OBVIOUS
<1>2. Append(t, items[n]) \in Seq(V)
  BY <1>1
<1> QED  BY <1>2 DEF Taken

\* The recursion of Selected has a solution.
LEMMA TakenExists ==
  ASSUME NEW V, NEW items \in Seq(V), NEW kept
  PROVE  \E f : f = [n \in 0..Len(items) |->
                      IF n = 0 THEN << >> ELSE Taken(items, kept, n, f[n - 1])]
<1>1. PICK L \in Nat : L = Len(items)
  OBVIOUS
<1> DEFINE step == [n \in 1..L |-> [t \in Seq(V) |-> Taken(items, kept, n, t)]]
<1>2. step \in [1..L -> [Seq(V) -> Seq(V)]]
  BY <1>1, TakenType
<1>3. PICK f \in [0..L -> Seq(V)] :
        f[0] = << >> /\ \A n \in 1..L : f[n] = step[n][f[n - 1]]
  <2> DEFINE nothing == << >>
             S == Seq(V)
  <2>1. nothing \in S /\ step \in [1..L -> [S -> S]]
    BY <1>2
  <2> HIDE DEF step, nothing, S
  <2>2. \E f \in [0..L -> S] : f[0] = nothing /\ \A n \in 1..L : f[n] = step[n][f[n - 1]]
    BY <2>1, Iteration
  <2> QED  BY <2>2 DEF nothing, S
<1>4. ASSUME NEW n \in 0..L
      PROVE  f[n] = IF n = 0 THEN << >> ELSE Taken(items, kept, n, f[n - 1])
  <2>1. CASE n = 0
    BY <1>3, <2>1
  <2>2. CASE n # 0
    <3>1. n \in 1..L /\ n - 1 \in 0..L
      BY <2>2
    <3>2. f[n - 1] \in Seq(V)
      BY <3>1
    <3> QED  BY <1>3, <2>2, <3>1, <3>2
  <2> QED  BY <2>1, <2>2
<1>5. f = [n \in 0..L |-> IF n = 0 THEN << >> ELSE Taken(items, kept, n, f[n - 1])]
  BY <1>4
<1> QED  BY <1>1, <1>5

\* Selected is the last value of that recursion.
LEMMA SelectedTaken ==
  ASSUME NEW V, NEW items \in Seq(V), NEW kept
  PROVE  \E taken :
           /\ taken[0] = << >>
           /\ \A n \in 1..Len(items) : taken[n] = Taken(items, kept, n, taken[n - 1])
           /\ Selected(items, kept) = taken[Len(items)]
<1> DEFINE Solves(f) == f = [n \in 0..Len(items) |->
                               IF n = 0 THEN << >> ELSE Taken(items, kept, n, f[n - 1])]
           taken == CHOOSE f : Solves(f)
<1>1. Solves(taken)
  <2>1. \E f : Solves(f)
    BY TakenExists
  <2> HIDE DEF Solves
  <2> QED  BY <2>1
<1>2. Selected(items, kept) = taken[Len(items)]
  BY DEF Selected
<1> HIDE DEF taken
<1>3. ASSUME NEW n \in 0..Len(items)
      PROVE  taken[n] = IF n = 0 THEN << >> ELSE Taken(items, kept, n, taken[n - 1])
  BY <1>1
<1>4. Len(items) \in Nat
  OBVIOUS
<1>5. taken[0] = << >>
  BY <1>3, <1>4
<1>6. ASSUME NEW n \in 1..Len(items) PROVE taken[n] = Taken(items, kept, n, taken[n - 1])
  BY <1>3, <1>4
<1> QED  BY <1>2, <1>5, <1>6

\* chosen is what is selected of the first n items: place[k] is where its k-th
\* element stood.  The places grow, and none that was to be kept is missing.
Places(chosen, items, kept, n, place) ==
  /\ place \in [1..Len(chosen) -> kept \cap 1..n]
  /\ \A k \in 1..Len(chosen) : chosen[k] = items[place[k]]
  /\ \A j, k \in 1..Len(chosen) : j < k => place[j] < place[k]
  /\ \A i \in kept \cap 1..n : \E k \in 1..Len(chosen) : place[k] = i

\* Selected keeps what it is told to, once each and in order.
LEMMA SelectedPlaces ==
  ASSUME NEW V, NEW items \in Seq(V), NEW kept
  PROVE  /\ Selected(items, kept) \in Seq(V)
         /\ \E place : Places(Selected(items, kept), items, kept, Len(items), place)
<1>1. PICK taken :
        /\ taken[0] = << >>
        /\ \A n \in 1..Len(items) : taken[n] = Taken(items, kept, n, taken[n - 1])
        /\ Selected(items, kept) = taken[Len(items)]
  BY SelectedTaken
<1> DEFINE Good(n) == /\ taken[n] \in Seq(V)
                      /\ \E place : Places(taken[n], items, kept, n, place)
           T == {n \in Nat : n <= Len(items) => Good(n)}
<1>2. 0 \in T
  <2>1. Len(taken[0]) = 0 /\ taken[0] \in Seq(V)
    BY <1>1
  <2>2. Places(taken[0], items, kept, 0, [k \in {} |-> 0])
    BY <2>1 DEF Places
  <2> QED  BY <2>1, <2>2
<1>3. ASSUME NEW n \in Nat, n \in T PROVE n + 1 \in T
  <2> SUFFICES ASSUME n + 1 <= Len(items) PROVE Good(n + 1)
    OBVIOUS
  <2>1. taken[n] \in Seq(V) /\ n + 1 \in 1..Len(items) /\ (n + 1) - 1 = n
    BY <1>3
  <2>2. PICK place : Places(taken[n], items, kept, n, place)
    BY <1>3
  <2>3. taken[n + 1] = Taken(items, kept, n + 1, taken[n])
    BY <1>1, <2>1
  <2>4. PICK L \in Nat : L = Len(taken[n])
    BY <2>1
  <2>5. CASE n + 1 \in kept
    <3> DEFINE more == [k \in 1..L + 1 |-> IF k = L + 1 THEN n + 1 ELSE place[k]]
    <3>1. /\ taken[n + 1] \in Seq(V)
          /\ Len(taken[n + 1]) = L + 1
          /\ \A k \in 1..L : taken[n + 1][k] = taken[n][k]
          /\ taken[n + 1][L + 1] = items[n + 1]
      <4>1. taken[n + 1] = Append(taken[n], items[n + 1]) /\ items[n + 1] \in V
        BY <2>1, <2>3, <2>5 DEF Taken
      <4> QED  BY <2>1, <2>4, <4>1
    <3>2. \A k \in 1..L : place[k] \in kept \cap 1..n /\ taken[n][k] = items[place[k]]
      BY <2>2, <2>4 DEF Places
    <3>3. more \in [1..L + 1 -> kept \cap 1..n + 1]
      BY <2>5, <3>2
    <3>4. \A k \in 1..L + 1 : taken[n + 1][k] = items[more[k]]
      BY <3>1, <3>2
    <3>5. ASSUME NEW j \in 1..L + 1, NEW k \in 1..L + 1, j < k
          PROVE  more[j] < more[k]
      <4>1. j \in 1..L /\ more[j] = place[j] /\ place[j] \in 1..n
        BY <3>2, <3>5
      <4>2. CASE k = L + 1
        BY <4>1, <4>2
      <4>3. CASE k # L + 1
        <5>1. k \in 1..L /\ more[k] = place[k]
          BY <4>3
        <5> QED  BY <2>2, <2>4, <3>5, <4>1, <5>1 DEF Places
      <4> QED  BY <4>2, <4>3
    <3>6. \A i \in kept \cap 1..n + 1 : \E k \in 1..L + 1 : more[k] = i
      <4> SUFFICES ASSUME NEW i \in kept \cap 1..n + 1
                   PROVE  \E k \in 1..L + 1 : more[k] = i
        OBVIOUS
      <4>1. CASE i = n + 1
        <5>1. L + 1 \in 1..L + 1 /\ more[L + 1] = i
          BY <4>1
        <5> QED  BY <5>1
      <4>2. CASE i # n + 1
        <5>1. PICK k \in 1..L : place[k] = i
          BY <2>2, <2>4, <4>2 DEF Places
        <5> QED  BY <5>1
      <4> QED  BY <4>1, <4>2
    <3> HIDE DEF more
    <3>7. Places(taken[n + 1], items, kept, n + 1, more)
      BY <3>1, <3>3, <3>4, <3>5, <3>6 DEF Places
    <3> QED  BY <3>1, <3>7
  <2>6. CASE n + 1 \notin kept
    <3>1. taken[n + 1] = taken[n]
      BY <2>3, <2>6 DEF Taken
    <3>2. kept \cap 1..n + 1 = kept \cap 1..n
      BY <2>6
    <3>3. Places(taken[n + 1], items, kept, n + 1, place)
      BY <2>2, <3>1, <3>2 DEF Places
    <3> QED  BY <2>1, <3>1, <3>3
  <2> QED  BY <2>5, <2>6
<1>4. Nat \subseteq T
  <2> HIDE DEF T
  <2> QED  BY <1>2, <1>3, NatInduct
<1>5. Good(Len(items))
  BY <1>4
<1> QED  BY <1>1, <1>5

\* Every selected element is a kept one, and every kept one is selected.
LEMMA SelectedElements ==
  ASSUME NEW V, NEW items \in Seq(V), NEW kept
  PROVE  /\ \A k \in DOMAIN Selected(items, kept) :
              \E i \in kept \cap DOMAIN items : Selected(items, kept)[k] = items[i]
         /\ \A i \in kept \cap DOMAIN items :
              \E k \in DOMAIN Selected(items, kept) : Selected(items, kept)[k] = items[i]
<1> DEFINE chosen == Selected(items, kept)
<1>1. chosen \in Seq(V)
  BY SelectedPlaces
<1>2. PICK place : Places(chosen, items, kept, Len(items), place)
  BY SelectedPlaces
<1> HIDE DEF chosen
<1>3. DOMAIN chosen = 1..Len(chosen) /\ DOMAIN items = 1..Len(items)
  BY <1>1
<1>4. ASSUME NEW k \in DOMAIN chosen
      PROVE  \E i \in kept \cap DOMAIN items : chosen[k] = items[i]
  BY <1>2, <1>3 DEF Places
<1>5. ASSUME NEW i \in kept \cap DOMAIN items
      PROVE  \E k \in DOMAIN chosen : chosen[k] = items[i]
  BY <1>2, <1>3 DEF Places
<1> QED  BY <1>4, <1>5 DEF chosen
=============================================================================
