------------------------- MODULE PointerListsProofs -------------------------
(***************************************************************************)
(* Facts about linked lists: what a walk finds, and what becomes of a list *)
(* when a node is put in front, taken out, or moved to the front.          *)
(*                                                                         *)
(* A walk is a recursive function.  What it returns is shown by giving the *)
(* function, and the only one there is by the smallest counterexample.     *)
(***************************************************************************)
EXTENDS PointerLists, FiniteSetTheorems, WellFoundedInduction, TLAPS

\* A set of natural numbers has a smallest one.
LEMMA Smallest ==
  ASSUME NEW S, S \subseteq Nat, S # {}
  PROVE  \E n \in S : \A m \in S : n <= m
<1> DEFINE R == {ss \in Nat \X Nat : ss[1] < ss[2]}
<1>1. IsWellFoundedOn(R, Nat)
  BY NatLessThanWellFounded DEF OpToRel
<1>2. PICK n \in S : \A m \in S : <<m, n>> \notin R
  BY <1>1, WFMin
<1>3. ASSUME NEW m \in S PROVE n <= m
  <2>1. m \in Nat /\ n \in Nat OBVIOUS
  <2>2. ~ (m < n) BY <1>2, <2>1
  <2>3. QED BY <2>1, <2>2
<1>4. QED BY <1>3

\* How many numbers there are from a to b.
LEMMA IntervalCount ==
  ASSUME NEW a \in Int, NEW b \in Int, a <= b + 1
  PROVE  IsFiniteSet(a .. b) /\ Cardinality(a .. b) = b - a + 1
<1>1. Cardinality(a .. b) = IF a > b THEN 0 ELSE b - a + 1
  BY FS_Interval
<1>2. IsFiniteSet(a .. b) BY FS_Interval
<1>3. CASE a > b
  <2>1. b - a + 1 = 0 BY <1>3
  <2>2. QED BY <1>1, <1>2, <1>3, <2>1
<1>4. CASE ~(a > b) BY <1>1, <1>2, <1>4
<1>5. QED BY <1>3, <1>4

-----------------------------------------------------------------------------
(* Chains                                                                  *)

\* The node at place k of a list, null being past its end.
Place(s, k) == IF k <= Len(s) THEN s[k] ELSE 0

Distinct(s) == \A i, j \in 1 .. Len(s) : s[i] = s[j] => i = j

\* The pointers from n lead through s, whose nodes are different ones of S.
Chain(next, n, s, S) ==
    /\ s \in Seq(S)
    /\ Distinct(s)
    /\ n = Place(s, 1)
    /\ \A k \in 1 .. Len(s) : next[s[k]] = Place(s, k + 1)

Elements(s) == {s[k] : k \in 1 .. Len(s)}

\* The rest of s from place i on.
Rest(s, i) == [q \in 1 .. Len(s) - i + 1 |-> s[q + i - 1]]

\* Different nodes are no more than there are.
LEMMA ChainShort ==
  ASSUME NEW max \in Nat, NEW s \in Seq(1 .. max), Distinct(s)
  PROVE  Len(s) <= max
<1>1. /\ IsFiniteSet(1 .. max) /\ Cardinality(1 .. max) = max
      /\ IsFiniteSet(1 .. Len(s)) /\ Cardinality(1 .. Len(s)) = Len(s)
  <2>1. \A k \in Nat : IsFiniteSet(1 .. k) /\ Cardinality(1 .. k) = k - 1 + 1
    BY IntervalCount
  <2>2. QED BY <2>1
<1>2. s \in [1 .. Len(s) -> 1 .. max] OBVIOUS
<1>3. CASE max < Len(s)
  <2>1. \E x, y \in 1 .. Len(s) : x # y /\ s[x] = s[y]
    BY <1>1, <1>2, <1>3, FS_PigeonHole
  <2>2. QED BY <2>1 DEF Distinct
<1>4. QED BY <1>3

LEMMA ElementsCount ==
  ASSUME NEW S, NEW s \in Seq(S), Distinct(s)
  PROVE  IsFiniteSet(Elements(s)) /\ Cardinality(Elements(s)) = Len(s)
<1>1. IsFiniteSet(1 .. Len(s)) /\ Cardinality(1 .. Len(s)) = Len(s)
  <2>1. \A k \in Nat : IsFiniteSet(1 .. k) /\ Cardinality(1 .. k) = k - 1 + 1
    BY IntervalCount
  <2>2. QED BY <2>1
<1>2. s \in Injection(1 .. Len(s), Elements(s))
  BY DEF Injection, Elements, Distinct, IsInjective
<1>3. s \in Surjection(1 .. Len(s), Elements(s))
  BY DEF Surjection, Elements
<1>4. QED BY <1>1, <1>2, <1>3, FS_Surjection

\* A walk finds the chain it is on.
THEOREM LinkedIs ==
  ASSUME NEW next, NEW n, NEW max \in Nat, NEW s,
         Chain(next, n, s, 1 .. max)
  PROVE  Linked(next, n, max) = s
<1> DEFINE D == 0 .. max + 1
           Body(f) == [k \in D |-> IF k = 0 THEN n
                                   ELSE LET p == f[k - 1] IN
                                        IF p = 0 THEN 0 ELSE next[p]]
           step == CHOOSE f : f = Body(f)
           g == [k \in D |-> Place(s, k + 1)]
<1>1. s \in Seq(1 .. max) /\ Len(s) \in Nat /\ Len(s) <= max
  BY ChainShort DEF Chain
<1>2. g = Body(g)
  <2>1. ASSUME NEW k \in D, k # 0
        PROVE  Place(s, k + 1) = IF g[k - 1] = 0 THEN 0 ELSE next[g[k - 1]]
    <3>1. k - 1 \in D /\ g[k - 1] = Place(s, k) BY <2>1
    <3>2. CASE k <= Len(s)
      <4>1. k \in 1 .. Len(s) BY <1>1, <2>1, <3>2
      <4>2. s[k] \in 1 .. max BY <1>1, <4>1
      <4>3. QED BY <3>1, <3>2, <4>1, <4>2 DEF Chain, Place
    <3>3. CASE ~(k <= Len(s)) BY <1>1, <2>1, <3>1, <3>3 DEF Place
    <3>4. QED BY <3>2, <3>3
  <2>2. Place(s, 1) = n BY DEF Chain
  <2>3. \A k \in D : g[k] = Body(g)[k] BY <2>1, <2>2
  <2>4. QED BY <2>3
<1>3. ASSUME NEW f, f = Body(f) PROVE f = g
  <2>1. SUFFICES ASSUME NEW k \in D, f[k] # g[k] PROVE FALSE
    BY <1>3
  <2> DEFINE Wrong == {i \in D : f[i] # g[i]}
  <2>2. PICK i \in Wrong : \A j \in Wrong : i <= j
    <3>1. Wrong \subseteq Nat /\ Wrong # {} BY <2>1
    <3>2. QED BY <3>1, Smallest
  <2>3. f[i] = Body(f)[i] /\ g[i] = Body(g)[i] BY <1>2, <1>3
  <2>4. i # 0 BY <2>2, <2>3
  <2>5. i - 1 \in D /\ i - 1 \notin Wrong BY <2>2, <2>4
  <2>6. f[i - 1] = g[i - 1] BY <2>5
  <2>7. QED BY <2>2, <2>3, <2>6
<1>4. Linked(next, n, max) =
        [k \in 1 .. Cardinality({i \in 0 .. max : step[i] # 0}) |-> step[k - 1]]
  BY DEF Linked
<1>5. step = g
  <2> HIDE DEF Body, g
  <2>1. QED BY <1>2, <1>3
<1> HIDE DEF step
<1>6. \A k \in 0 .. max : step[k] = Place(s, k + 1) /\ k + 1 \in Nat
  BY <1>5
<1>7. {i \in 0 .. max : step[i] # 0} = 0 .. Len(s) - 1
  <2>1. \A k \in 1 .. Len(s) : s[k] # 0 BY <1>1
  <2>2. \A k \in 0 .. max : step[k] # 0 <=> k < Len(s)
    <3> TAKE k \in 0 .. max
    <3>1. step[k] = Place(s, k + 1) BY <1>6
    <3>2. CASE k < Len(s)
      <4>1. k + 1 \in 1 .. Len(s) BY <1>1, <3>2
      <4>2. QED BY <1>1, <2>1, <3>1, <3>2, <4>1 DEF Place
    <3>3. CASE ~(k < Len(s))
      <4>1. ~(k + 1 <= Len(s)) BY <1>1, <3>3
      <4>2. QED BY <3>1, <3>3, <4>1 DEF Place
    <3>4. QED BY <3>2, <3>3
  <2>3. QED BY <1>1, <2>2
<1>8. Cardinality(0 .. Len(s) - 1) = Len(s)
  <2>1. \A k \in Nat : Cardinality(0 .. k - 1) = k - 1 - 0 + 1
    <3> TAKE k \in Nat
    <3>1. 0 \in Int /\ k - 1 \in Int /\ 0 <= k - 1 + 1 OBVIOUS
    <3>2. QED BY <3>1, IntervalCount
  <2>2. QED BY <1>1, <2>1
<1>9. \A k \in 1 .. Len(s) : step[k - 1] = s[k]
  BY <1>1, <1>6 DEF Place
<1>10. [k \in 1 .. Len(s) |-> step[k - 1]] = s
  BY <1>1, <1>9
<1>11. QED BY <1>4, <1>7, <1>8, <1>10

LEMMA ChainRest ==
  ASSUME NEW next, NEW n, NEW S, NEW s, Chain(next, n, s, S),
         NEW i \in 1 .. Len(s) + 1
  PROVE  Chain(next, Place(s, i), Rest(s, i), S)
<1>1. s \in Seq(S) /\ Len(s) \in Nat BY DEF Chain
<1>2. /\ Rest(s, i) \in Seq(S)
      /\ Len(Rest(s, i)) = Len(s) - i + 1
      /\ \A q \in 1 .. Len(s) - i + 1 : Rest(s, i)[q] = s[q + i - 1]
  BY <1>1 DEF Rest
<1>3. \A q \in 1 .. Len(s) - i + 2 : Place(Rest(s, i), q) = Place(s, q + i - 1)
  BY <1>1, <1>2 DEF Place
<1>4. Distinct(Rest(s, i))
  BY <1>1, <1>2 DEF Chain, Distinct
<1>5. ASSUME NEW q \in 1 .. Len(Rest(s, i))
      PROVE  next[Rest(s, i)[q]] = Place(Rest(s, i), q + 1)
  <2>1. q + i - 1 \in 1 .. Len(s) BY <1>1, <1>2
  <2>2. next[s[q + i - 1]] = Place(s, q + i) BY <2>1 DEF Chain
  <2>3. q + 1 \in 1 .. Len(s) - i + 2 BY <1>1, <1>2
  <2>4. Place(Rest(s, i), q + 1) = Place(s, q + i) BY <1>1, <1>3, <2>3
  <2>5. QED BY <1>2, <2>2, <2>4
<1>6. Place(s, i) = Place(Rest(s, i), 1) BY <1>1, <1>3
<1>7. QED BY <1>2, <1>4, <1>5, <1>6 DEF Chain

\* Pointers of other nodes do not matter.
LEMMA ChainKept ==
  ASSUME NEW next, NEW other, NEW n, NEW S, NEW s, Chain(next, n, s, S),
         \A k \in 1 .. Len(s) : other[s[k]] = next[s[k]]
  PROVE  Chain(other, n, s, S)
BY DEF Chain
-----------------------------------------------------------------------------
(* What the code does to lists                                             *)

\* A node in front of a list.
Prepended(m, s) == [q \in 1 .. Len(s) + 1 |-> IF q = 1 THEN m ELSE s[q - 1]]

\* A list without the node at place k.
Unlinked(s, k) == [q \in 1 .. Len(s) - 1 |-> IF q < k THEN s[q] ELSE s[q + 1]]

\* A list whose node at place k is moved to the front.
Moved(s, k) ==
    [q \in 1 .. Len(s) |->
       IF q = 1 THEN s[k] ELSE IF q <= k THEN s[q - 1] ELSE s[q]]

LEMMA ChainPrepended ==
  ASSUME NEW S, NEW T, NEW next \in [S -> T], NEW n, NEW s,
         Chain(next, n, s, S), NEW m \in S, m \notin Elements(s)
  PROVE  Chain([next EXCEPT ![m] = n], m, Prepended(m, s), S)
<1> DEFINE p == Prepended(m, s)
           after == [next EXCEPT ![m] = n]
<1>1. s \in Seq(S) /\ Len(s) \in Nat /\ Distinct(s) /\ n = Place(s, 1)
  BY DEF Chain
<1>2. /\ p \in Seq(S) /\ Len(p) = Len(s) + 1 /\ p[1] = m
      /\ \A q \in 2 .. Len(s) + 1 : p[q] = s[q - 1] /\ q - 1 \in 1 .. Len(s)
  BY <1>1 DEF Prepended
<1>3. \A q \in 1 .. Len(s) : s[q] # m /\ s[q] \in S
  BY <1>1 DEF Elements
<1> HIDE DEF p
<1>4. Distinct(p)
  <2> SUFFICES ASSUME NEW i \in 1 .. Len(p), NEW j \in 1 .. Len(p),
                      p[i] = p[j]
               PROVE  i = j
    BY DEF Distinct
  <2>1. CASE i = 1 \/ j = 1 BY <1>1, <1>2, <1>3, <2>1
  <2>2. CASE i # 1 /\ j # 1
    <3>1. s[i - 1] = s[j - 1] /\ {i - 1, j - 1} \subseteq 1 .. Len(s)
      BY <1>1, <1>2, <2>2
    <3>2. i - 1 = j - 1 BY <1>1, <3>1 DEF Distinct
    <3>3. QED BY <1>2, <3>2
  <2>3. QED BY <2>1, <2>2
<1>5. ASSUME NEW k \in 1 .. Len(p)
      PROVE  after[p[k]] = Place(p, k + 1)
  <2>1. CASE k = 1
    <3>1. after[p[k]] = n BY <1>2, <2>1
    <3>2. Place(p, 2) = Place(s, 1)
      BY <1>1, <1>2 DEF Place
    <3>3. QED BY <1>1, <2>1, <3>1, <3>2
  <2>2. CASE k # 1
    <3>1. k - 1 \in 1 .. Len(s) /\ p[k] = s[k - 1] BY <1>1, <1>2, <2>2
    <3>2. after[p[k]] = next[s[k - 1]] BY <1>3, <3>1
    <3>3. next[s[k - 1]] = Place(s, k - 1 + 1) BY <3>1 DEF Chain
    <3>4. Place(p, k + 1) = Place(s, k) BY <1>1, <1>2, <3>1 DEF Place
    <3>5. QED BY <3>2, <3>3, <3>4, <3>1
  <2>3. QED BY <2>1, <2>2
<1>6. m = Place(p, 1) BY <1>1, <1>2 DEF Place
<1>7. QED BY <1>2, <1>4, <1>5, <1>6 DEF Chain, p

\* The first node is taken out.
LEMMA ChainBehead ==
  ASSUME NEW S, NEW next, NEW n, NEW s, Chain(next, n, s, S), Len(s) > 0
  PROVE  Chain(next, next[s[1]], Unlinked(s, 1), S)
<1>1. s \in Seq(S) /\ Len(s) \in Nat /\ 2 \in 1 .. Len(s) + 1 BY DEF Chain
<1>2. Chain(next, Place(s, 2), Rest(s, 2), S) BY <1>1, ChainRest
<1>3. Rest(s, 2) = Unlinked(s, 1) BY <1>1 DEF Rest, Unlinked
<1>4. next[s[1]] = Place(s, 2) BY <1>1 DEF Chain
<1>5. QED BY <1>2, <1>3, <1>4

LEMMA UnlinkedSeq ==
  ASSUME NEW S, NEW s \in Seq(S), Distinct(s), NEW k \in 1 .. Len(s)
  PROVE  /\ Unlinked(s, k) \in Seq(S)
         /\ Len(Unlinked(s, k)) = Len(s) - 1
         /\ Distinct(Unlinked(s, k))
         /\ Elements(Unlinked(s, k)) = Elements(s) \ {s[k]}
         /\ \A q \in 1 .. Len(s) - 1 :
              Unlinked(s, k)[q] = IF q < k THEN s[q] ELSE s[q + 1]
<1> DEFINE w == Unlinked(s, k)
<1>1. Len(s) \in Nat OBVIOUS
<1>2. /\ w \in Seq(S) /\ Len(w) = Len(s) - 1
      /\ \A q \in 1 .. Len(s) - 1 : w[q] = IF q < k THEN s[q] ELSE s[q + 1]
  BY DEF Unlinked
<1> HIDE DEF w
<1>3. Distinct(w)
  <2> SUFFICES ASSUME NEW i \in 1 .. Len(w), NEW j \in 1 .. Len(w),
                      w[i] = w[j]
               PROVE  i = j
    BY DEF Distinct
  <2>1. /\ i \in 1 .. Len(s) /\ i + 1 \in 1 .. Len(s)
        /\ j \in 1 .. Len(s) /\ j + 1 \in 1 .. Len(s)
    BY <1>1, <1>2
  <2>2. \A a, b \in 1 .. Len(s) : s[a] = s[b] => a = b BY DEF Distinct
  <2>3. CASE i < k /\ j < k BY <1>2, <2>1, <2>2, <2>3
  <2>4. CASE i < k /\ ~(j < k)
    <3>1. s[i] = s[j + 1] BY <1>2, <2>1, <2>4
    <3>2. QED BY <2>1, <2>2, <2>4, <3>1
  <2>5. CASE ~(i < k) /\ j < k
    <3>1. s[i + 1] = s[j] BY <1>2, <2>1, <2>5
    <3>2. QED BY <2>1, <2>2, <2>5, <3>1
  <2>6. CASE ~(i < k) /\ ~(j < k)
    <3>1. s[i + 1] = s[j + 1] BY <1>2, <2>1, <2>6
    <3>2. i + 1 = j + 1 BY <2>1, <2>2, <3>1
    <3>3. QED BY <2>1, <3>2
  <2>7. QED BY <2>3, <2>4, <2>5, <2>6
<1>4. Elements(w) = Elements(s) \ {s[k]}
  <2>1. ASSUME NEW q \in 1 .. Len(w)
        PROVE  w[q] \in Elements(s) \ {s[k]}
    <3>1. q \in 1 .. Len(s) /\ q + 1 \in 1 .. Len(s) BY <1>1, <1>2
    <3>2. CASE q < k
      <4>1. w[q] = s[q] /\ q # k BY <1>2, <3>2
      <4>2. QED BY <3>1, <4>1 DEF Distinct, Elements
    <3>3. CASE ~(q < k)
      <4>1. w[q] = s[q + 1] /\ q + 1 # k BY <1>2, <3>1, <3>3
      <4>2. QED BY <3>1, <4>1 DEF Distinct, Elements
    <3>4. QED BY <3>2, <3>3
  <2>2. ASSUME NEW q \in 1 .. Len(s), q # k
        PROVE  \E i \in 1 .. Len(w) : w[i] = s[q]
    <3>1. CASE q < k
      <4>1. q \in 1 .. Len(w) BY <1>1, <1>2, <3>1
      <4>2. QED BY <1>2, <3>1, <4>1
    <3>2. CASE ~(q < k)
      <4>1. q - 1 \in 1 .. Len(w) /\ ~(q - 1 < k) /\ q - 1 + 1 = q
        BY <1>1, <1>2, <2>2, <3>2
      <4>2. QED BY <1>2, <4>1
    <3>3. QED BY <3>1, <3>2
  <2>3. QED BY <2>1, <2>2 DEF Elements
<1>5. QED BY <1>2, <1>3, <1>4 DEF w

\* A node that is not the first one is taken out.
LEMMA ChainUnlinked ==
  ASSUME NEW S, NEW T, NEW next \in [S -> T], NEW n, NEW s,
         Chain(next, n, s, S), NEW k \in 2 .. Len(s)
  PROVE  Chain([next EXCEPT ![s[k - 1]] = next[s[k]]], n, Unlinked(s, k), S)
<1> DEFINE w == Unlinked(s, k)
           after == [next EXCEPT ![s[k - 1]] = next[s[k]]]
<1>1. /\ s \in Seq(S) /\ Len(s) \in Nat /\ Distinct(s) /\ n = Place(s, 1)
      /\ k \in 1 .. Len(s) /\ k - 1 \in 1 .. Len(s)
  BY DEF Chain
<1>2. /\ w \in Seq(S) /\ Len(w) = Len(s) - 1 /\ Distinct(w)
      /\ \A q \in 1 .. Len(s) - 1 : w[q] = IF q < k THEN s[q] ELSE s[q + 1]
  BY <1>1, UnlinkedSeq
<1>3. \A q \in 1 .. Len(s) :
        after[s[q]] = IF q = k - 1 THEN Place(s, k + 1) ELSE Place(s, q + 1)
  <2> TAKE q \in 1 .. Len(s)
  <2>1. s[q] \in S BY <1>1
  <2>2. next[s[k]] = Place(s, k + 1) /\ next[s[q]] = Place(s, q + 1)
    BY <1>1 DEF Chain
  <2>3. s[q] = s[k - 1] <=> q = k - 1 BY <1>1 DEF Distinct
  <2>4. QED BY <2>1, <2>2, <2>3
<1> HIDE DEF w, after
<1>4. \A q \in 1 .. Len(s) :
        Place(w, q) = IF q < k THEN s[q] ELSE Place(s, q + 1)
  BY <1>1, <1>2 DEF Place
<1>5. ASSUME NEW q \in 1 .. Len(w) PROVE after[w[q]] = Place(w, q + 1)
  <2>1. q \in 1 .. Len(s) /\ q + 1 \in 1 .. Len(s) BY <1>1, <1>2
  <2>2. Place(w, q + 1) = IF q + 1 < k THEN s[q + 1] ELSE Place(s, q + 2)
    BY <1>4, <2>1
  <2>3. CASE q < k - 1
    <3>1. w[q] = s[q] /\ q < k /\ q # k - 1 /\ q + 1 < k
      BY <1>1, <1>2, <2>1, <2>3
    <3>2. after[w[q]] = Place(s, q + 1) BY <1>3, <2>1, <3>1
    <3>3. QED BY <2>1, <2>2, <3>1, <3>2 DEF Place
  <2>4. CASE q = k - 1
    <3>1. w[q] = s[q] /\ q + 2 = k + 1 /\ ~(q + 1 < k)
      BY <1>1, <1>2, <2>1, <2>4
    <3>2. QED BY <1>3, <2>1, <2>2, <2>4, <3>1
  <2>5. CASE q > k - 1
    <3>1. w[q] = s[q + 1] /\ q + 1 # k - 1 /\ ~(q + 1 < k)
      BY <1>1, <1>2, <2>1, <2>5
    <3>2. after[s[q + 1]] = Place(s, q + 1 + 1) BY <1>3, <2>1, <3>1
    <3>3. QED BY <2>1, <2>2, <3>1, <3>2
  <2>6. QED BY <1>1, <2>1, <2>3, <2>4, <2>5
<1>6. n = Place(w, 1)
  BY <1>1, <1>4 DEF Place
<1>7. QED BY <1>2, <1>5, <1>6 DEF Chain, w, after

LEMMA MovedSeq ==
  ASSUME NEW S, NEW s \in Seq(S), Distinct(s), NEW k \in 1 .. Len(s)
  PROVE  /\ Moved(s, k) \in Seq(S)
         /\ Len(Moved(s, k)) = Len(s)
         /\ Distinct(Moved(s, k))
         /\ Elements(Moved(s, k)) = Elements(s)
         /\ \A q \in 1 .. Len(s) :
              Moved(s, k)[q] = IF q = 1 THEN s[k]
                               ELSE IF q <= k THEN s[q - 1] ELSE s[q]
<1> DEFINE w == Moved(s, k)
           Source(q) == IF q = 1 THEN k ELSE IF q <= k THEN q - 1 ELSE q
<1>1. Len(s) \in Nat OBVIOUS
<1>2. /\ w \in Seq(S) /\ Len(w) = Len(s)
      /\ \A q \in 1 .. Len(s) :
           w[q] = IF q = 1 THEN s[k] ELSE IF q <= k THEN s[q - 1] ELSE s[q]
  BY DEF Moved
<1> HIDE DEF w
<1>3. \A q \in 1 .. Len(s) : Source(q) \in 1 .. Len(s) /\ w[q] = s[Source(q)]
  BY <1>1, <1>2
<1>4. \A i, j \in 1 .. Len(s) : Source(i) = Source(j) => i = j BY <1>1
<1>5. \A i \in 1 .. Len(s) : \E q \in 1 .. Len(s) : Source(q) = i
  <2> TAKE i \in 1 .. Len(s)
  <2>1. CASE i = k BY <1>1, <2>1
  <2>2. CASE i < k
    <3>1. i + 1 \in 1 .. Len(s) /\ Source(i + 1) = i BY <1>1, <2>2
    <3>2. QED BY <3>1
  <2>3. CASE i > k
    <3>1. Source(i) = i BY <1>1, <2>3
    <3>2. QED BY <3>1
  <2>4. QED BY <1>1, <2>1, <2>2, <2>3
<1> HIDE DEF Source
<1>6. Distinct(w) BY <1>2, <1>3, <1>4 DEF Distinct
<1>7. Elements(w) = Elements(s)
  <2>1. \A q \in 1 .. Len(w) : w[q] \in Elements(s) BY <1>2, <1>3 DEF Elements
  <2>2. \A i \in 1 .. Len(s) : s[i] \in Elements(w)
    <3> TAKE i \in 1 .. Len(s)
    <3>1. PICK q \in 1 .. Len(s) : Source(q) = i BY <1>5
    <3>2. w[q] = s[i] BY <1>3, <3>1
    <3>3. QED BY <1>2, <3>2 DEF Elements
  <2>3. QED BY <2>1, <2>2 DEF Elements
<1>8. QED BY <1>2, <1>6, <1>7 DEF w

\* A node that is not the first one is moved to the front.
LEMMA ChainMoved ==
  ASSUME NEW S, NEW T, NEW next \in [S -> T], NEW n, NEW s,
         Chain(next, n, s, S), NEW k \in 2 .. Len(s)
  PROVE  Chain([next EXCEPT ![s[k - 1]] = next[s[k]], ![s[k]] = n], s[k],
               Moved(s, k), S)
<1> DEFINE w == Moved(s, k)
           after == [next EXCEPT ![s[k - 1]] = next[s[k]], ![s[k]] = n]
<1>1. /\ s \in Seq(S) /\ Len(s) \in Nat /\ Distinct(s) /\ n = Place(s, 1)
      /\ k \in 1 .. Len(s) /\ k - 1 \in 1 .. Len(s) /\ 1 \in 1 .. Len(s)
  BY DEF Chain
<1>2. /\ w \in Seq(S) /\ Len(w) = Len(s) /\ Distinct(w)
      /\ \A q \in 1 .. Len(s) :
           w[q] = IF q = 1 THEN s[k] ELSE IF q <= k THEN s[q - 1] ELSE s[q]
  BY <1>1, MovedSeq
<1>3. n = s[1] BY <1>1 DEF Place
<1>4. \A q \in 1 .. Len(s) :
        after[s[q]] = IF q = k THEN s[1]
                      ELSE IF q = k - 1 THEN Place(s, k + 1)
                      ELSE Place(s, q + 1)
  <2> TAKE q \in 1 .. Len(s)
  <2>1. s[q] \in S BY <1>1
  <2>2. next[s[k]] = Place(s, k + 1) /\ next[s[q]] = Place(s, q + 1)
    BY <1>1 DEF Chain
  <2>3. s[q] = s[k - 1] <=> q = k - 1 BY <1>1 DEF Distinct
  <2>4. s[q] = s[k] <=> q = k BY <1>1 DEF Distinct
  <2>5. QED BY <1>3, <2>1, <2>2, <2>3, <2>4
<1> HIDE DEF w, after
<1>5. ASSUME NEW q \in 1 .. Len(w) PROVE after[w[q]] = Place(w, q + 1)
  <2>1. q \in 1 .. Len(s) BY <1>2
  <2>2. q < Len(s) => q + 1 \in 1 .. Len(s) BY <1>1, <2>1
  <2>3. CASE q = 1
    <3>1. w[q] = s[k] /\ after[w[q]] = s[1] BY <1>1, <1>2, <1>4, <2>1, <2>3
    <3>2. q + 1 \in 1 .. Len(s) /\ q + 1 # 1 /\ q + 1 <= k BY <1>1, <2>3
    <3>3. w[q + 1] = s[q + 1 - 1] BY <1>2, <3>2
    <3>4. QED BY <1>1, <1>2, <2>3, <3>1, <3>2, <3>3 DEF Place
  <2>4. CASE q # 1 /\ q < k
    <3>1. /\ q - 1 \in 1 .. Len(s) /\ q - 1 # k /\ q - 1 # k - 1
          /\ w[q] = s[q - 1]
      BY <1>1, <1>2, <2>1, <2>4
    <3>2. after[w[q]] = Place(s, q - 1 + 1) BY <1>4, <3>1
    <3>3. q + 1 \in 1 .. Len(s) /\ q + 1 # 1 /\ q + 1 <= k
      BY <1>1, <2>1, <2>4
    <3>4. w[q + 1] = s[q + 1 - 1] BY <1>2, <3>3
    <3>5. QED BY <1>1, <1>2, <2>1, <3>2, <3>3, <3>4 DEF Place
  <2>5. CASE q = k
    <3>1. q # 1 /\ w[q] = s[k - 1] /\ k - 1 # k
      BY <1>1, <1>2, <2>1, <2>5
    <3>2. after[w[q]] = Place(s, k + 1) BY <1>1, <1>4, <3>1
    <3>3. QED BY <1>1, <1>2, <2>2, <2>5, <3>2 DEF Place
  <2>6. CASE q > k
    <3>1. w[q] = s[q] /\ q # k /\ q # k - 1 BY <1>1, <1>2, <2>1, <2>6
    <3>2. after[w[q]] = Place(s, q + 1) BY <1>4, <2>1, <3>1
    <3>3. QED BY <1>1, <1>2, <2>1, <2>2, <2>6, <3>2 DEF Place
  <2>7. QED BY <1>1, <2>1, <2>3, <2>4, <2>5, <2>6
<1>6. s[k] = Place(w, 1) BY <1>1, <1>2 DEF Place
<1>7. QED BY <1>2, <1>5, <1>6 DEF Chain, w, after
=============================================================================
