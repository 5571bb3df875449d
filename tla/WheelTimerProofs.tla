--------------------------- MODULE WheelTimerProofs ---------------------------
(***************************************************************************)
(* Proofs about WheelTimer, for wheels of any number of layers and slots.  *)
(***************************************************************************)
EXTENDS WheelTimer, Integers, WellFoundedInduction, TLAPS

(***************************************************************************)
(* Arithmetic.                                                             *)
(***************************************************************************)
LEMMA Product ==
  ASSUME NEW a \in Nat, NEW b \in Nat
  PROVE  a * b \in Nat /\ 0 * b = 0 /\ 1 * b = b /\ (a + 1) * b = a * b + b
OBVIOUS

\* Products are monotonic.
LEMMA ProductGrows ==
  ASSUME NEW a \in Nat, NEW b \in Nat, NEW x \in Nat, a <= b
  PROVE  a * x <= b * x
OBVIOUS

\* Division by a turn.
LEMMA Divide ==
  ASSUME NEW d \in Nat, NEW x \in Nat \ {0}
  PROVE  /\ d \div x \in Nat /\ d % x \in Nat /\ d % x < x
         /\ ((d \div x) * x) + (d % x) = d
OBVIOUS

\* The index of a slot: j is q slots ahead of i, in a circle of n slots.
LEMMA Circle ==
  ASSUME NEW n \in Nat \ {0}, NEW q \in 0..n - 1, NEW i \in 0..n - 1
  PROVE  /\ (q + i) % n \in 0..n - 1
         /\ (q + i) % n = IF q + i < n THEN q + i ELSE q + i - n
OBVIOUS

\* A set of natural numbers that is not empty has a least element.
LEMMA Least ==
  ASSUME NEW S, S \subseteq Nat, S # {}
  PROVE  \E s \in S : \A t \in S : s <= t
<1> DEFINE R == OpToRel(<, Nat)
<1>1. IsWellFoundedOn(R, Nat)
  BY NatLessThanWellFounded
<1>2. PICK x \in S : \A y \in S : ~(<<y, x>> \in R)
  <2> HIDE DEF R
  <2> QED
    BY <1>1, WFMin
<1>3. \A y \in S : ~(y < x)
  <2> TAKE y \in S
  <2>1. ASSUME y < x PROVE <<y, x>> \in R
    BY <2>1 DEF OpToRel
  <2> QED
    BY <1>2, <2>1
<1> QED
  BY <1>3

\* Induction over 0..n, for the numbers of a set.
LEMMA Upwards ==
  ASSUME NEW n \in Nat, NEW S, 0 \in S,
         \A k \in 0..n - 1 : k \in S => k + 1 \in S
  PROVE  0..n \subseteq S
<1> DEFINE Bad == {k \in 0..n : k \notin S}
<1> SUFFICES ASSUME Bad # {}
             PROVE  FALSE
  OBVIOUS
<1>1. PICK k \in Bad : \A j \in Bad : k <= j
  <2>1. Bad \subseteq Nat
    OBVIOUS
  <2> HIDE DEF Bad
  <2> QED
    BY <2>1, Least
<1>2. k # 0 /\ k \in 0..n
  OBVIOUS
<1>3. k - 1 \in 0..n - 1 /\ k - 1 \notin Bad
  BY <1>1, <1>2
<1>4. k - 1 \in S
  BY <1>3
<1> QED
  BY <1>2, <1>3, <1>4

\* A function that is defined by recursion over 0..n exists.
Unfolds(n, b, h, f) ==
  /\ f \in [0..n -> Nat]
  /\ \A l \in 0..n : f[l] = IF l = 0 THEN b ELSE h[<<l, f[l - 1]>>]

\* A recursive definition over 0..n has a function that unfolds it.
LEMMA Recursion ==
  ASSUME NEW n \in Nat, NEW b \in Nat, NEW h \in [(1..n) \X Nat -> Nat]
  PROVE  \E f : Unfolds(n, b, h, f)
<1> DEFINE Def(k, f) == \A l \in 0..k : f[l] = IF l = 0 THEN b ELSE h[<<l, f[l - 1]>>]
           S == {k \in 0..n : \E f \in [0..k -> Nat] : Def(k, f)}
<1>1. 0 \in S
  <2> DEFINE f == [l \in 0..0 |-> b]
  <2>1. Def(0, f) /\ f \in [0..0 -> Nat]
    OBVIOUS
  <2>2. 0 \in 0..n
    OBVIOUS
  <2> HIDE DEF Def, f
  <2> QED
    BY <2>1, <2>2
<1>2. ASSUME NEW k \in 0..n - 1, k \in S
      PROVE  k + 1 \in S
  <2>1. PICK f \in [0..k -> Nat] : Def(k, f)
    BY <1>2
  <2> DEFINE g == [l \in 0..k + 1 |-> IF l = k + 1 THEN h[<<l, f[k]>>] ELSE f[l]]
  <2>2. g \in [0..k + 1 -> Nat]
    <3>1. f[k] \in Nat /\ k + 1 \in 1..n
      OBVIOUS
    <3>2. h[<<k + 1, f[k]>>] \in Nat
      BY <3>1
    <3> QED
      BY <3>2
  <2>3. ASSUME NEW l \in 0..k + 1
        PROVE  g[l] = IF l = 0 THEN b ELSE h[<<l, g[l - 1]>>]
    <3>1. CASE l = k + 1
      BY <3>1
    <3>2. CASE l # k + 1
      <4>1. l \in 0..k /\ g[l] = f[l]
        BY <3>2
      <4>2. l # 0 => l - 1 \in 0..k /\ g[l - 1] = f[l - 1]
        BY <4>1
      <4>3. f[l] = IF l = 0 THEN b ELSE h[<<l, f[l - 1]>>]
        BY <2>1, <4>1
      <4> HIDE DEF g
      <4> QED
        BY <4>1, <4>2, <4>3
    <3> QED
      BY <3>1, <3>2
  <2>4. Def(k + 1, g)
    BY <2>3
  <2>5. k + 1 \in 0..n
    OBVIOUS
  <2> HIDE DEF Def, g
  <2> QED
    BY <2>2, <2>4, <2>5
<1>3. 0..n \subseteq S
  <2> HIDE DEF S
  <2> QED
    BY <1>1, <1>2, Upwards
<1>4. n \in S
  <2> HIDE DEF S
  <2> QED
    BY <1>3
<1> QED
  BY <1>4 DEF Unfolds

(***************************************************************************)
(* The turns, and what the lower layers have gone.                         *)
(***************************************************************************)
LEMMA TurnIs ==
  /\ Turn[0] = 1
  /\ \A l \in Layers : Turn[l + 1] = SlotCount * Turn[l]
  /\ \A l \in 0..CircleCount : Turn[l] \in Nat \ {0}
<1> DEFINE n == CircleCount
           h == [x \in (1..n) \X Nat |-> SlotCount * x[2]]
<1>1. n \in Nat /\ SlotCount \in Nat /\ SlotCount > 1
  BY WheelAssumption
<1>2. h \in [(1..n) \X Nat -> Nat]
  BY <1>1
<1>3. PICK f : Unfolds(n, 1, h, f)
  <2> HIDE DEF h, n
  <2> QED
    BY <1>1, <1>2, Recursion
<1>4. ASSUME NEW l \in 0..n
      PROVE  f[l] = IF l = 0 THEN 1 ELSE SlotCount * f[l - 1]
  <2>1. l # 0 => l \in 1..n /\ f[l - 1] \in Nat
    BY <1>1, <1>3 DEF Unfolds
  <2> QED
    BY <1>3, <2>1 DEF Unfolds
<1>5. f = [l \in 0..n |-> IF l = 0 THEN 1 ELSE SlotCount * f[l - 1]]
  <2> HIDE DEF n
  <2> QED
    BY <1>3, <1>4 DEF Unfolds
<1>6. Turn = [l \in 0..n |-> IF l = 0 THEN 1 ELSE SlotCount * Turn[l - 1]]
  BY <1>5 DEF Turn
<1>7. Turn[0] = 1 /\ \A l \in 0..n - 1 : Turn[l + 1] = SlotCount * Turn[l]
  BY <1>1, <1>6
<1> DEFINE S == {l \in 0..n : Turn[l] \in Nat \ {0}}
<1>8. 0..n \subseteq S
  <2>1. 0 \in S
    BY <1>1, <1>7
  <2>2. ASSUME NEW k \in 0..n - 1, k \in S
        PROVE  k + 1 \in S
    <3>1. Turn[k] \in Nat \ {0} /\ Turn[k + 1] = SlotCount * Turn[k]
      BY <1>7, <2>2
    <3>2. Turn[k + 1] \in Nat \ {0}
      BY <1>1, <3>1
    <3> QED
      BY <1>1, <3>2
  <2> HIDE DEF S, n
  <2> QED
    BY <1>1, <2>1, <2>2, Upwards
<1> QED
  BY <1>7, <1>8 DEF Layers

\* The turn of a higher layer is not shorter.
LEMMA TurnGrows ==
  ASSUME NEW k \in 0..CircleCount, NEW l \in 0..CircleCount, k <= l
  PROVE  Turn[k] <= Turn[l]
<1> DEFINE n == CircleCount
           S == {j \in 0..n : k <= j => Turn[k] <= Turn[j]}
<1>1. n \in Nat /\ SlotCount \in Nat /\ SlotCount > 1
  BY WheelAssumption
<1>2. /\ \A j \in 0..n : Turn[j] \in Nat
      /\ \A j \in 0..n - 1 : Turn[j + 1] = SlotCount * Turn[j]
  BY TurnIs DEF Layers
<1>3. 0 \in S
  BY <1>1, <1>2
<1>4. ASSUME NEW j \in 0..n - 1, j \in S
      PROVE  j + 1 \in S
  <2>1. Turn[j] \in Nat /\ Turn[j + 1] \in Nat /\ Turn[j] <= Turn[j + 1]
    BY <1>1, <1>2
  <2>2. Turn[k] \in Nat /\ j + 1 \in 0..n
    BY <1>1, <1>2
  <2>3. CASE k <= j
    BY <1>4, <2>1, <2>2, <2>3
  <2>4. CASE ~(k <= j)
    <3>1. k <= j + 1 => k = j + 1
      BY <2>4
    <3> QED
      BY <2>1, <2>2, <3>1
  <2> QED
    BY <2>3, <2>4
<1>5. 0..n \subseteq S
  <2> HIDE DEF S, n
  <2> QED
    BY <1>1, <1>3, <1>4, Upwards
<1>6. l \in S
  BY <1>5
<1> QED
  BY <1>6

Indices == [Layers -> 0..SlotCount - 1]

\* Gone, as a recursion: it is less than the turn of the layers below.
LEMMA GoneIs ==
  ASSUME NEW ix \in Indices
  PROVE  /\ Gone(ix, 0) = 0
         /\ \A l \in Layers : Gone(ix, l + 1) = ix[l] * Turn[l] + Gone(ix, l)
         /\ \A l \in 0..CircleCount : Gone(ix, l) \in Nat /\ Gone(ix, l) < Turn[l]
<1> DEFINE n == CircleCount
           h == [x \in (1..n) \X Nat |-> ix[x[1] - 1] * Turn[x[1] - 1] + x[2]]
<1>1. n \in Nat /\ SlotCount \in Nat /\ SlotCount > 1
  BY WheelAssumption
<1>2. \A l \in 1..n : /\ ix[l - 1] \in Nat /\ ix[l - 1] + 1 <= SlotCount
                      /\ Turn[l - 1] \in Nat /\ ix[l - 1] * Turn[l - 1] \in Nat
  <2> SUFFICES ASSUME NEW l \in 1..n
               PROVE  /\ ix[l - 1] \in Nat /\ ix[l - 1] + 1 <= SlotCount
                      /\ Turn[l - 1] \in Nat /\ ix[l - 1] * Turn[l - 1] \in Nat
    OBVIOUS
  <2>1. l - 1 \in Layers /\ l - 1 \in 0..n
    BY <1>1 DEF Layers
  <2>2. ix[l - 1] \in 0..SlotCount - 1
    BY <2>1 DEF Indices
  <2>3. ix[l - 1] \in Nat /\ ix[l - 1] + 1 <= SlotCount
    BY <1>1, <2>2
  <2>4. Turn[l - 1] \in Nat
    BY <2>1, TurnIs
  <2> QED
    BY <2>3, <2>4
<1>3. h \in [(1..n) \X Nat -> Nat]
  <2>1. ASSUME NEW x \in (1..n) \X Nat
        PROVE  ix[x[1] - 1] * Turn[x[1] - 1] + x[2] \in Nat
    BY <1>2
  <2> QED
    BY <2>1
<1>4. PICK f : Unfolds(n, 0, h, f)
  <2> HIDE DEF h, n
  <2> QED
    BY <1>1, <1>3, Recursion
<1>5. ASSUME NEW l \in 0..n
      PROVE  f[l] = IF l = 0 THEN 0 ELSE ix[l - 1] * Turn[l - 1] + f[l - 1]
  <2>1. l # 0 => l \in 1..n /\ f[l - 1] \in Nat
    BY <1>1, <1>4 DEF Unfolds
  <2>2. f[l] = IF l = 0 THEN 0 ELSE h[<<l, f[l - 1]>>]
    BY <1>4 DEF Unfolds
  <2>3. l # 0 => h[<<l, f[l - 1]>>] = ix[l - 1] * Turn[l - 1] + f[l - 1]
    BY <2>1
  <2> HIDE DEF h
  <2> QED
    BY <2>2, <2>3
<1> DEFINE part == CHOOSE g : g = [k \in 0..n |->
                     IF k = 0 THEN 0 ELSE ix[k - 1] * Turn[k - 1] + g[k - 1]]
<1>6. f = [l \in 0..n |-> IF l = 0 THEN 0 ELSE ix[l - 1] * Turn[l - 1] + f[l - 1]]
  <2> HIDE DEF n
  <2> QED
    BY <1>4, <1>5 DEF Unfolds
<1>7. part = [k \in 0..n |-> IF k = 0 THEN 0 ELSE ix[k - 1] * Turn[k - 1] + part[k - 1]]
  BY <1>6
<1>8. \A l : Gone(ix, l) = part[l]
  BY DEF Gone
<1> HIDE DEF part
<1>9. /\ Gone(ix, 0) = 0
      /\ \A l \in 0..n - 1 : Gone(ix, l + 1) = ix[l] * Turn[l] + Gone(ix, l)
  <2>1. part[0] = 0
    BY <1>1, <1>7
  <2>2. ASSUME NEW l \in 0..n - 1
        PROVE  part[l + 1] = ix[l] * Turn[l] + part[l]
    <3>1. l + 1 \in 0..n /\ l + 1 # 0 /\ (l + 1) - 1 = l
      BY <1>1
    <3>2. part[l + 1] = ix[(l + 1) - 1] * Turn[(l + 1) - 1] + part[(l + 1) - 1]
      BY <1>7, <3>1
    <3> QED
      BY <3>1, <3>2
  <2> QED
    BY <1>8, <2>1, <2>2
<1> DEFINE S == {l \in 0..n : Gone(ix, l) \in Nat /\ Gone(ix, l) < Turn[l]}
<1>10. 0..n \subseteq S
  <2>1. 0 \in S
    BY <1>1, <1>9, TurnIs
  <2>2. ASSUME NEW k \in 0..n - 1, k \in S
        PROVE  k + 1 \in S
    <3>1. /\ Turn[k] \in Nat \ {0} /\ Turn[k + 1] = SlotCount * Turn[k] /\ Turn[k + 1] \in Nat
          /\ k + 1 \in 0..n
      BY <1>1, TurnIs DEF Layers
    <3>2. ix[k] \in Nat /\ ix[k] + 1 <= SlotCount /\ ix[k] * Turn[k] \in Nat
      <4>1. k + 1 \in 1..n /\ (k + 1) - 1 = k
        BY <1>1
      <4> QED
        BY <1>2, <4>1
    <3>3. (ix[k] + 1) * Turn[k] <= SlotCount * Turn[k]
      BY <1>1, <3>1, <3>2, ProductGrows
    <3>4. (ix[k] + 1) * Turn[k] = ix[k] * Turn[k] + Turn[k]
      BY <3>1, <3>2, Product
    <3>5. Gone(ix, k) \in Nat /\ Gone(ix, k) < Turn[k]
      BY <2>2
    <3>6. Gone(ix, k + 1) = ix[k] * Turn[k] + Gone(ix, k)
      BY <1>9
    <3> DEFINE a == ix[k] * Turn[k]
               b == SlotCount * Turn[k]
               c == Gone(ix, k)
    <3>7. a + c \in Nat /\ a + c < Turn[k + 1]
      <4>1. a \in Nat /\ c \in Nat /\ a + Turn[k] <= Turn[k + 1] /\ c < Turn[k]
        BY <3>1, <3>2, <3>3, <3>4, <3>5
      <4> HIDE DEF a, b, c
      <4> QED
        BY <3>1, <4>1
    <3> QED
      BY <3>1, <3>6, <3>7
  <2> HIDE DEF S, n
  <2> QED
    BY <1>1, <2>1, <2>2, Upwards
<1> QED
  BY <1>9, <1>10 DEF Layers

(***************************************************************************)
(* One tick moves the layers: those whose lower layers complete a turn by  *)
(* one slot, and the ticks gone below the others grow by one.              *)
(***************************************************************************)
LEMMA MovedIs ==
  ASSUME indexs \in Indices
  PROVE  /\ Moved \in Indices
         /\ \A l \in Layers : Moved[l] = IF ~Moves(l) THEN indexs[l]
                                         ELSE IF indexs[l] = SlotCount - 1 THEN 0
                                         ELSE indexs[l] + 1
<1>1. SlotCount \in Nat \ {0} /\ SlotCount > 1
  BY WheelAssumption
<1>2. ASSUME NEW l \in Layers
      PROVE  /\ indexs[l] \in 0..SlotCount - 1
             /\ (indexs[l] + 1) % SlotCount = IF indexs[l] = SlotCount - 1 THEN 0 ELSE indexs[l] + 1
  <2>1. indexs[l] \in 0..SlotCount - 1 /\ 1 \in 0..SlotCount - 1
    BY <1>1 DEF Indices
  <2>2. (1 + indexs[l]) % SlotCount =
          IF 1 + indexs[l] < SlotCount THEN 1 + indexs[l] ELSE 1 + indexs[l] - SlotCount
    BY <1>1, <2>1, Circle
  <2>3. 1 + indexs[l] = indexs[l] + 1
    BY <2>1
  <2> QED
    BY <1>1, <2>1, <2>2, <2>3
<1>3. \A l \in Layers : Moved[l] = IF ~Moves(l) THEN indexs[l]
                                   ELSE IF indexs[l] = SlotCount - 1 THEN 0
                                   ELSE indexs[l] + 1
  BY <1>2 DEF Moved
<1>4. ASSUME NEW l \in Layers
      PROVE  Moved[l] \in 0..SlotCount - 1
  BY <1>1, <1>2, <1>3
<1>5. Moved = [l \in Layers |-> Moved[l]]
  BY DEF Moved
<1>6. Moved \in Indices
  BY <1>4, <1>5 DEF Indices
<1> QED
  BY <1>3, <1>6

\* A tick adds one to Gone, or completes the turn.
LEMMA GoneStep ==
  ASSUME indexs \in Indices
  PROVE  \A l \in 0..CircleCount :
           /\ Moves(l) => Gone(indexs, l) = Turn[l] - 1 /\ Gone(Moved, l) = 0
           /\ ~Moves(l) => Gone(Moved, l) = Gone(indexs, l) + 1
<1> DEFINE n == CircleCount
           Good(l) == /\ Moves(l) => Gone(indexs, l) = Turn[l] - 1 /\ Gone(Moved, l) = 0
                      /\ ~Moves(l) => Gone(Moved, l) = Gone(indexs, l) + 1
           S == {l \in 0..n : Good(l)}
<1>1. n \in Nat /\ SlotCount \in Nat /\ SlotCount > 1
  BY WheelAssumption
<1>2. Moved \in Indices
  BY MovedIs
<1>3. 0 \in S
  <2>1. Moves(0)
    BY <1>1 DEF Moves, Layers
  <2>2. Gone(indexs, 0) = 0 /\ Gone(Moved, 0) = 0 /\ Turn[0] = 1
    BY <1>2, GoneIs, TurnIs
  <2>3. 0 \in 0..n
    BY <1>1
  <2> QED
    BY <2>1, <2>2, <2>3
<1>4. ASSUME NEW k \in 0..n - 1, k \in S
      PROVE  k + 1 \in S
  <2>1. k \in Layers /\ k \in 0..n /\ k + 1 \in 0..n
    BY <1>1 DEF Layers
  <2>2. /\ Turn[k] \in Nat \ {0} /\ Turn[k + 1] = SlotCount * Turn[k]
        /\ indexs[k] \in 0..SlotCount - 1
    BY <2>1, TurnIs DEF Indices
  <2>3. /\ Gone(indexs, k + 1) = indexs[k] * Turn[k] + Gone(indexs, k)
        /\ Gone(Moved, k + 1) = Moved[k] * Turn[k] + Gone(Moved, k)
        /\ Gone(indexs, k) \in Nat
    BY <1>2, <2>1, GoneIs
  <2>4. Good(k)
    BY <1>4
  <2>5. Moved[k] = IF ~Moves(k) THEN indexs[k]
                   ELSE IF indexs[k] = SlotCount - 1 THEN 0 ELSE indexs[k] + 1
    BY <2>1, MovedIs
  <2>6. Moves(k + 1) <=> Moves(k) /\ indexs[k] = SlotCount - 1
    <3>1. \A j \in Layers : j < k + 1 <=> j < k \/ j = k
      BY <1>1, <2>1 DEF Layers
    <3> QED
      BY <2>1, <3>1 DEF Moves
  <2>7. CASE Moves(k) /\ indexs[k] = SlotCount - 1
    <3>1. SlotCount * Turn[k] = (SlotCount - 1) * Turn[k] + Turn[k]
      <4>1. SlotCount - 1 \in Nat /\ (SlotCount - 1) + 1 = SlotCount
        BY <1>1
      <4> QED
        BY <2>2, <4>1, Product
    <3>2. (SlotCount - 1) * Turn[k] \in Nat /\ 0 * Turn[k] = 0
      <4>1. SlotCount - 1 \in Nat
        BY <1>1
      <4> QED
        BY <2>2, <4>1, Product
    <3>3. Gone(indexs, k) = Turn[k] - 1 /\ Gone(Moved, k) = 0 /\ Moved[k] = 0
      BY <2>4, <2>5, <2>7
    <3>4. Gone(Moved, k + 1) = 0
      BY <2>3, <3>2, <3>3
    <3> DEFINE a == (SlotCount - 1) * Turn[k]
    <3>5. a + (Turn[k] - 1) = (a + Turn[k]) - 1
      <4>1. a \in Nat
        BY <3>2
      <4> HIDE DEF a
      <4> QED
        BY <2>2, <4>1
    <3>6. Gone(indexs, k + 1) = Turn[k + 1] - 1
      BY <2>2, <2>3, <2>7, <3>1, <3>3, <3>5
    <3>7. Good(k + 1)
      BY <2>6, <2>7, <3>4, <3>6
    <3> HIDE DEF Good
    <3> QED
      BY <2>1, <3>7
  <2>8. CASE Moves(k) /\ indexs[k] # SlotCount - 1
    <3>1. (indexs[k] + 1) * Turn[k] = indexs[k] * Turn[k] + Turn[k] /\ indexs[k] * Turn[k] \in Nat
      BY <2>2, Product
    <3>2. Gone(indexs, k) = Turn[k] - 1 /\ Gone(Moved, k) = 0 /\ Moved[k] = indexs[k] + 1
      BY <2>4, <2>5, <2>8
    <3> DEFINE a == indexs[k] * Turn[k]
    <3>3. (a + Turn[k]) + 0 = (a + (Turn[k] - 1)) + 1
      <4>1. a \in Nat
        BY <3>1
      <4> HIDE DEF a
      <4> QED
        BY <2>2, <4>1
    <3>4. Gone(Moved, k + 1) = Gone(indexs, k + 1) + 1
      BY <2>3, <3>1, <3>2, <3>3
    <3>5. Good(k + 1)
      BY <2>6, <2>8, <3>4
    <3> HIDE DEF Good
    <3> QED
      BY <2>1, <3>5
  <2>9. CASE ~Moves(k)
    <3>1. Gone(Moved, k) = Gone(indexs, k) + 1 /\ Moved[k] = indexs[k]
      BY <2>4, <2>5, <2>9
    <3>2. indexs[k] * Turn[k] \in Nat
      BY <2>2, Product
    <3> DEFINE a == indexs[k] * Turn[k]
               c == Gone(indexs, k)
    <3>3. a + (c + 1) = (a + c) + 1
      <4>1. a \in Nat /\ c \in Nat
        BY <2>3, <3>2
      <4> HIDE DEF a, c
      <4> QED
        BY <4>1
    <3>4. Gone(Moved, k + 1) = Gone(indexs, k + 1) + 1
      BY <2>3, <3>1, <3>3
    <3>5. Good(k + 1)
      BY <2>6, <2>9, <3>4
    <3> HIDE DEF Good
    <3> QED
      BY <2>1, <3>5
  <2> QED
    BY <2>7, <2>8, <2>9
<1>5. 0..n \subseteq S
  <2> HIDE DEF S, n
  <2> QED
    BY <1>1, <1>3, <1>4, Upwards
<1> QED
  BY <1>5

(***************************************************************************)
(* Where a task goes.                                                      *)
(***************************************************************************)

\* The layer of a delay that fits in the wheel.
LEMMA GetLayerIs ==
  ASSUME NEW d \in Nat, ~TooLarge(d)
  PROVE  /\ GetLayer(d) \in Layers /\ d < Turn[GetLayer(d) + 1]
         /\ GetLayer(d) > 0 => d >= Turn[GetLayer(d)]
<1> DEFINE n == CircleCount
           S == {l \in Layers : d < Turn[l + 1]}
<1>1. n \in Nat \ {0} /\ Layers = 0..n - 1
  BY WheelAssumption DEF Layers
<1>2. \A l \in 0..n : Turn[l] \in Nat
  BY TurnIs
<1>3. d < Turn[n]
  <2>1. n \in 0..n
    BY <1>1
  <2> QED
    BY <1>2, <2>1 DEF TooLarge
<1>4. n - 1 \in S
  BY <1>1, <1>3
<1>5. PICK l \in S : \A k \in S : l <= k
  <2>1. S \subseteq Nat /\ S # {}
    BY <1>1, <1>4
  <2> HIDE DEF S
  <2> QED
    BY <2>1, Least
<1>6. l > 0 => d >= Turn[l]
  <2> SUFFICES ASSUME l > 0
               PROVE  d >= Turn[l]
    OBVIOUS
  <2>1. l - 1 \in Layers /\ l - 1 \notin S /\ (l - 1) + 1 = l /\ l \in 0..n
    BY <1>1, <1>5
  <2> QED
    BY <1>2, <2>1
<1>7. \E k \in Layers : d < Turn[k + 1] /\ (k > 0 => d >= Turn[k])
  BY <1>5, <1>6
<1> QED
  BY <1>7 DEF GetLayer

\* How many slots index j is ahead of where layer l stands.
Ahead(ix, l, j) == IF j >= ix[l] THEN j - ix[l] ELSE j + SlotCount - ix[l]

\* The slot of a delay: the wheel comes to it after the delay less Rest.
LEMMA SlotOfIs ==
  ASSUME NEW d \in Nat, ~TooLarge(d), NEW ix \in Indices
  PROVE  LET l == GetLayer(d) IN
         \E j \in 0..SlotCount - 1 :
           /\ SlotOf(d, ix) = <<l, j>>
           /\ l > 0 => Ahead(ix, l, j) # 0
           /\ Rest(d) \in Nat /\ Rest(d) < Turn[l]
           /\ Ahead(ix, l, j) * Turn[l] + Rest(d) = d
<1> DEFINE n == SlotCount
           l == GetLayer(d)
           x == Turn[l]
           q == d \div x
           i == ix[l]
           j == (q + i) % n
<1>1. n \in Nat \ {0} /\ CircleCount \in Nat \ {0}
  BY WheelAssumption
<1>2. l \in Layers /\ d < Turn[l + 1] /\ (l > 0 => d >= x)
  BY GetLayerIs
<1>3. x \in Nat \ {0} /\ Turn[l + 1] = n * x /\ i \in 0..n - 1
  <2>1. l \in 0..CircleCount
    BY <1>1, <1>2 DEF Layers
  <2> QED
    BY <1>2, <2>1, TurnIs DEF Indices
<1>4. q \in Nat /\ d % x \in Nat /\ d % x < x /\ (q * x) + (d % x) = d
  <2> HIDE DEF x
  <2> QED
    BY <1>3, Divide
<1>5. SlotOf(d, ix) = <<l, j>> /\ Rest(d) = d % x
  BY DEF SlotOf, Rest
<1> HIDE DEF x, l, i
<1>6. q < n
  <2> SUFFICES ASSUME n <= q
               PROVE  FALSE
    BY <1>1, <1>4
  <2>1. n * x <= q * x
    <3> HIDE DEF q
    <3> QED
      BY <1>1, <1>3, <1>4, ProductGrows
  <2>2. q * x \in Nat /\ n * x \in Nat
    <3> HIDE DEF q
    <3> QED
      BY <1>1, <1>3, <1>4, Product
  <2> DEFINE a == q * x
             b == n * x
             r == d % x
  <2>3. a \in Nat /\ b \in Nat /\ r \in Nat /\ b <= a /\ a + r = d /\ d < b
    BY <1>2, <1>3, <1>4, <2>1, <2>2
  <2> HIDE DEF a, b, r
  <2> QED
    BY <2>3
<1>7. l > 0 => q # 0
  <2> SUFFICES ASSUME l > 0, q = 0
               PROVE  FALSE
    OBVIOUS
  <2> DEFINE r == d % x
  <2>1. q * x = 0
    <3> HIDE DEF q
    <3> QED
      BY <1>3
  <2>2. r \in Nat /\ r < x /\ 0 + r = d /\ d >= x
    BY <1>2, <1>4, <2>1
  <2> HIDE DEF r
  <2> QED
    BY <1>3, <2>2
<1> HIDE DEF q
<1>8. q \in 0..n - 1
  BY <1>1, <1>4, <1>6
<1>9. j \in 0..n - 1 /\ j = IF q + i < n THEN q + i ELSE q + i - n
  BY <1>1, <1>3, <1>8, Circle
<1> HIDE DEF j
<1>10. Ahead(ix, l, j) = q
  BY <1>1, <1>3, <1>8, <1>9 DEF Ahead, i
<1>11. Ahead(ix, l, j) * Turn[l] + Rest(d) = d
  BY <1>4, <1>5, <1>10 DEF x
<1> QED
  BY <1>4, <1>5, <1>7, <1>9, <1>10, <1>11 DEF l, x

(***************************************************************************)
(* The invariant.  A task in slot j of layer l will have waited for        *)
(* delay - begin ticks when it fires: it has waited for age, the slot is   *)
(* handed down when the layer has come to it, and then tick is left.       *)
(***************************************************************************)
OnWay(ix, l, j, left, waited, early, total) ==
  /\ left < Turn[l]
  /\ l > 0 => Ahead(ix, l, j) # 0
  /\ waited + Ahead(ix, l, j) * Turn[l] + left + early = total + Gone(ix, l)

Scheduled ==
  \A l \in Layers, j \in 0..SlotCount - 1 : \A t \in slots[<<l, j>>] :
    OnWay(indexs, l, j, tick[t], age[t], begin[t], delay[t])

\* Tick has not seen the tasks in adds_ yet.
Waiting == \A t \in adds : tick[t] = delay[t] /\ age[t] = 0

\* What begin was when a task was put into its slot.
Early == \A t \in InSlots : begin[t] < Turn[GetLayer(delay[t])]

IInv == TypeOK /\ TaskInOnePlace /\ Scheduled /\ Waiting /\ Early /\ FiresOnTime

\* The tasks of ts are put into their slots, seen from ix; the others stay in from.
Placed(ts, from, ix) ==
  /\ slots' \in [Slots -> SUBSET Tasks]
  /\ \A t \in Tasks, p, q \in Slots : t \in slots'[p] /\ t \in slots'[q] => p = q
  /\ \A p \in Slots : \A t \in slots'[p] :
       (t \in from[p] /\ t \notin ts) \/ (t \in ts /\ p = SlotOf(tick[t], ix))
  /\ \A t \in ts : tick'[t] = Rest(tick[t])
  /\ \A t \in Tasks \ ts : tick'[t] = tick[t]
  /\ tick' = [t \in Tasks |-> tick'[t]]

\* The tasks that are dispatched: one slot each, and the others stay.
LEMMA Dispatched ==
  ASSUME NEW ts, ts \subseteq Tasks, NEW from \in [Slots -> SUBSET Tasks], NEW ix,
         DispatchTasks(ts, from, ix),
         \A t \in ts, p \in Slots : t \notin from[p],
         \A t \in Tasks, p, q \in Slots : t \in from[p] /\ t \in from[q] => p = q
  PROVE  Placed(ts, from, ix)
<1>1. \A p \in Slots : slots'[p] = from[p] \cup {t \in ts : SlotOf(tick[t], ix) = p}
  BY DEF DispatchTasks
<1>2. slots' \in [Slots -> SUBSET Tasks]
  BY DEF DispatchTasks
<1>3. \A p \in Slots : \A t \in slots'[p] :
        (t \in from[p] /\ t \notin ts) \/ (t \in ts /\ p = SlotOf(tick[t], ix))
  BY <1>1
<1>4. \A t \in Tasks, p, q \in Slots : t \in slots'[p] /\ t \in slots'[q] => p = q
  BY <1>3
<1>5. /\ \A t \in ts : tick'[t] = Rest(tick[t])
      /\ \A t \in Tasks \ ts : tick'[t] = tick[t]
      /\ tick' = [t \in Tasks |-> tick'[t]]
  BY DEF DispatchTasks
<1> QED
  BY <1>2, <1>3, <1>4, <1>5 DEF Placed

\* A task whose delay is d goes on its way, where the lower layers begin a turn.
LEMMA DispatchedOnWay ==
  ASSUME NEW d \in Nat, ~TooLarge(d), NEW ix \in Indices, NEW waited \in Nat,
         NEW early \in Nat, NEW total \in Nat,
         waited + d + early = total + Gone(ix, GetLayer(d)),
         NEW l, NEW j, <<l, j>> = SlotOf(d, ix)
  PROVE  OnWay(ix, l, j, Rest(d), waited, early, total) /\ Rest(d) \in Nat
<1>1. PICK k \in 0..SlotCount - 1 :
        /\ SlotOf(d, ix) = <<GetLayer(d), k>>
        /\ GetLayer(d) > 0 => Ahead(ix, GetLayer(d), k) # 0
        /\ Rest(d) \in Nat /\ Rest(d) < Turn[GetLayer(d)]
        /\ Ahead(ix, GetLayer(d), k) * Turn[GetLayer(d)] + Rest(d) = d
  BY SlotOfIs
<1>2. l = GetLayer(d) /\ j = k
  BY <1>1
<1>3. l \in Layers /\ l \in 0..CircleCount
  <2>1. CircleCount \in Nat \ {0}
    BY WheelAssumption
  <2> QED
    BY <1>2, <2>1, GetLayerIs DEF Layers
<1> DEFINE a == Ahead(ix, l, j) * Turn[l]
           r == Rest(d)
           g == Gone(ix, l)
<1>4. a \in Nat
  <2>1. Turn[l] \in Nat
    BY <1>3, TurnIs
  <2>2. Ahead(ix, l, j) \in Nat
    <3>1. ix[l] \in 0..SlotCount - 1 /\ SlotCount \in Nat
      BY <1>3, WheelAssumption DEF Indices
    <3> QED
      BY <1>2, <3>1 DEF Ahead
  <2> HIDE DEF a
  <2>3. Ahead(ix, l, j) * Turn[l] \in Nat
    BY <2>1, <2>2, Product
  <2> QED
    BY <2>3 DEF a
<1>5. r \in Nat /\ g \in Nat
  BY <1>1, <1>3, GoneIs
<1>6. waited + a + r + early = total + g
  <2>1. a + r = d /\ waited + d + early = total + g
    BY <1>1, <1>2
  <2> HIDE DEF a, r, g
  <2> QED
    BY <1>4, <1>5, <2>1
<1> QED
  BY <1>1, <1>2, <1>6 DEF OnWay

(***************************************************************************)
(* The steps.                                                              *)
(***************************************************************************)
LEMMA Numbers ==
  ASSUME TypeOK
  PROVE  \A t \in Tasks : /\ tick[t] \in Nat /\ age[t] \in Nat /\ begin[t] \in Nat
                          /\ delay[t] \in Nat /\ fired[t] \in Nat
<1>1. Delays \cup {0} \subseteq Nat
  BY WheelAssumption
<1>2. \A t \in Tasks : delay[t] \in Delays \cup {0}
  BY DEF TypeOK
<1>3. \A t \in Tasks : tick[t] \in Nat /\ age[t] \in Nat /\ begin[t] \in Nat /\ fired[t] \in Nat
  BY DEF TypeOK
<1> QED
  BY <1>1, <1>2, <1>3

\* AddTask preserves the invariant.
LEMMA AddTaskKeeps ==
  ASSUME IInv, NEW t \in Tasks, NEW d \in Delays, AddTask(t, d)
  PROVE  IInv'
<1>1. TypeOK /\ d \in Nat
  BY WheelAssumption DEF IInv
<1>2. TypeOK'
  BY <1>1 DEF TypeOK, AddTask
<1>3. /\ t \notin InSlots /\ t \notin adds /\ fired[t] = 0
      /\ InSlots' = InSlots /\ slots' = slots /\ fired' = fired
      /\ begin' = begin /\ indexs' = indexs /\ adds' = adds \cup {t}
  BY DEF AddTask, InSlots
<1>4. /\ tick'[t] = d /\ delay'[t] = d /\ age'[t] = 0
      /\ \A u \in Tasks : u # t => tick'[u] = tick[u] /\ delay'[u] = delay[u] /\ age'[u] = age[u]
  BY <1>1 DEF TypeOK, AddTask
<1>5. TaskInOnePlace'
  BY <1>3 DEF IInv, TaskInOnePlace
<1>6. Waiting'
  BY <1>1, <1>3, <1>4 DEF IInv, Waiting, TypeOK
<1>7. \A u \in InSlots : u \in Tasks /\ u # t
  BY <1>1, <1>3 DEF TypeOK, InSlots
<1>8. Early'
  BY <1>3, <1>4, <1>7 DEF IInv, Early
<1>9. Scheduled'
  <2> SUFFICES ASSUME NEW l \in Layers, NEW j \in 0..SlotCount - 1, NEW u \in slots[<<l, j>>]
               PROVE  OnWay(indexs, l, j, tick'[u], age'[u], begin[u], delay'[u])
    BY <1>3 DEF Scheduled
  <2>1. u \in InSlots
    BY DEF InSlots, Slots
  <2>2. tick'[u] = tick[u] /\ delay'[u] = delay[u] /\ age'[u] = age[u]
    BY <1>4, <1>7, <2>1
  <2> QED
    BY <2>2 DEF IInv, Scheduled
<1>10. FiresOnTime'
  <2>1. \A u \in Tasks : fired[u] = 1 => u # t
    BY <1>3
  <2> QED
    BY <1>3, <1>4, <2>1 DEF IInv, FiresOnTime
<1> QED
  BY <1>2, <1>5, <1>6, <1>8, <1>9, <1>10 DEF IInv

\* Tick takes over the tasks of adds_.
LEMMA TakenOver ==
  ASSUME IInv, Collect, \A t \in adds : ~TooLarge(tick[t]),
         DispatchTasks(adds, slots, indexs),
         begin' = [t \in Tasks |->
                     IF t \in adds THEN Gone(indexs, GetLayer(tick[t])) ELSE begin[t]],
         todo' \in 0..MaxBatch, crashed' = crashed
  PROVE  IInv'
<1>1. TypeOK /\ adds' = {} /\ UNCHANGED <<indexs, delay, age, fired>>
  BY DEF IInv, Collect
<1>2. indexs \in Indices /\ adds \subseteq Tasks /\ slots \in [Slots -> SUBSET Tasks]
  BY <1>1 DEF TypeOK, Indices
<1>3. /\ \A t \in adds, p \in Slots : t \notin slots[p]
      /\ \A t \in Tasks, p, q \in Slots : t \in slots[p] /\ t \in slots[q] => p = q
  BY <1>2 DEF IInv, TaskInOnePlace, InSlots
<1>4. /\ slots' \in [Slots -> SUBSET Tasks]
      /\ \A t \in Tasks, p, q \in Slots : t \in slots'[p] /\ t \in slots'[q] => p = q
      /\ \A p \in Slots : \A t \in slots'[p] :
           (t \in slots[p] /\ t \notin adds) \/ (t \in adds /\ p = SlotOf(tick[t], indexs))
      /\ \A t \in adds : tick'[t] = Rest(tick[t])
      /\ \A t \in Tasks \ adds : tick'[t] = tick[t]
      /\ tick' = [t \in Tasks |-> tick'[t]]
  <2>1. Placed(adds, slots, indexs)
    BY <1>2, <1>3, Dispatched
  <2> QED
    BY <2>1 DEF Placed
<1>5. \A t \in Tasks : tick[t] \in Nat /\ age[t] \in Nat /\ begin[t] \in Nat /\ delay[t] \in Nat
  BY <1>1, Numbers
<1>6. ASSUME NEW t \in adds
      PROVE  /\ begin'[t] = Gone(indexs, GetLayer(delay[t])) /\ begin'[t] \in Nat
             /\ begin'[t] < Turn[GetLayer(delay[t])]
             /\ tick[t] = delay[t] /\ age[t] = 0 /\ t \in Tasks
  <2>1. tick[t] = delay[t] /\ age[t] = 0 /\ t \in Tasks
    BY <1>2 DEF IInv, Waiting
  <2>2. begin'[t] = Gone(indexs, GetLayer(delay[t]))
    BY <2>1
  <2>3. GetLayer(tick[t]) \in 0..CircleCount
    <3>1. CircleCount \in Nat
      BY WheelAssumption
    <3> QED
      BY <1>5, <2>1, <3>1, GetLayerIs DEF Layers
  <2> QED
    BY <1>2, <2>1, <2>2, <2>3, GoneIs
<1>7. \A t \in Tasks \ adds : begin'[t] = begin[t]
  OBVIOUS
<1>8. ASSUME NEW l \in Layers, NEW j \in 0..SlotCount - 1, NEW t \in slots'[<<l, j>>]
      PROVE  /\ OnWay(indexs, l, j, tick'[t], age[t], begin'[t], delay[t])
             /\ begin'[t] < Turn[GetLayer(delay[t])]
  <2>1. <<l, j>> \in Slots /\ t \in Tasks
    BY <1>4 DEF Slots
  <2>2. CASE t \in slots[<<l, j>>] /\ t \notin adds
    <3>1. tick'[t] = tick[t] /\ begin'[t] = begin[t] /\ t \in InSlots
      BY <1>4, <1>7, <2>1, <2>2 DEF InSlots
    <3> QED
      BY <2>2, <3>1 DEF IInv, Scheduled, Early
  <2>3. CASE t \in adds /\ <<l, j>> = SlotOf(tick[t], indexs)
    <3>1. age[t] + tick[t] + begin'[t] = delay[t] + Gone(indexs, GetLayer(tick[t]))
      <4>1. /\ age[t] = 0 /\ tick[t] = delay[t] /\ delay[t] \in Nat /\ begin'[t] \in Nat
            /\ begin'[t] = Gone(indexs, GetLayer(tick[t]))
        BY <1>5, <1>6, <2>3
      <4>2. 0 + delay[t] + begin'[t] = delay[t] + begin'[t]
        BY <4>1
      <4> QED
        BY <4>1, <4>2
    <3>2. OnWay(indexs, l, j, Rest(tick[t]), age[t], begin'[t], delay[t])
      BY <1>2, <1>5, <1>6, <2>1, <2>3, <3>1, DispatchedOnWay
    <3> QED
      BY <1>4, <1>6, <2>3, <3>2
  <2> QED
    BY <1>4, <2>1, <2>2, <2>3
<1>9. TypeOK'
  <2>1. \A t \in Tasks : begin'[t] \in Nat
    BY <1>5, <1>6, <1>7
  <2>2. begin' \in [Tasks -> Nat]
    BY <2>1
  <2>3. \A t \in adds : Rest(tick[t]) \in Nat
    BY <1>2, <1>5, WheelAssumption, SlotOfIs
  <2>4. tick' \in [Tasks -> Nat]
    BY <1>4, <1>5, <2>3
  <2> QED
    BY <1>1, <1>4, <2>2, <2>4 DEF TypeOK
<1>10. \A t \in InSlots' : t \in InSlots \cup adds
  BY <1>4 DEF InSlots
<1>11. TaskInOnePlace'
  BY <1>1, <1>4, <1>10 DEF IInv, TaskInOnePlace
<1>12. Scheduled'
  BY <1>1, <1>8 DEF Scheduled
<1>13. Waiting'
  BY <1>1 DEF Waiting
<1>14. Early'
  <2> SUFFICES ASSUME NEW t \in InSlots'
               PROVE  begin'[t] < Turn[GetLayer(delay[t])]
    BY <1>1 DEF Early
  <2>1. PICK p \in Slots : t \in slots'[p]
    BY DEF InSlots
  <2>2. PICK l \in Layers, j \in 0..SlotCount - 1 : p = <<l, j>>
    BY DEF Slots
  <2> QED
    BY <1>8, <2>1, <2>2
<1>15. FiresOnTime'
  <2>1. \A t \in Tasks : fired[t] = 1 => t \notin adds
    BY DEF IInv, TaskInOnePlace
  <2> QED
    BY <1>1, <1>7, <2>1 DEF IInv, FiresOnTime
<1> QED
  BY <1>9, <1>11, <1>12, <1>13, <1>14, <1>15 DEF IInv

\* Collect preserves the invariant.
LEMMA CollectStep ==
  ASSUME IInv, Collect
  PROVE  IInv'
<1>1. CASE /\ \A t \in adds : ~TooLarge(tick[t])
           /\ DispatchTasks(adds, slots, indexs)
           /\ begin' = [t \in Tasks |->
                          IF t \in adds THEN Gone(indexs, GetLayer(tick[t])) ELSE begin[t]]
           /\ todo' \in 0..MaxBatch
           /\ UNCHANGED crashed
  BY <1>1, TakenOver
<1>2. CASE crashed' = TRUE /\ UNCHANGED <<slots, tick, begin, todo>>
  <2>1. adds' = {} /\ UNCHANGED <<indexs, delay, age, fired>>
    BY DEF Collect
  <2>2. InSlots' = InSlots
    BY <1>2 DEF InSlots
  <2>3. TypeOK'
    BY <1>2, <2>1 DEF IInv, TypeOK
  <2>4. TaskInOnePlace'
    BY <1>2, <2>1, <2>2 DEF IInv, TaskInOnePlace
  <2>5. Scheduled'
    BY <1>2, <2>1 DEF IInv, Scheduled
  <2>6. Waiting' /\ Early' /\ FiresOnTime'
    BY <1>2, <2>1, <2>2 DEF IInv, Waiting, Early, FiresOnTime
  <2> QED
    BY <2>3, <2>4, <2>5, <2>6 DEF IInv
<1> QED
  BY <1>1, <1>2 DEF Collect

(***************************************************************************)
(* One tick.                                                               *)
(***************************************************************************)

\* A task that is not handed down comes one tick nearer.
LEMMA Nearer ==
  ASSUME indexs \in Indices, NEW l \in Layers, NEW j \in 0..SlotCount - 1,
         NEW left \in Nat, NEW waited \in Nat, NEW early \in Nat, NEW total \in Nat,
         OnWay(indexs, l, j, left, waited, early, total),
         ~(l = 0 /\ j = indexs[0]), ~(l > 0 /\ Moves(l) /\ j = Moved[l])
  PROVE  OnWay(Moved, l, j, left, waited + 1, early, total)
<1>1. SlotCount \in Nat /\ SlotCount > 1 /\ CircleCount \in Nat \ {0}
  BY WheelAssumption
<1>2. l \in 0..CircleCount /\ indexs[l] \in 0..SlotCount - 1
  BY <1>1 DEF Layers, Indices
<1> DEFINE x == Turn[l]
           a == Ahead(indexs, l, j)
           b == Ahead(Moved, l, j)
           g == Gone(indexs, l)
           h == Gone(Moved, l)
<1>3. x \in Nat /\ g \in Nat /\ a \in Nat
  BY <1>1, <1>2, TurnIs, GoneIs DEF Ahead
<1>4. waited + a * x + left + early = total + g
  BY DEF OnWay
<1>5. CASE ~Moves(l)
  <2>1. b = a
    BY <1>5, MovedIs DEF Ahead
  <2>2. h = g + 1
    BY <1>2, <1>5, GoneStep
  <2>3. (waited + 1) + b * x + left + early = total + h
    <3>1. a * x \in Nat
      <4> HIDE DEF a, x
      <4> QED
        BY <1>3, Product
    <3> DEFINE ax == a * x
    <3>2. ax \in Nat /\ waited + ax + left + early = total + g
      BY <1>4, <3>1
    <3>3. (waited + 1) + ax + left + early = total + (g + 1)
      <4> HIDE DEF ax, g
      <4> QED
        BY <1>3, <3>2
    <3> QED
      BY <2>1, <2>2, <3>3
  <2>4. l > 0 => b # 0
    BY <2>1 DEF OnWay
  <2> QED
    BY <2>3, <2>4 DEF OnWay
<1>6. CASE Moves(l)
  <2>1. g = x - 1 /\ h = 0
    BY <1>2, <1>6, GoneStep
  <2>2. a # 0
    <3>1. CASE l = 0
      BY <1>1, <1>2, <3>1 DEF Ahead
    <3>2. CASE l # 0
      <4>1. l > 0
        BY <1>2, <3>2
      <4> QED
        BY <4>1 DEF OnWay
    <3> QED
      BY <3>1, <3>2
  <2>3. Moved[l] = IF indexs[l] = SlotCount - 1 THEN 0 ELSE indexs[l] + 1
    BY <1>6, MovedIs
  <2>4. a = b + 1 /\ b \in Nat
    BY <1>1, <1>2, <2>2, <2>3 DEF Ahead
  <2>5. l > 0 => b # 0
    BY <1>1, <1>2, <1>6, <2>3 DEF Ahead
  <2>6. (waited + 1) + b * x + left + early = total + h
    <3>1. b * x \in Nat /\ a * x = b * x + x
      <4> HIDE DEF a, b, x
      <4> QED
        BY <1>3, <2>4, Product
    <3> DEFINE bx == b * x
    <3>2. bx \in Nat /\ waited + (bx + x) + left + early = total + (x - 1)
      BY <1>4, <2>1, <3>1
    <3>3. (waited + 1) + bx + left + early = total
      <4> HIDE DEF bx, x
      <4> QED
        BY <1>3, <3>2
    <3>4. total + 0 = total
      OBVIOUS
    <3> QED
      BY <2>1, <3>3, <3>4
  <2> QED
    BY <2>5, <2>6 DEF OnWay
<1> QED
  BY <1>5, <1>6

\* A task that is handed down has tick left.
LEMMA HandedDown ==
  ASSUME indexs \in Indices, NEW l \in Layers, l > 0, Moves(l),
         NEW left \in Nat, NEW waited \in Nat, NEW early \in Nat, NEW total \in Nat,
         OnWay(indexs, l, Moved[l], left, waited, early, total)
  PROVE  /\ ~TooLarge(left) /\ GetLayer(left) \in Layers
         /\ waited + 1 + left + early = total + Gone(Moved, GetLayer(left))
<1>1. SlotCount \in Nat /\ SlotCount > 1 /\ CircleCount \in Nat \ {0}
  BY WheelAssumption
<1>2. l \in 0..CircleCount /\ CircleCount \in 0..CircleCount /\ indexs[l] \in 0..SlotCount - 1
  BY <1>1 DEF Layers, Indices
<1>3. \A k \in 0..CircleCount : Turn[k] \in Nat
  BY TurnIs
<1>4. left < Turn[l] /\ Turn[l] <= Turn[CircleCount]
  BY <1>2, TurnGrows DEF OnWay
<1>5. ~TooLarge(left)
  BY <1>2, <1>3, <1>4 DEF TooLarge
<1>6. GetLayer(left) \in Layers /\ (GetLayer(left) > 0 => left >= Turn[GetLayer(left)])
  BY <1>5, GetLayerIs
<1> DEFINE k == GetLayer(left)
<1>7. k < l
  <2> SUFFICES ASSUME ~(k < l)
               PROVE  FALSE
    OBVIOUS
  <2>1. k \in 0..CircleCount /\ k > 0 /\ l <= k
    BY <1>1, <1>6 DEF Layers
  <2>2. Turn[l] <= Turn[k] /\ left >= Turn[k]
    BY <1>2, <1>6, <2>1, TurnGrows
  <2> HIDE DEF k
  <2> QED
    BY <1>2, <1>3, <1>4, <2>1, <2>2
<1>8. Moves(k) /\ k \in 0..CircleCount
  <2> HIDE DEF k
  <2>1. k \in Layers
    BY <1>6 DEF k
  <2> QED
    BY <1>1, <1>7, <2>1 DEF Moves, Layers
<1>9. Gone(Moved, k) = 0 /\ Gone(indexs, l) = Turn[l] - 1
  <2> HIDE DEF k
  <2> QED
    BY <1>2, <1>8, GoneStep
<1>10. Ahead(indexs, l, Moved[l]) = 1
  <2>1. Moved[l] = IF indexs[l] = SlotCount - 1 THEN 0 ELSE indexs[l] + 1
    BY MovedIs
  <2> QED
    BY <1>1, <1>2, <2>1 DEF Ahead
<1>11. waited + 1 * Turn[l] + left + early = total + (Turn[l] - 1)
  BY <1>9, <1>10 DEF OnWay
<1>12. waited + 1 + left + early = total + 0
  BY <1>2, <1>3, <1>11
<1> QED
  BY <1>5, <1>6, <1>9, <1>12

\* Advance preserves the invariant.
LEMMA AdvanceStep ==
  ASSUME IInv, Advance
  PROVE  IInv'
<1> DEFINE now  == <<0, indexs[0]>>
           due  == slots[now]
           down == {<<l, Moved[l]>> : l \in {k \in Layers \ {0} : Moves(k)}}
           left == [p \in Slots |-> IF p = now \/ p \in down THEN {} ELSE slots[p]]
           ts   == UNION {slots[p] : p \in down}
<1>1. /\ TypeOK /\ todo > 0 /\ todo' = todo - 1
      /\ fired' = [t \in Tasks |-> fired[t] + (IF t \in due THEN 1 ELSE 0)]
      /\ age' = [t \in Tasks |-> age[t] + (IF t \in InSlots \ due THEN 1 ELSE 0)]
      /\ indexs' = Moved /\ DispatchTasks(ts, left, Moved)
      /\ UNCHANGED <<adds, crashed, delay, begin>>
  BY DEF IInv, Advance
<1>2. /\ SlotCount \in Nat /\ SlotCount > 1 /\ CircleCount \in Nat \ {0} /\ 0 \in Layers
      /\ MaxBatch \in Nat
  BY WheelAssumption DEF Layers
<1>3. indexs \in Indices /\ Moved \in Indices
  BY <1>1, MovedIs DEF TypeOK, Indices
<1>4. now \in Slots /\ down \subseteq Slots /\ now \notin down
  BY <1>2, <1>3 DEF Indices, Slots
<1>5. slots \in [Slots -> SUBSET Tasks]
  BY <1>1 DEF TypeOK
<1>6. \A t \in Tasks, p, q \in Slots : t \in slots[p] /\ t \in slots[q] => p = q
  BY DEF IInv, TaskInOnePlace
<1>7. \A t \in Tasks : /\ tick[t] \in Nat /\ age[t] \in Nat /\ begin[t] \in Nat
                       /\ delay[t] \in Nat /\ fired[t] \in Nat
  BY <1>1, Numbers
<1>8. /\ \A t \in ts : t \in Tasks /\ \E p \in down : t \in slots[p]
      /\ ts \subseteq Tasks /\ left \in [Slots -> SUBSET Tasks]
      /\ \A p \in Slots : \A t \in left[p] : t \in slots[p] /\ p # now /\ p \notin down
  BY <1>4, <1>5
<1> HIDE DEF left, ts
<1>9. /\ \A t \in ts, p \in Slots : t \notin left[p]
      /\ \A t \in Tasks, p, q \in Slots : t \in left[p] /\ t \in left[q] => p = q
  BY <1>4, <1>6, <1>8
<1>10. /\ slots' \in [Slots -> SUBSET Tasks]
       /\ \A t \in Tasks, p, q \in Slots : t \in slots'[p] /\ t \in slots'[q] => p = q
       /\ \A p \in Slots : \A t \in slots'[p] :
            (t \in left[p] /\ t \notin ts) \/ (t \in ts /\ p = SlotOf(tick[t], Moved))
       /\ \A t \in ts : tick'[t] = Rest(tick[t])
       /\ \A t \in Tasks \ ts : tick'[t] = tick[t]
       /\ tick' = [t \in Tasks |-> tick'[t]]
  <2>1. Placed(ts, left, Moved)
    BY <1>1, <1>8, <1>9, Dispatched
  <2> QED
    BY <2>1 DEF Placed
<1>11. \A l \in Layers, j \in 0..SlotCount - 1 : \A t \in slots[<<l, j>>] :
         OnWay(indexs, l, j, tick[t], age[t], begin[t], delay[t])
  BY DEF IInv, Scheduled
<1>12. ASSUME NEW t \in ts
       PROVE  /\ tick[t] \in Nat /\ ~TooLarge(tick[t]) /\ t \in InSlots /\ t \notin due
              /\ age[t] + 1 + tick[t] + begin[t] = delay[t] + Gone(Moved, GetLayer(tick[t]))
  <2>1. PICK p \in down : t \in slots[p]
    BY <1>8
  <2>2. PICK l \in Layers : l # 0 /\ Moves(l) /\ p = <<l, Moved[l]>>
    BY <2>1
  <2>3. l > 0 /\ Moved[l] \in 0..SlotCount - 1
    BY <1>2, <1>3, <2>2 DEF Layers, Indices
  <2>4. OnWay(indexs, l, Moved[l], tick[t], age[t], begin[t], delay[t])
    BY <1>11, <2>1, <2>2, <2>3
  <2>5. t \in Tasks /\ p \in Slots /\ p # now
    BY <1>4, <1>8, <2>1
  <2>6. t \in InSlots /\ t \notin due
    BY <1>4, <1>6, <2>1, <2>5 DEF InSlots
  <2>7. /\ ~TooLarge(tick[t])
        /\ age[t] + 1 + tick[t] + begin[t] = delay[t] + Gone(Moved, GetLayer(tick[t]))
    BY <1>3, <1>7, <2>2, <2>3, <2>4, <2>5, HandedDown
  <2> QED
    BY <1>7, <2>5, <2>6, <2>7
<1>13. ASSUME NEW t \in InSlots, t \notin due
       PROVE  t \in Tasks /\ age'[t] = age[t] + 1
  <2>1. t \in Tasks
    BY <1>5 DEF InSlots
  <2> HIDE DEF due
  <2> QED
    BY <1>1, <1>7, <1>13, <2>1
<1>14. ASSUME NEW l \in Layers, NEW j \in 0..SlotCount - 1, NEW t \in slots'[<<l, j>>]
       PROVE  /\ OnWay(Moved, l, j, tick'[t], age'[t], begin[t], delay[t])
              /\ t \in InSlots /\ t \notin due
  <2>1. <<l, j>> \in Slots /\ t \in Tasks
    BY <1>10 DEF Slots
  <2>2. CASE t \in left[<<l, j>>] /\ t \notin ts
    <3>1. t \in slots[<<l, j>>] /\ <<l, j>> # now /\ <<l, j>> \notin down /\ tick'[t] = tick[t]
      BY <1>8, <1>10, <2>1, <2>2
    <3>2. t \in InSlots /\ t \notin due
      BY <1>4, <1>6, <2>1, <3>1 DEF InSlots
    <3>3. ~(l = 0 /\ j = indexs[0]) /\ ~(l > 0 /\ Moves(l) /\ j = Moved[l])
      <4>1. l > 0 => l \in Layers \ {0}
        BY <1>2 DEF Layers
      <4> QED
        BY <3>1, <4>1
    <3>4. OnWay(indexs, l, j, tick[t], age[t], begin[t], delay[t])
      BY <1>11, <3>1
    <3>5. OnWay(Moved, l, j, tick[t], age[t] + 1, begin[t], delay[t])
      BY <1>3, <1>7, <2>1, <3>3, <3>4, Nearer
    <3> QED
      BY <1>13, <3>1, <3>2, <3>5
  <2>3. CASE t \in ts /\ <<l, j>> = SlotOf(tick[t], Moved)
    <3>1. age'[t] = age[t] + 1 /\ age[t] + 1 \in Nat /\ tick'[t] = Rest(tick[t])
      BY <1>7, <1>10, <1>12, <1>13, <2>1, <2>3
    <3>2. OnWay(Moved, l, j, Rest(tick[t]), age[t] + 1, begin[t], delay[t])
      BY <1>3, <1>7, <1>12, <2>1, <2>3, <3>1, DispatchedOnWay
    <3> QED
      BY <1>12, <2>3, <3>1, <3>2
  <2> QED
    BY <1>10, <2>1, <2>2, <2>3
<1>15. \A t \in InSlots' : t \in InSlots /\ t \notin due
  <2> SUFFICES ASSUME NEW t \in InSlots'
               PROVE  t \in InSlots /\ t \notin due
    OBVIOUS
  <2>1. PICK p \in Slots : t \in slots'[p]
    BY DEF InSlots
  <2>2. PICK l \in Layers, j \in 0..SlotCount - 1 : p = <<l, j>>
    BY DEF Slots
  <2> HIDE DEF due
  <2> QED
    BY <1>14, <2>1, <2>2
<1>16. TypeOK'
  <2>1. todo' \in 0..MaxBatch
    BY <1>1, <1>2 DEF TypeOK
  <2>2. fired' \in [Tasks -> Nat] /\ age' \in [Tasks -> Nat]
    <3> HIDE DEF due
    <3> QED
      BY <1>1, <1>7
  <2>3. \A t \in ts : Rest(tick[t]) \in Nat
    BY <1>3, <1>12, SlotOfIs
  <2>4. tick' \in [Tasks -> Nat]
    BY <1>7, <1>10, <2>3
  <2> QED
    BY <1>1, <1>3, <1>10, <2>1, <2>2, <2>4 DEF TypeOK, Indices
<1>17. ASSUME NEW t \in due
       PROVE  /\ t \in Tasks /\ t \in InSlots /\ fired[t] = 0 /\ fired'[t] = 1
              /\ age'[t] = age[t] /\ age[t] + begin[t] = delay[t]
  <2>1. t \in Tasks /\ t \in InSlots /\ t \in slots[now]
    BY <1>4, <1>5 DEF InSlots
  <2>2. fired[t] = 0
    BY <1>7, <2>1 DEF IInv, TaskInOnePlace
  <2>3. fired'[t] = 1 /\ age'[t] = age[t]
    <3> HIDE DEF due
    <3> QED
      BY <1>1, <1>7, <2>1, <2>2
  <2>4. indexs[0] \in 0..SlotCount - 1
    BY <1>2, <1>3 DEF Indices
  <2>5. OnWay(indexs, 0, indexs[0], tick[t], age[t], begin[t], delay[t])
    BY <1>2, <1>11, <2>1, <2>4
  <2>6. Ahead(indexs, 0, indexs[0]) = 0 /\ Turn[0] = 1 /\ Gone(indexs, 0) = 0
    BY <1>2, <1>3, <2>4, TurnIs, GoneIs DEF Ahead
  <2>7. age[t] + 0 * 1 + tick[t] + begin[t] = delay[t] + 0 /\ tick[t] < 1
    BY <2>5, <2>6 DEF OnWay
  <2>8. age[t] + begin[t] = delay[t]
    BY <1>7, <2>1, <2>7
  <2> QED
    BY <2>1, <2>2, <2>3, <2>8
<1>18. ASSUME NEW t \in Tasks, t \notin due
       PROVE  fired'[t] = fired[t] /\ (t \notin InSlots => age'[t] = age[t])
  <2> HIDE DEF due
  <2> QED
    BY <1>1, <1>7, <1>18
<1>19. TaskInOnePlace'
  <2> SUFFICES ASSUME NEW t \in Tasks
               PROVE  /\ fired'[t] <= 1
                      /\ \A p, q \in Slots : t \in slots'[p] /\ t \in slots'[q] => p = q
                      /\ ~(t \in adds /\ t \in InSlots')
                      /\ fired'[t] = 1 => t \notin adds /\ t \notin InSlots'
    BY <1>1 DEF TaskInOnePlace
  <2>1. /\ fired[t] <= 1 /\ ~(t \in adds /\ t \in InSlots)
        /\ fired[t] = 1 => t \notin adds /\ t \notin InSlots
    BY DEF IInv, TaskInOnePlace
  <2>2. ~(t \in adds /\ t \in InSlots')
    BY <1>15, <2>1
  <2>3. fired'[t] <= 1 /\ (fired'[t] = 1 => t \notin adds /\ t \notin InSlots')
    <3>1. CASE t \in due
      <4>1. fired'[t] = 1 /\ t \in InSlots
        BY <1>17, <3>1
      <4>2. t \notin InSlots'
        BY <1>15, <3>1
      <4> QED
        BY <2>1, <4>1, <4>2
    <3>2. CASE t \notin due
      <4>1. fired'[t] = fired[t]
        BY <1>18, <3>2
      <4> QED
        BY <1>15, <2>1, <4>1
    <3> QED
      BY <3>1, <3>2
  <2> QED
    BY <1>10, <2>2, <2>3
<1>20. Scheduled'
  BY <1>1, <1>14 DEF Scheduled
<1>21. Early'
  BY <1>1, <1>15 DEF IInv, Early
<1>22. Waiting'
  <2> SUFFICES ASSUME NEW t \in adds
               PROVE  tick'[t] = delay[t] /\ age'[t] = 0
    BY <1>1 DEF Waiting
  <2>1. t \in Tasks /\ t \notin InSlots
    BY <1>1 DEF TypeOK, IInv, TaskInOnePlace
  <2>2. t \notin due /\ t \notin ts
    BY <1>12, <1>17, <2>1
  <2>3. tick'[t] = tick[t] /\ age'[t] = age[t]
    <3> HIDE DEF due
    <3> QED
      BY <1>10, <1>18, <2>1, <2>2
  <2> QED
    BY <2>3 DEF IInv, Waiting
<1>23. FiresOnTime'
  <2> SUFFICES ASSUME NEW t \in Tasks, fired'[t] = 1
               PROVE  age'[t] + begin[t] = delay[t] /\ begin[t] < Turn[GetLayer(delay[t])]
    BY <1>1 DEF FiresOnTime
  <2>1. CASE t \in due
    BY <1>17, <2>1 DEF IInv, Early
  <2>2. CASE t \notin due
    <3>1. fired[t] = 1
      BY <1>18, <2>2
    <3>2. t \notin InSlots
      BY <3>1 DEF IInv, TaskInOnePlace
    <3>3. age'[t] = age[t]
      BY <1>18, <2>2, <3>2
    <3> QED
      BY <3>1, <3>3 DEF IInv, FiresOnTime
  <2> QED
    BY <2>1, <2>2
<1> QED
  BY <1>16, <1>19, <1>20, <1>21, <1>22, <1>23 DEF IInv

(***************************************************************************)
(* The theorems.                                                           *)
(***************************************************************************)
LEMMA InitIInv ==
  Init => IInv
<1> SUFFICES ASSUME Init
             PROVE  IInv
  OBVIOUS
<1>1. /\ SlotCount \in Nat /\ SlotCount > 1 /\ MaxBatch \in Nat /\ InSlots = {}
  BY WheelAssumption DEF Init, InSlots
<1>2. TypeOK
  <2>1. 0 \in 0 .. SlotCount - 1 /\ 0 \in 0..MaxBatch
    BY <1>1
  <2>2. slots \in [Slots -> SUBSET Tasks]
    BY DEF Init
  <2>3. indexs \in [Layers -> 0 .. SlotCount - 1]
    BY <2>1 DEF Init
  <2>4. crashed \in BOOLEAN
    BY DEF Init
  <2>5. delay \in [Tasks -> Delays \cup {0}]
    BY DEF Init
  <2>6. adds \subseteq Tasks /\ todo \in 0..MaxBatch
    BY <2>1 DEF Init
  <2>7. /\ tick \in [Tasks -> Nat] /\ begin \in [Tasks -> Nat]
        /\ age \in [Tasks -> Nat] /\ fired \in [Tasks -> Nat]
    BY DEF Init
  <2> QED
    BY <2>2, <2>3, <2>4, <2>5, <2>6, <2>7 DEF TypeOK
<1>3. TaskInOnePlace
  BY <1>1 DEF Init, TaskInOnePlace
<1>4. Scheduled /\ Waiting /\ Early /\ FiresOnTime
  BY <1>1 DEF Init, Scheduled, Waiting, Early, FiresOnTime, Slots
<1> QED
  BY <1>2, <1>3, <1>4 DEF IInv

\* For every wheel, whatever is added and however many ticks pass at once.
THEOREM Inductive == Spec => []IInv
<1>1. Init => IInv
  BY InitIInv
<1>2. IInv /\ [Next]_vars => IInv'
  <2> SUFFICES ASSUME IInv, [Next]_vars
               PROVE  IInv'
    OBVIOUS
  <2>1. CASE UNCHANGED vars
    <3>1. InSlots' = InSlots
      BY <2>1 DEF vars, InSlots
    <3> QED
      BY <2>1, <3>1 DEF vars, IInv, TypeOK, TaskInOnePlace, Scheduled, Waiting, Early,
                        FiresOnTime
  <2>2. ASSUME NEW t \in Tasks, NEW d \in Delays, AddTask(t, d)
        PROVE  IInv'
    BY <2>2, AddTaskKeeps
  <2>3. CASE TickThread
    BY <2>3, CollectStep, AdvanceStep DEF TickThread
  <2> QED
    BY <2>1, <2>2, <2>3 DEF Next
<1> QED
  BY <1>1, <1>2, PTL DEF Spec

\* The indices stay within the layers, and what is left of a delay is a number
\* of ticks.
THEOREM TypeCorrect == Spec => []TypeOK
<1>1. IInv => TypeOK
  BY DEF IInv
<1> QED
  BY <1>1, Inductive, PTL

\* A task is in adds_, in one slot, or fired, once: the hand-over from adds_
\* and the cascade neither copy a task nor fire it again.
THEOREM TaskInOnePlaceHolds == Spec => []TaskInOnePlace
<1>1. IInv => TaskInOnePlace
  BY DEF IInv
<1> QED
  BY <1>1, Inductive, PTL

\* The callback gets a task after its delay, less what the layers below the
\* one it was put in had gone in their turn.
THEOREM FiresOnTimeHolds == Spec => []FiresOnTime
<1>1. IInv => FiresOnTime
  BY DEF IInv
<1> QED
  BY <1>1, Inductive, PTL
=============================================================================
