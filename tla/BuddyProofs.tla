---------------------------- MODULE BuddyProofs ----------------------------
(***************************************************************************)
(* Theorems about the page allocator.                                      *)
(***************************************************************************)
EXTENDS Buddy, ListLemmas, FiniteSetTheorems, TLAPS

(* Sizes are positive. *)
LEMMA SizePositive == \A o \in 0 .. Widest : Size[o] \in Nat /\ Size[o] > 0
<1>1. Widest \in Nat /\ Size[0] = 1
  BY BuddyAssumption
<1>2. \A o \in 0 .. Widest : Size[o] \in Nat
  BY BuddyAssumption
<1>3. \A o \in 0 .. Widest - 1 : Size[o + 1] = 2 * Size[o]
  BY BuddyAssumption
<1> DEFINE T == {o \in 0 .. Widest : Size[o] = 0}
<1>4. T = {}
  <2>1. SUFFICES ASSUME T # {} PROVE FALSE
    OBVIOUS
  <2>2. T \in SUBSET Nat
    BY <1>1
  <2>3. PICK x \in T : \A y \in T : x <= y
    BY <2>1, <2>2, LeastElement
  <2>4. x \in 0 .. Widest /\ Size[x] = 0 /\ x # 0
    BY <1>1, <2>3
  <2>5. x - 1 \in 0 .. Widest - 1 /\ x - 1 \in 0 .. Widest /\ (x - 1) + 1 = x
    BY <1>1, <2>4
  <2>6. Size[x] = 2 * Size[x - 1]
    BY <1>3, <2>5
  <2>7. Size[x - 1] # 0
    BY <2>3, <2>5
  <2> QED
    BY <1>2, <2>4, <2>5, <2>6, <2>7
<1> QED
  BY <1>2, <1>4

(* Each order is at least twice as large as any below. *)
LEMMA SizeGrows ==
  ASSUME NEW o \in 0 .. Widest, NEW p \in 0 .. Widest, o < p
  PROVE  2 * Size[o] <= Size[p]
<1>1. Widest \in Nat /\ o \in Nat /\ p \in Nat
  BY BuddyAssumption
<1>2. \A i \in 0 .. Widest : Size[i] \in Nat /\ Size[i] > 0
  BY SizePositive
<1>3. \A i \in 0 .. Widest - 1 : Size[i + 1] = 2 * Size[i]
  BY BuddyAssumption
<1> DEFINE T == {i \in o + 1 .. Widest : ~ (2 * Size[o] <= Size[i])}
<1>4. T = {}
  <2>1. SUFFICES ASSUME T # {} PROVE FALSE
    OBVIOUS
  <2>2. T \in SUBSET Nat
    BY <1>1
  <2>3. PICK x \in T : \A y \in T : x <= y
    BY <2>1, <2>2, LeastElement
  <2>4. x \in o + 1 .. Widest /\ ~ (2 * Size[o] <= Size[x])
    BY <2>3
  <2>5. x - 1 \in 0 .. Widest - 1 /\ x - 1 \in 0 .. Widest /\ (x - 1) + 1 = x
    BY <1>1, <2>4
  <2>6. Size[x] = 2 * Size[x - 1]
    BY <1>3, <2>5
  <2>7. CASE x - 1 = o
    BY <1>2, <2>4, <2>6, <2>7
  <2>8. CASE x - 1 # o
    <3>1. x - 1 \in o + 1 .. Widest /\ x - 1 \notin T
      BY <1>1, <2>3, <2>4, <2>8
    <3>2. 2 * Size[o] <= Size[x - 1]
      BY <3>1
    <3> QED
      BY <1>2, <2>4, <2>5, <2>6, <3>2
  <2> QED
    BY <2>7, <2>8
<1> QED
  BY <1>1, <1>4

(* There is a highest order. *)
LEMMA TopFacts ==
  /\ TopOrder \in 0 .. Widest - 1
  /\ Size[TopOrder] <= PageCnt
  /\ PageCnt < Size[TopOrder + 1]
<1>1. Widest \in Nat /\ PageCnt \in 2 .. Size[Widest] - 1
  BY BuddyAssumption
<1>2. \A i \in 0 .. Widest : Size[i] \in Nat /\ Size[i] > 0
  BY SizePositive
<1> DEFINE T == {i \in 0 .. Widest : PageCnt < Size[i]}
<1>3. T # {} /\ T \in SUBSET Nat
  <2>1. Widest \in 0 .. Widest /\ Size[Widest] \in Nat
    BY <1>1, <1>2
  <2>2. Widest \in T
    BY <1>1, <2>1
  <2> QED
    BY <2>2
<1>4. PICK x \in T : \A y \in T : x <= y
  BY <1>3, LeastElement
<1>5. x \in 0 .. Widest /\ PageCnt < Size[x]
  BY <1>4
<1>6. x # 0
  BY <1>1, <1>5, BuddyAssumption
<1>7. x - 1 \in 0 .. Widest - 1 /\ x - 1 \in 0 .. Widest /\ (x - 1) + 1 = x
  BY <1>1, <1>5, <1>6
<1>8. x - 1 \notin T
  BY <1>4, <1>7
<1>9. Size[x - 1] <= PageCnt
  BY <1>1, <1>2, <1>7, <1>8
<1>10. \E k \in 0 .. Widest - 1 : Size[k] <= PageCnt /\ PageCnt < Size[k + 1]
  BY <1>5, <1>7, <1>9
<1> QED
  BY <1>10 DEF TopOrder

(* What the orders of the zone are, and their sizes. *)
LEMMA OrderFacts ==
  /\ TopOrder \in Nat /\ Size[TopOrder] \in Nat /\ Size[TopOrder] > 0
  /\ \A o \in Orders : o \in Nat /\ o <= TopOrder /\ o \in 0 .. Widest
  /\ \A o \in Orders : Size[o] \in Nat /\ Size[o] > 0
  /\ \A o \in Orders : o < TopOrder => o + 1 \in Orders /\ Size[o + 1] = 2 * Size[o]
<1>1. Widest \in Nat /\ TopOrder \in 0 .. Widest - 1
  BY BuddyAssumption, TopFacts
<1>2. \A i \in 0 .. Widest : Size[i] \in Nat /\ Size[i] > 0
  BY SizePositive
<1>3. \A o \in 0 .. Widest - 1 : Size[o + 1] = 2 * Size[o]
  BY BuddyAssumption
<1>4. TopOrder \in Nat /\ TopOrder \in 0 .. Widest
  BY <1>1
<1>5. \A o \in Orders : o \in Nat /\ o <= TopOrder /\ o \in 0 .. Widest
  BY <1>1 DEF Orders
<1>6. \A o \in Orders : Size[o] \in Nat /\ Size[o] > 0
  BY <1>2, <1>5
<1>7. ASSUME NEW o \in Orders, o < TopOrder
      PROVE  o + 1 \in Orders /\ Size[o + 1] = 2 * Size[o]
  <2>1. o + 1 \in Orders /\ o \in 0 .. Widest - 1
    BY <1>1, <1>7 DEF Orders
  <2> QED
    BY <1>3, <2>1
<1> QED
  BY <1>2, <1>4, <1>5, <1>6, <1>7

-----------------------------------------------------------------------------
(* The halves of a block of twice the size. *)
LEMMA Halves ==
  ASSUME NEW i \in Nat, NEW s \in Nat, s > 0
  PROVE  \/ /\ i % s = i % (2 * s)
            /\ (i \div s) % 2 = 0
         \/ /\ i % s = (i % (2 * s)) - s
            /\ (i \div s) % 2 = 1
<1> DEFINE q == i \div (2 * s)
           r == i % (2 * s)
<1>1. 2 * s \in Nat /\ 2 * s > 0
  OBVIOUS
<1>2. q \in Nat
  BY <1>1, Division
<1>3. r \in Nat
  BY <1>1, Division
<1>4. r < 2 * s
  BY <1>1, Division
<1>5. i = (2 * s) * q + r
  BY <1>1, Division
<1> HIDE DEF q, r
<1>6. 2 * q \in Nat /\ (2 * s) * q = s * (2 * q) /\ s * (2 * q + 1) = s * (2 * q) + s
      /\ s * (2 * q) \in Nat
  BY <1>2
<1>7. CASE r < s
  <2>1. i = s * (2 * q) + r
    BY <1>5, <1>6
  <2>2. i \div s = 2 * q
    BY <1>3, <1>6, <1>7, <2>1, Quotient
  <2>3. i % s = r
    BY <1>3, <1>6, <1>7, <2>1, Quotient
  <2>4. (2 * q) % 2 = 0
    BY <1>2
  <2> QED
    BY <2>2, <2>3, <2>4 DEF r
<1>8. CASE ~ (r < s)
  <2>1. r - s \in Nat /\ r - s < s /\ 2 * q + 1 \in Nat
    BY <1>2, <1>3, <1>4, <1>8
  <2>2. i = s * (2 * q + 1) + (r - s)
    BY <1>3, <1>5, <1>6
  <2>3. i \div s = 2 * q + 1
    BY <2>1, <2>2, Quotient
  <2>4. i % s = r - s
    BY <2>1, <2>2, Quotient
  <2>5. (2 * q + 1) % 2 = 1
    BY <1>2
  <2> QED
    BY <2>3, <2>4, <2>5 DEF r
<1> QED
  BY <1>7, <1>8

-----------------------------------------------------------------------------
(* The blocks of an order partition the pages. *)
LEMMA BlockFacts ==
  ASSUME NEW p \in Pages, NEW o \in Orders
  PROVE  /\ BlockOf(p, o) \in Pages
         /\ BlockOf(p, o) <= p /\ p < BlockOf(p, o) + Size[o]
         /\ BlockOf(p, o) % Size[o] = 0
         /\ BlockOf(p, o) = Size[o] * (p \div Size[o])
         /\ BlockOf(p, o) \div Size[o] = p \div Size[o]
<1>1. Size[TopOrder] \in Nat /\ Size[o] \in Nat /\ Size[o] > 0
  BY OrderFacts
<1>2. p \in Nat /\ p < Size[TopOrder]
  BY <1>1 DEF Pages
<1> DEFINE s == Size[o]
           q == p \div s
           r == p % s
<1> HIDE DEF s
<1>3. s \in Nat /\ s > 0
  BY <1>1 DEF s
<1>4. q \in Nat
  BY <1>2, <1>3, Division
<1>5. r \in Nat
  BY <1>2, <1>3, Division
<1>6. r < s
  BY <1>2, <1>3, Division
<1>7. p = s * q + r
  BY <1>2, <1>3, Division
<1> HIDE DEF q, r
<1>8. s * q \in Nat
  BY <1>3, <1>4
<1>9. BlockOf(p, o) = p - r
  BY DEF BlockOf, r, s
<1>10. BlockOf(p, o) = s * q
  BY <1>5, <1>7, <1>8, <1>9
<1>11. BlockOf(p, o) \in Pages /\ BlockOf(p, o) <= p /\ p < BlockOf(p, o) + s
  BY <1>1, <1>2, <1>3, <1>5, <1>6, <1>7, <1>8, <1>10 DEF Pages
<1>12. s * q = s * q + 0 /\ 0 \in Nat /\ 0 < s
  BY <1>3, <1>8
<1>13. (s * q) % s = 0
  BY <1>3, <1>4, <1>12, Quotient
<1>14. (s * q) \div s = q
  BY <1>3, <1>4, <1>12, Quotient
<1> QED
  BY <1>10, <1>11, <1>13, <1>14 DEF s, q

(* A page is in one block of an order. *)
LEMMA InBlock ==
  ASSUME NEW b \in Pages, NEW p \in Pages, NEW o \in Orders,
         b % Size[o] = 0, b <= p, p < b + Size[o]
  PROVE  BlockOf(p, o) = b
<1> DEFINE s == Size[o]
           q == b \div s
           r == p - b
<1>1. Size[TopOrder] \in Nat /\ s \in Nat /\ s > 0
  BY OrderFacts
<1> HIDE DEF s
<1>2. b \in Nat /\ p \in Nat
  BY <1>1 DEF Pages
<1>3. q \in Nat
  BY <1>1, <1>2, Division
<1>4. b = s * q + (b % s)
  BY <1>1, <1>2, Division
<1>5. b % s = 0
  BY DEF s
<1> HIDE DEF q
<1>6. s * q \in Nat
  BY <1>1, <1>3
<1>7. b = s * q
  BY <1>4, <1>5, <1>6
<1>8. r \in Nat /\ r < s /\ p = s * q + r
  BY <1>1, <1>2, <1>7 DEF s
<1>9. (s * q + r) % s = r
  BY <1>1, <1>3, <1>8, Quotient
<1>10. p % s = r
  BY <1>8, <1>9
<1> QED
  BY <1>2, <1>10 DEF BlockOf, s

(* A block is in the block of its first page. *)
LEMMA BlockOfBlock ==
  ASSUME NEW p \in Pages, NEW o \in Orders
  PROVE  BlockOf(BlockOf(p, o), o) = BlockOf(p, o)
<1> DEFINE b == BlockOf(p, o)
<1>1. b \in Pages
  BY BlockFacts
<1>2. b % Size[o] = 0
  BY BlockFacts
<1>3. Size[TopOrder] \in Nat /\ Size[o] \in Nat /\ Size[o] > 0
  BY OrderFacts
<1>4. b <= b /\ b < b + Size[o]
  BY <1>1, <1>3 DEF Pages
<1> HIDE DEF b
<1>5. BlockOf(b, o) = b
  BY <1>1, <1>2, <1>4, InBlock
<1> QED
  BY <1>5 DEF b

(* The buddy of the block of an order that holds a page. *)
Sib(p, o) == BuddyOf(BlockOf(p, o), o)

(* A block and its buddy are the halves of a block of the next order. *)
LEMMA PairFacts ==
  ASSUME NEW p \in Pages, NEW o \in Orders, o < TopOrder
  PROVE  LET u == BlockOf(p, o + 1)
         IN  /\ u \in Pages
             /\ \/ BlockOf(p, o) = u /\ Sib(p, o) = u + Size[o]
                \/ BlockOf(p, o) = u + Size[o] /\ Sib(p, o) = u
<1> DEFINE s == Size[o]
           b == BlockOf(p, o)
           u == BlockOf(p, o + 1)
<1>1. o + 1 \in Orders /\ Size[o + 1] = 2 * s /\ s \in Nat /\ s > 0
  BY OrderFacts
<1>2. Size[TopOrder] \in Nat
  BY OrderFacts
<1>3. p \in Nat /\ b \in Nat
  <2>1. b \in Pages
    BY BlockFacts
  <2> QED
    BY <1>2, <2>1 DEF Pages
<1>4. b = p - (p % s)
  BY DEF BlockOf
<1>5. u = p - (p % (2 * s))
  BY <1>1 DEF BlockOf
<1>6. b \div s = p \div s
  BY BlockFacts
<1>7. Sib(p, o) = IF (b \div s) % 2 = 0 THEN b + s ELSE b - s
  BY DEF Sib, BuddyOf
<1>8. u \in Pages
  BY <1>1, BlockFacts
<1>9. u \in Nat
  BY <1>2, <1>8 DEF Pages
<1> HIDE DEF s
<1>10. p % s \in Nat
  BY <1>1, <1>3, Division
<1>11. 2 * s \in Nat /\ 2 * s > 0
  BY <1>1
<1>12. p % (2 * s) \in Nat
  BY <1>3, <1>11, Division
<1>13. \/ p % s = p % (2 * s) /\ (p \div s) % 2 = 0
       \/ p % s = (p % (2 * s)) - s /\ (p \div s) % 2 = 1
  BY <1>1, <1>3, Halves
<1> HIDE DEF b, u
<1>14. CASE p % s = p % (2 * s) /\ (p \div s) % 2 = 0
  <2>1. b = u
    BY <1>4, <1>5, <1>14
  <2>2. Sib(p, o) = u + s
    BY <1>6, <1>7, <1>14, <2>1
  <2> QED
    BY <1>8, <2>1, <2>2 DEF s, b, u
<1>15. CASE p % s = (p % (2 * s)) - s /\ (p \div s) % 2 = 1
  <2>1. b = u + s
    BY <1>1, <1>3, <1>4, <1>5, <1>10, <1>12, <1>15
  <2>2. Sib(p, o) = b - s
    BY <1>6, <1>7, <1>15
  <2>3. Sib(p, o) = u
    BY <1>9, <1>1, <2>1, <2>2
  <2> QED
    BY <1>8, <2>1, <2>3 DEF s, b, u
<1> QED
  BY <1>13, <1>14, <1>15

(* A block lies in the zone. *)
LEMMA BlockEnd ==
  ASSUME NEW p \in Pages, NEW o \in Orders
  PROVE  BlockOf(p, o) + Size[o] <= Size[TopOrder]
<1>1. TopOrder \in Nat /\ Size[TopOrder] \in Nat
  BY OrderFacts
<1>2. \A x \in Orders : Size[x] \in Nat /\ x \in Nat /\ x <= TopOrder
  BY OrderFacts
<1>3. \A x \in Orders : BlockOf(p, x) \in Nat /\ BlockOf(p, x) <= p
  <2> SUFFICES ASSUME NEW x \in Orders PROVE BlockOf(p, x) \in Nat /\ BlockOf(p, x) <= p
    OBVIOUS
  <2>1. BlockOf(p, x) \in Pages /\ BlockOf(p, x) <= p
    BY BlockFacts
  <2> QED
    BY <1>1, <2>1 DEF Pages
<1> DEFINE E(x) == BlockOf(p, x) + Size[x]
           T == {x \in Orders : x >= o /\ ~ (E(o) <= E(x))}
<1>4. T = {}
  <2>1. SUFFICES ASSUME T # {} PROVE FALSE
    OBVIOUS
  <2>2. T \in SUBSET Nat
    BY <1>2
  <2>3. PICK x \in T : \A y \in T : x <= y
    BY <2>1, <2>2, LeastElement
  <2>4. x \in Orders /\ x > o
    BY <1>2, <1>3, <2>3
  <2>5. x - 1 \in Orders /\ x - 1 < TopOrder /\ (x - 1) + 1 = x /\ x - 1 >= o
    BY <1>1, <1>2, <2>4 DEF Orders
  <2>6. E(o) <= E(x - 1)
    BY <1>2, <2>3, <2>5
  <2>7. Size[x] = 2 * Size[x - 1]
    BY <2>5, OrderFacts
  <2>8. \/ BlockOf(p, x - 1) = BlockOf(p, (x - 1) + 1)
        \/ BlockOf(p, x - 1) = BlockOf(p, (x - 1) + 1) + Size[x - 1]
    BY <2>5, PairFacts
  <2>9. BlockOf(p, x - 1) = BlockOf(p, x) \/ BlockOf(p, x - 1) = BlockOf(p, x) + Size[x - 1]
    BY <2>5, <2>8
  <2>10. E(x - 1) <= E(x)
    BY <1>2, <1>3, <2>4, <2>5, <2>7, <2>9
  <2>11. E(o) <= E(x)
    BY <1>2, <1>3, <2>4, <2>5, <2>6, <2>10
  <2> QED
    BY <2>3, <2>11
<1>5. TopOrder \in Orders /\ TopOrder >= o
  BY <1>1, <1>2 DEF Orders
<1>6. E(o) <= E(TopOrder)
  BY <1>4, <1>5
<1>7. BlockOf(p, TopOrder) = 0
  <2>1. Size[TopOrder] > 0 /\ p \in Nat /\ p < Size[TopOrder]
    BY <1>1, OrderFacts DEF Pages
  <2>2. 0 \in Pages
    BY <1>1, <2>1 DEF Pages
  <2>3. p = Size[TopOrder] * 0 + p /\ 0 \in Nat
    BY <1>1, <2>1
  <2>4. (Size[TopOrder] * 0 + p) % Size[TopOrder] = p
    BY <1>1, <2>1, <2>3, Quotient
  <2> QED
    BY <2>1, <2>3, <2>4 DEF BlockOf
<1> QED
  BY <1>1, <1>2, <1>3, <1>6, <1>7

(* The zone is the block of the highest order. *)
LEMMA TopBlock ==
  ASSUME NEW p \in Pages
  PROVE  BlockOf(p, TopOrder) = 0
<1>1. TopOrder \in Orders /\ Size[TopOrder] \in Nat
  BY OrderFacts DEF Orders
<1>2. BlockOf(p, TopOrder) + Size[TopOrder] <= Size[TopOrder]
  BY <1>1, BlockEnd
<1>3. BlockOf(p, TopOrder) \in Pages
  BY <1>1, BlockFacts
<1> QED
  BY <1>1, <1>2, <1>3 DEF Pages

(* The halves of a block are in it, and they are two. *)
LEMMA SibFacts ==
  ASSUME NEW p \in Pages, NEW o \in Orders, o < TopOrder
  PROVE  /\ Sib(p, o) \in Pages
         /\ Sib(p, o) # BlockOf(p, o)
         /\ BlockOf(Sib(p, o), o) = Sib(p, o)
         /\ Sib(p, o) % Size[o] = 0
         /\ BlockOf(Sib(p, o), o + 1) = BlockOf(p, o + 1)
         /\ BlockOf(BlockOf(p, o), o + 1) = BlockOf(p, o + 1)
<1> DEFINE s == Size[o]
           b == BlockOf(p, o)
           u == BlockOf(p, o + 1)
           y == Sib(p, o)
<1>1. o + 1 \in Orders /\ Size[o + 1] = 2 * s /\ s \in Nat /\ s > 0
  BY OrderFacts
<1>2. Size[TopOrder] \in Nat
  BY OrderFacts
<1>3. u \in Pages
  BY <1>1, BlockFacts
<1>4. (b = u /\ y = u + s) \/ (b = u + s /\ y = u)
  BY PairFacts
<1>5. u + Size[o + 1] <= Size[TopOrder]
  BY <1>1, BlockEnd
<1>6. u \in Nat /\ u + s \in Pages
  BY <1>1, <1>2, <1>3, <1>5 DEF Pages
<1>7. u = Size[o + 1] * (p \div Size[o + 1]) /\ u % Size[o + 1] = 0
  <2>1. u = Size[o + 1] * (p \div Size[o + 1])
    BY <1>1, BlockFacts
  <2>2. u % Size[o + 1] = 0
    BY <1>1, BlockFacts
  <2> QED
    BY <2>1, <2>2
<1>8. u % s = 0 /\ (u + s) % s = 0
  <2>1. p \in Nat /\ 2 * s \in Nat /\ 2 * s > 0
    BY <1>1, <1>2 DEF Pages
  <2> DEFINE q == p \div Size[o + 1]
  <2>2. q \in Nat
    BY <1>1, <2>1, Division
  <2>3. u = (2 * s) * q
    BY <1>1, <1>7
  <2> HIDE DEF q, s, u
  <2>4. 2 * q \in Nat /\ 2 * q + 1 \in Nat /\ 0 \in Nat /\ 0 < s
    BY <1>1, <2>2
  <2>5. u = s * (2 * q) + 0 /\ u + s = s * (2 * q + 1) + 0
    BY <1>1, <2>2, <2>3
  <2>6. (s * (2 * q) + 0) % s = 0
    BY <1>1, <2>4, Quotient
  <2>7. (s * (2 * q + 1) + 0) % s = 0
    BY <1>1, <2>4, Quotient
  <2> QED
    BY <2>5, <2>6, <2>7
<1> HIDE DEF s, b, u, y
<1>9. y \in Pages /\ y # b /\ y % s = 0 /\ b \in Pages
  BY <1>1, <1>3, <1>4, <1>6, <1>8
<1>10. BlockOf(y, o) = y
  <2>1. y <= y /\ y < y + Size[o]
    BY <1>1, <1>2, <1>9 DEF s, Pages
  <2> QED
    BY <1>9, <2>1, InBlock DEF s
<1>11. BlockOf(y, o + 1) = u
  <2>1. u <= y /\ y < u + Size[o + 1]
    BY <1>1, <1>4, <1>6 DEF s
  <2> QED
    BY <1>1, <1>3, <1>7, <1>9, <2>1, InBlock
<1>12. BlockOf(b, o + 1) = u
  <2>1. u <= b /\ b < u + Size[o + 1]
    BY <1>1, <1>4, <1>6 DEF s
  <2> QED
    BY <1>1, <1>3, <1>7, <1>9, <2>1, InBlock
<1> QED
  BY <1>9, <1>10, <1>11, <1>12 DEF s, b, u, y

(* Pages of one block are in one block of every higher order. *)
LEMMA Nested ==
  ASSUME NEW p \in Pages, NEW q \in Pages, NEW o \in Orders, NEW x \in Orders,
         o <= x, BlockOf(p, o) = BlockOf(q, o)
  PROVE  BlockOf(p, x) = BlockOf(q, x)
<1>1. TopOrder \in Nat /\ \A y \in Orders : y \in Nat /\ y <= TopOrder
  BY OrderFacts
<1> DEFINE T == {y \in Orders : y >= o /\ BlockOf(p, y) # BlockOf(q, y)}
<1>2. T = {}
  <2>1. SUFFICES ASSUME T # {} PROVE FALSE
    OBVIOUS
  <2>2. T \in SUBSET Nat
    BY <1>1
  <2>3. PICK y \in T : \A z \in T : y <= z
    BY <2>1, <2>2, LeastElement
  <2>4. y \in Orders /\ y > o
    BY <1>1, <2>3
  <2>5. y - 1 \in Orders /\ y - 1 < TopOrder /\ (y - 1) + 1 = y /\ y - 1 >= o
    BY <1>1, <2>4 DEF Orders
  <2>6. BlockOf(p, y - 1) = BlockOf(q, y - 1)
    BY <1>1, <2>3, <2>5
  <2>7. BlockOf(BlockOf(p, y - 1), (y - 1) + 1) = BlockOf(p, (y - 1) + 1)
    BY <2>5, SibFacts
  <2>8. BlockOf(BlockOf(q, y - 1), (y - 1) + 1) = BlockOf(q, (y - 1) + 1)
    BY <2>5, SibFacts
  <2> QED
    BY <2>3, <2>5, <2>6, <2>7, <2>8
<1> QED
  BY <1>1, <1>2

(* Of a block there are only these two halves. *)
LEMMA HalfOf ==
  ASSUME NEW p \in Pages, NEW q \in Pages, NEW o \in Orders, o < TopOrder,
         BlockOf(p, o + 1) = BlockOf(q, o + 1)
  PROVE  BlockOf(q, o) = BlockOf(p, o) \/ BlockOf(q, o) = Sib(p, o)
<1> DEFINE u == BlockOf(p, o + 1)
<1>1. \/ BlockOf(p, o) = u /\ Sib(p, o) = u + Size[o]
      \/ BlockOf(p, o) = u + Size[o] /\ Sib(p, o) = u
  BY PairFacts
<1>2. BlockOf(q, o) = u \/ BlockOf(q, o) = u + Size[o]
  BY PairFacts
<1> QED
  BY <1>1, <1>2

(* The buddy's buddy is the block. *)
LEMMA SibOfSib ==
  ASSUME NEW p \in Pages, NEW o \in Orders, o < TopOrder
  PROVE  /\ Sib(Sib(p, o), o) = BlockOf(p, o)
         /\ BuddyOf(Sib(p, o), o) = BlockOf(p, o)
<1> DEFINE y == Sib(p, o)
<1>1. y \in Pages
  BY SibFacts
<1>2. BlockOf(y, o) = y
  BY SibFacts
<1>3. y # BlockOf(p, o)
  BY SibFacts
<1>4. BlockOf(y, o + 1) = BlockOf(p, o + 1)
  BY SibFacts
<1> HIDE DEF y
<1>5. BlockOf(p, o) = BlockOf(y, o) \/ BlockOf(p, o) = Sib(y, o)
  BY <1>1, <1>4, HalfOf
<1>6. Sib(y, o) = BuddyOf(y, o)
  BY <1>2 DEF Sib
<1> QED
  BY <1>2, <1>3, <1>5, <1>6 DEF y

(* Two blocks share a bit if they are in one block of the next order. *)
LEMMA ParentBitFacts ==
  ASSUME NEW p \in Pages, NEW q \in Pages, NEW o \in Orders, o < TopOrder
  PROVE  /\ ParentBit(p, o) = ParentBit(q, o) <=> BlockOf(p, o + 1) = BlockOf(q, o + 1)
         /\ ParentBit(p, o) \in (Orders \ {0}) \X Pages
<1> DEFINE s == Size[o + 1]
<1>1. o + 1 \in Orders /\ s \in Nat /\ s > 0 /\ o \in Nat /\ Size[TopOrder] \in Nat
  BY OrderFacts
<1>2. BlockOf(p, o + 1) = s * (p \div s)
  BY <1>1, BlockFacts
<1>3. BlockOf(q, o + 1) = s * (q \div s)
  BY <1>1, BlockFacts
<1>4. p \in Nat /\ q \in Nat /\ p < Size[TopOrder]
  BY <1>1 DEF Pages
<1>5. ParentBit(p, o) = <<o + 1, p \div s>> /\ ParentBit(q, o) = <<o + 1, q \div s>>
  BY DEF ParentBit
<1>6. o + 1 \in Orders \ {0}
  BY <1>1
<1> HIDE DEF s
<1>7. p \div s \in Nat
  BY <1>1, <1>4, Division
<1>8. q \div s \in Nat
  BY <1>1, <1>4, Division
<1>9. p % s \in Nat
  BY <1>1, <1>4, Division
<1>10. p = s * (p \div s) + (p % s)
  BY <1>1, <1>4, Division
<1>11. 0 \in Nat /\ 0 < s
  BY <1>1
<1>12. s * (p \div s) = s * (q \div s) <=> p \div s = q \div s
  <2>1. ASSUME s * (p \div s) = s * (q \div s) PROVE p \div s = q \div s
    <3> DEFINE a == p \div s
               c == q \div s
    <3>1. a \in Nat /\ c \in Nat /\ s * a = s * c
      BY <1>7, <1>8, <2>1
    <3> HIDE DEF a, c
    <3>2. s * a + 0 = s * c + 0
      BY <3>1
    <3>3. a = c
      BY <1>1, <1>11, <3>1, <3>2, OneQuotient
    <3> QED
      BY <3>3 DEF a, c
  <2> QED
    BY <2>1
<1>13. p \div s <= p
  <2> DEFINE a == p \div s
             r == p % s
  <2>1. a \in Nat /\ r \in Nat /\ p = s * a + r
    BY <1>7, <1>9, <1>10
  <2> HIDE DEF a, r
  <2>2. s * a >= a
    BY <1>1, <2>1
  <2>3. a <= p
    BY <1>1, <2>1, <2>2
  <2> QED
    BY <2>3 DEF a
<1>14. p \div s \in Pages
  BY <1>1, <1>4, <1>7, <1>13 DEF Pages
<1> QED
  BY <1>2, <1>3, <1>5, <1>6, <1>12, <1>14

(* A block that is aligned to a large size is aligned to a smaller one. *)
LEMMA FirstPage ==
  ASSUME NEW p \in Pages, NEW o \in Orders, NEW x \in Orders,
         o <= x, BlockOf(p, x) = p
  PROVE  BlockOf(p, o) = p
<1> DEFINE b == BlockOf(p, o)
<1>1. b \in Pages
  BY BlockFacts
<1>2. b <= p
  BY BlockFacts
<1>3. BlockOf(b, o) = BlockOf(p, o)
  BY BlockOfBlock
<1> HIDE DEF b
<1>4. BlockOf(b, x) = BlockOf(p, x)
  BY <1>1, <1>3, Nested
<1>5. BlockOf(b, x) <= b
  BY <1>1, BlockFacts
<1>6. b \in Nat /\ p \in Nat
  <2>1. Size[TopOrder] \in Nat
    BY OrderFacts
  <2> QED
    BY <1>1, <2>1 DEF Pages
<1> QED
  BY <1>2, <1>4, <1>5, <1>6 DEF b

-----------------------------------------------------------------------------
(* Blocks, as their first page and their order. *)
Aligned(b) == b[1] % Size[b[2]] = 0
Covered(B) == UNION {Extent(b) : b \in B}

(* A set of blocks that covers every page once. *)
Tiles(B) ==
  /\ B \subseteq Pages \X Orders
  /\ \A b \in B : Aligned(b)
  /\ \A p \in Pages : \E b \in B : p \in Extent(b)
  /\ \A b, c \in B : \A p \in Pages : p \in Extent(b) /\ p \in Extent(c) => b = c

(* The block of an order that a page is in, and its buddies from one order *)
(* up to below another.                                                    *)
Whole(p, o) == <<BlockOf(p, o), o>>
Buddies(p, k, m) == {<<Sib(p, o), o>> : o \in k .. m - 1}

(* The pages of a block are those that are in it. *)
LEMMA ExtentFacts ==
  ASSUME NEW b \in Pages \X Orders, Aligned(b)
  PROVE  /\ Extent(b) \subseteq Pages
         /\ \A p \in Pages : p \in Extent(b) <=> BlockOf(p, b[2]) = b[1]
         /\ b[1] \in Extent(b)
         /\ BlockOf(b[1], b[2]) = b[1]
<1> DEFINE x == b[1]
           o == b[2]
<1>1. x \in Pages /\ o \in Orders /\ Extent(b) = x .. x + Size[o] - 1
  BY DEF Extent
<1>2. x % Size[o] = 0
  BY DEF Aligned
<1> HIDE DEF x, o
<1>3. Size[TopOrder] \in Nat /\ Size[o] \in Nat /\ Size[o] > 0
  BY <1>1, OrderFacts
<1>4. x \in Nat /\ x <= x /\ x < x + Size[o]
  BY <1>1, <1>3 DEF Pages
<1>5. BlockOf(x, o) = x
  BY <1>1, <1>2, <1>4, InBlock
<1>6. x + Size[o] <= Size[TopOrder]
  <2>1. BlockOf(x, o) + Size[o] <= Size[TopOrder]
    BY <1>1, BlockEnd
  <2> QED
    BY <1>5, <2>1
<1>7. Extent(b) \subseteq Pages
  BY <1>1, <1>3, <1>4, <1>6 DEF Pages
<1>8. ASSUME NEW p \in Pages
      PROVE  p \in Extent(b) <=> BlockOf(p, o) = x
  <2>1. p \in Nat
    BY <1>3 DEF Pages
  <2>2. ASSUME p \in Extent(b) PROVE BlockOf(p, o) = x
    <3>1. x <= p /\ p < x + Size[o]
      BY <1>1, <1>3, <1>4, <2>1, <2>2
    <3> QED
      BY <1>1, <1>2, <3>1, InBlock
  <2>3. ASSUME BlockOf(p, o) = x PROVE p \in Extent(b)
    <3>1. BlockOf(p, o) <= p /\ p < BlockOf(p, o) + Size[o]
      BY <1>1, BlockFacts
    <3> QED
      BY <1>1, <1>3, <1>4, <2>1, <2>3, <3>1
  <2> QED
    BY <2>2, <2>3
<1>9. x \in Extent(b)
  BY <1>1, <1>3, <1>4
<1> QED
  BY <1>5, <1>7, <1>8, <1>9 DEF x, o

(* Blocks of pages are blocks. *)
LEMMA WholeFacts ==
  ASSUME NEW p \in Pages, NEW o \in Orders
  PROVE  /\ Whole(p, o) \in Pages \X Orders
         /\ Aligned(Whole(p, o))
         /\ \A q \in Pages : q \in Extent(Whole(p, o)) <=> BlockOf(q, o) = BlockOf(p, o)
<1>1. BlockOf(p, o) \in Pages
  BY BlockFacts
<1>2. BlockOf(p, o) % Size[o] = 0
  BY BlockFacts
<1>3. Whole(p, o) \in Pages \X Orders /\ Aligned(Whole(p, o))
  BY <1>1, <1>2 DEF Whole, Aligned
<1>4. \A q \in Pages : q \in Extent(Whole(p, o)) <=> BlockOf(q, Whole(p, o)[2]) = Whole(p, o)[1]
  BY <1>3, ExtentFacts
<1>5. Whole(p, o)[2] = o /\ Whole(p, o)[1] = BlockOf(p, o)
  BY DEF Whole
<1> QED
  BY <1>3, <1>4, <1>5

LEMMA BuddyFacts ==
  ASSUME NEW p \in Pages, NEW o \in Orders, o < TopOrder
  PROVE  /\ <<Sib(p, o), o>> \in Pages \X Orders
         /\ Aligned(<<Sib(p, o), o>>)
         /\ \A q \in Pages :
              q \in Extent(<<Sib(p, o), o>>) <=>
                BlockOf(q, o + 1) = BlockOf(p, o + 1) /\ BlockOf(q, o) # BlockOf(p, o)
<1> DEFINE b == <<Sib(p, o), o>>
<1>1. Sib(p, o) \in Pages
  BY SibFacts
<1>2. Sib(p, o) % Size[o] = 0
  BY SibFacts
<1>3. b \in Pages \X Orders /\ Aligned(b) /\ b[1] = Sib(p, o) /\ b[2] = o
  BY <1>1, <1>2 DEF Aligned
<1> HIDE DEF b
<1>4. \A q \in Pages : q \in Extent(b) <=> BlockOf(q, b[2]) = b[1]
  BY <1>3, ExtentFacts
<1>5. Sib(p, o) # BlockOf(p, o)
  BY SibFacts
<1>6. BlockOf(Sib(p, o), o + 1) = BlockOf(p, o + 1)
  BY SibFacts
<1>7. ASSUME NEW q \in Pages
      PROVE  BlockOf(q, o) = Sib(p, o) <=>
               BlockOf(q, o + 1) = BlockOf(p, o + 1) /\ BlockOf(q, o) # BlockOf(p, o)
  <2>1. ASSUME BlockOf(q, o) = Sib(p, o) PROVE BlockOf(q, o + 1) = BlockOf(p, o + 1)
    <3>1. BlockOf(BlockOf(q, o), o + 1) = BlockOf(q, o + 1)
      BY SibFacts
    <3> QED
      BY <1>6, <2>1, <3>1
  <2>2. ASSUME BlockOf(q, o + 1) = BlockOf(p, o + 1), BlockOf(q, o) # BlockOf(p, o)
        PROVE  BlockOf(q, o) = Sib(p, o)
    BY <2>2, HalfOf
  <2> QED
    BY <1>5, <2>1, <2>2
<1> QED
  BY <1>3, <1>4, <1>7 DEF b

(* The block of a page and its buddies up to a larger block tile that one. *)
Chain(p, k, m) == Buddies(p, k, m) \union {Whole(p, k)}

LEMMA ChainTiles ==
  ASSUME NEW p \in Pages, NEW k \in Orders, NEW m \in Orders, k <= m
  PROVE  /\ Chain(p, k, m) \subseteq Pages \X Orders
         /\ \A b \in Chain(p, k, m) : Aligned(b)
         /\ \A b, c \in Chain(p, k, m) : \A q \in Pages :
              q \in Extent(b) /\ q \in Extent(c) => b = c
         /\ \A q \in Pages :
              q \in Extent(Whole(p, m)) <=> \E b \in Chain(p, k, m) : q \in Extent(b)
<1>1. TopOrder \in Nat /\ \A o \in Orders : o \in Nat /\ o <= TopOrder
  BY OrderFacts
<1>2. \A o \in k .. m - 1 : o \in Orders /\ o < TopOrder /\ o + 1 \in Orders
                             /\ o \in Nat /\ k <= o /\ o + 1 <= m
  BY <1>1 DEF Orders
<1>3. \A b \in Chain(p, k, m) :
        b = Whole(p, k) \/ \E o \in k .. m - 1 : b = <<Sib(p, o), o>>
  BY DEF Chain, Buddies
<1>4. ASSUME NEW b \in Chain(p, k, m) PROVE b \in Pages \X Orders /\ Aligned(b)
  <2>1. CASE b = Whole(p, k)
    BY <2>1, WholeFacts
  <2>2. ASSUME NEW o \in k .. m - 1, b = <<Sib(p, o), o>>
        PROVE  b \in Pages \X Orders /\ Aligned(b)
    <3>1. o \in Orders /\ o < TopOrder
      BY <1>2
    <3>2. <<Sib(p, o), o>> \in Pages \X Orders
      BY <3>1, BuddyFacts
    <3>3. Aligned(<<Sib(p, o), o>>)
      BY <3>1, BuddyFacts
    <3> QED
      BY <2>2, <3>2, <3>3
  <2> QED
    BY <1>3, <2>1, <2>2
<1>5. ASSUME NEW o \in k .. m - 1, NEW q \in Pages
      PROVE  q \in Extent(<<Sib(p, o), o>>) <=>
               BlockOf(q, o + 1) = BlockOf(p, o + 1) /\ BlockOf(q, o) # BlockOf(p, o)
  <2>1. o \in Orders /\ o < TopOrder
    BY <1>2
  <2> QED
    BY <2>1, BuddyFacts
<1>6. ASSUME NEW q \in Pages, NEW o \in Orders
      PROVE  q \in Extent(Whole(p, o)) <=> BlockOf(q, o) = BlockOf(p, o)
  BY WholeFacts
<1>7. ASSUME NEW q \in Pages, NEW o \in Orders, NEW x \in Orders, o <= x,
             BlockOf(q, o) = BlockOf(p, o)
      PROVE  BlockOf(q, x) = BlockOf(p, x)
  BY <1>7, Nested
<1>8. ASSUME NEW b \in Chain(p, k, m), NEW c \in Chain(p, k, m), NEW q \in Pages,
             q \in Extent(b), q \in Extent(c)
      PROVE  b = c
  <2>1. CASE b = Whole(p, k) /\ c = Whole(p, k)
    BY <2>1
  <2>2. ASSUME NEW o \in k .. m - 1, q \in Extent(Whole(p, k)),
               q \in Extent(<<Sib(p, o), o>>)
        PROVE  FALSE
    <3>1. BlockOf(q, o) # BlockOf(p, o)
      BY <1>5, <2>2
    <3>2. BlockOf(q, k) = BlockOf(p, k)
      BY <1>6, <2>2
    <3>3. o \in Orders /\ k <= o
      BY <1>2
    <3> QED
      BY <1>7, <3>1, <3>2, <3>3
  <2>3. ASSUME NEW o \in k .. m - 1, NEW x \in k .. m - 1, o < x,
               q \in Extent(<<Sib(p, o), o>>), q \in Extent(<<Sib(p, x), x>>)
        PROVE  FALSE
    <3>1. BlockOf(q, o + 1) = BlockOf(p, o + 1)
      BY <1>5, <2>3
    <3>2. BlockOf(q, x) # BlockOf(p, x)
      BY <1>5, <2>3
    <3>3. x \in Orders /\ o + 1 \in Orders /\ o \in Nat /\ x \in Nat
      BY <1>2
    <3>4. o + 1 <= x
      BY <2>3, <3>3
    <3> QED
      BY <1>7, <3>1, <3>2, <3>3, <3>4
  <2>4. ASSUME NEW o \in k .. m - 1, NEW x \in k .. m - 1,
               b = <<Sib(p, o), o>>, c = <<Sib(p, x), x>>
        PROVE  b = c
    <3>1. o \in Nat /\ x \in Nat
      BY <1>2
    <3>2. ~ (o < x)
      BY <1>8, <2>3, <2>4
    <3>3. ~ (x < o)
      BY <1>8, <2>3, <2>4
    <3>4. o = x
      BY <3>1, <3>2, <3>3
    <3> QED
      BY <2>4, <3>4
  <2> QED
    BY <1>3, <1>8, <2>1, <2>2, <2>4
<1>9. ASSUME NEW q \in Pages, NEW b \in Chain(p, k, m), q \in Extent(b)
      PROVE  q \in Extent(Whole(p, m))
  <2>1. CASE b = Whole(p, k)
    BY <1>6, <1>7, <1>9, <2>1
  <2>2. ASSUME NEW o \in k .. m - 1, b = <<Sib(p, o), o>>
        PROVE  q \in Extent(Whole(p, m))
    <3>1. BlockOf(q, o + 1) = BlockOf(p, o + 1)
      BY <1>5, <1>9, <2>2
    <3>2. o + 1 \in Orders /\ o + 1 <= m
      BY <1>2
    <3> QED
      BY <1>6, <1>7, <3>1, <3>2
  <2> QED
    BY <1>3, <2>1, <2>2
<1>10. ASSUME NEW q \in Pages, q \in Extent(Whole(p, m))
       PROVE  \E b \in Chain(p, k, m) : q \in Extent(b)
  <2> DEFINE T == {o \in k .. m : BlockOf(q, o) = BlockOf(p, o)}
  <2>1. m \in T /\ T \in SUBSET Nat
    BY <1>1, <1>6, <1>10
  <2>2. PICK o \in T : \A x \in T : o <= x
    BY <2>1, LeastElement
  <2>3. o \in k .. m /\ o \in Orders /\ BlockOf(q, o) = BlockOf(p, o)
    BY <1>1, <2>2 DEF Orders
  <2>4. CASE o = k
    <3>1. Whole(p, k) \in Chain(p, k, m)
      BY DEF Chain
    <3> QED
      BY <1>6, <2>3, <2>4, <3>1
  <2>5. CASE o # k
    <3>1. o - 1 \in k .. m - 1 /\ o - 1 \in k .. m /\ (o - 1) + 1 = o /\ ~ (o <= o - 1)
      BY <1>1, <2>3, <2>5
    <3>2. BlockOf(q, o - 1) # BlockOf(p, o - 1)
      BY <2>2, <3>1
    <3>3. q \in Extent(<<Sib(p, o - 1), o - 1>>)
      BY <1>5, <2>3, <3>1, <3>2
    <3>4. <<Sib(p, o - 1), o - 1>> \in Chain(p, k, m)
      BY <3>1 DEF Chain, Buddies
    <3> QED
      BY <3>3, <3>4
  <2> QED
    BY <2>4, <2>5
<1> QED
  BY <1>4, <1>8, <1>9, <1>10

(* Blocks can be replaced by others that cover the same pages. *)
LEMMA Replace ==
  ASSUME NEW B, NEW X, NEW Y, Tiles(B), X \subseteq B,
         Y \subseteq Pages \X Orders, \A b \in Y : Aligned(b),
         \A b, c \in Y : \A q \in Pages : q \in Extent(b) /\ q \in Extent(c) => b = c,
         \A q \in Pages : (\E b \in X : q \in Extent(b)) <=> (\E b \in Y : q \in Extent(b))
  PROVE  Tiles((B \ X) \union Y)
<1> DEFINE N == (B \ X) \union Y
<1>1. B \subseteq Pages \X Orders
  BY DEF Tiles
<1>2. \A b \in B : Aligned(b)
  BY DEF Tiles
<1>3. \A q \in Pages : \E b \in B : q \in Extent(b)
  BY DEF Tiles
<1>4. \A b, c \in B : \A q \in Pages : q \in Extent(b) /\ q \in Extent(c) => b = c
  BY DEF Tiles
<1>5. N \subseteq Pages \X Orders /\ \A b \in N : Aligned(b)
  BY <1>1, <1>2
<1>6. ASSUME NEW q \in Pages PROVE \E b \in N : q \in Extent(b)
  <2>1. PICK b \in B : q \in Extent(b)
    BY <1>3
  <2>2. CASE b \in X
    BY <2>1, <2>2
  <2>3. CASE b \notin X
    BY <2>1, <2>3
  <2> QED
    BY <2>2, <2>3
<1>7. ASSUME NEW b \in B \ X, NEW c \in Y, NEW q \in Pages, q \in Extent(b), q \in Extent(c)
      PROVE  FALSE
  <2>1. PICK d \in X : q \in Extent(d)
    BY <1>7
  <2>2. b = d
    BY <1>4, <1>7, <2>1
  <2> QED
    BY <1>7, <2>1, <2>2
<1>8. ASSUME NEW b \in N, NEW c \in N, NEW q \in Pages, q \in Extent(b), q \in Extent(c)
      PROVE  b = c
  BY <1>4, <1>7, <1>8
<1> HIDE DEF N
<1>9. Tiles(N)
  BY <1>5, <1>6, <1>8 DEF Tiles
<1> QED
  BY <1>9 DEF N

-----------------------------------------------------------------------------
(* What is true of the free blocks F, the blocks O of callers and the bits *)
(* M that are set.                                                         *)
BitsRight(F, M) ==
  \A o \in Orders : \A p \in Pages :
    o < TopOrder =>
      (ParentBit(p, o) \in M
         <=> ~ (<<BlockOf(p, o), o>> \in F <=> <<Sib(p, o), o>> \in F))

NoPair(F) ==
  \A o \in Orders : \A p \in Pages :
    o < TopOrder => ~ (<<BlockOf(p, o), o>> \in F /\ <<Sib(p, o), o>> \in F)

Shape(F, O, M) ==
  /\ Tiles(F \union O)
  /\ F \intersect O = {}
  /\ BitsRight(F, M)
  /\ NoPair(F)

(* The bits that are toggled. *)
Bits(p, k, m) == {ParentBit(p, o) : o \in (k .. m) \ {TopOrder}}

(* Splitting a block down, and merging one up, change which blocks are     *)
(* free in one of each of the pairs of buddies whose bits are toggled.     *)
LEMMA BitsToggled ==
  ASSUME NEW F, NEW M, NEW p \in Pages, NEW k \in Orders, NEW m \in Orders, k <= m,
         NEW G, NEW L, BitsRight(F, M),
         \A b : b \in G <=> ~ (b \in F <=> b \in Buddies(p, k, m) \union {Whole(p, m)}),
         \A x : x \in L <=> ~ (x \in M <=> x \in Bits(p, k, m))
  PROVE  BitsRight(G, L)
<1> DEFINE C == Buddies(p, k, m) \union {Whole(p, m)}
<1>1. TopOrder \in Nat /\ \A o \in Orders : o \in Nat /\ o <= TopOrder
  BY OrderFacts
<1>2. SUFFICES ASSUME NEW o \in Orders, NEW q \in Pages, o < TopOrder
               PROVE  ParentBit(q, o) \in L
                        <=> ~ (<<BlockOf(q, o), o>> \in G <=> <<Sib(q, o), o>> \in G)
  BY DEF BitsRight
<1>3. ParentBit(q, o) \in M
        <=> ~ (<<BlockOf(q, o), o>> \in F <=> <<Sib(q, o), o>> \in F)
  BY <1>2 DEF BitsRight
<1> DEFINE same == o \in k .. m /\ BlockOf(q, o + 1) = BlockOf(p, o + 1)
<1>4. ParentBit(q, o) \in Bits(p, k, m) <=> same
  <2>1. ASSUME ParentBit(q, o) \in Bits(p, k, m) PROVE same
    <3>1. PICK x \in (k .. m) \ {TopOrder} : ParentBit(q, o) = ParentBit(p, x)
      BY <2>1 DEF Bits
    <3>2. x \in Int
      BY <1>1, <3>1
    <3>3. x = o
      BY <1>1, <3>1, <3>2 DEF ParentBit
    <3>4. BlockOf(q, o + 1) = BlockOf(p, o + 1)
      BY <1>2, <3>1, <3>3, ParentBitFacts
    <3> QED
      BY <3>1, <3>3, <3>4
  <2>2. ASSUME same PROVE ParentBit(q, o) \in Bits(p, k, m)
    <3>1. ParentBit(q, o) = ParentBit(p, o)
      BY <1>2, <2>2, ParentBitFacts
    <3>2. o \in (k .. m) \ {TopOrder}
      BY <1>1, <1>2, <2>2
    <3> QED
      BY <3>1, <3>2 DEF Bits
  <2> QED
    BY <2>1, <2>2
<1>5. ASSUME NEW x
      PROVE  <<x, o>> \in C <=>
               \/ o \in k .. m - 1 /\ x = Sib(p, o)
               \/ o = m /\ x = BlockOf(p, o)
  BY DEF Buddies, Whole
<1>6. Sib(p, o) # BlockOf(p, o) /\ Sib(q, o) # BlockOf(q, o)
  <2>1. Sib(p, o) # BlockOf(p, o)
    BY <1>2, SibFacts
  <2>2. Sib(q, o) # BlockOf(q, o)
    BY <1>2, SibFacts
  <2> QED
    BY <2>1, <2>2
<1>7. same <=> ~ (<<BlockOf(q, o), o>> \in C <=> <<Sib(q, o), o>> \in C)
  <2>1. CASE same
    <3>1. BlockOf(q, o) = BlockOf(p, o) \/ BlockOf(q, o) = Sib(p, o)
      BY <1>2, <2>1, HalfOf
    <3>2. BuddyOf(Sib(p, o), o) = BlockOf(p, o)
      BY <1>2, SibOfSib
    <3>3. \/ BlockOf(q, o) = BlockOf(p, o) /\ Sib(q, o) = Sib(p, o)
          \/ BlockOf(q, o) = Sib(p, o) /\ Sib(q, o) = BlockOf(p, o)
      BY <3>1, <3>2 DEF Sib
    <3>4. o = m \/ o \in k .. m - 1
      BY <1>1, <2>1
    <3>5. ~ (o = m /\ o \in k .. m - 1)
      BY <1>1
    <3> HIDE DEF C
    <3>6. CASE BlockOf(q, o) = BlockOf(p, o) /\ Sib(q, o) = Sib(p, o)
      BY <1>5, <1>6, <2>1, <3>4, <3>5, <3>6
    <3>7. CASE BlockOf(q, o) = Sib(p, o) /\ Sib(q, o) = BlockOf(p, o)
      BY <1>5, <1>6, <2>1, <3>4, <3>5, <3>7
    <3> QED
      BY <3>3, <3>6, <3>7
  <2>2. CASE ~ same
    <3>1. BlockOf(BlockOf(q, o), o + 1) = BlockOf(q, o + 1)
      BY <1>2, SibFacts
    <3>2. BlockOf(Sib(q, o), o + 1) = BlockOf(q, o + 1)
      BY <1>2, SibFacts
    <3>3. BlockOf(BlockOf(p, o), o + 1) = BlockOf(p, o + 1)
      BY <1>2, SibFacts
    <3>4. BlockOf(Sib(p, o), o + 1) = BlockOf(p, o + 1)
      BY <1>2, SibFacts
    <3>5. o = m \/ o \in k .. m - 1 => o \in k .. m
      BY <1>1
    <3> HIDE DEF C
    <3>6. <<BlockOf(q, o), o>> \notin C
      BY <1>5, <2>2, <3>1, <3>3, <3>4, <3>5
    <3>7. <<Sib(q, o), o>> \notin C
      BY <1>5, <2>2, <3>2, <3>3, <3>4, <3>5
    <3> QED
      BY <2>2, <3>6, <3>7
  <2> QED
    BY <2>1, <2>2
<1> HIDE DEF C, same
<1>8. <<BlockOf(q, o), o>> \in G <=> ~ (<<BlockOf(q, o), o>> \in F <=> <<BlockOf(q, o), o>> \in C)
  BY DEF C
<1>9. <<Sib(q, o), o>> \in G <=> ~ (<<Sib(q, o), o>> \in F <=> <<Sib(q, o), o>> \in C)
  BY DEF C
<1>10. ParentBit(q, o) \in L <=> ~ (ParentBit(q, o) \in M <=> ParentBit(q, o) \in Bits(p, k, m))
  OBVIOUS
<1> QED
  BY <1>3, <1>4, <1>7, <1>8, <1>9, <1>10

(* Tiles overlap only with themselves. *)
LEMMA Overlap ==
  ASSUME NEW B, Tiles(B), NEW b \in B, NEW c \in B, NEW p \in Pages,
         BlockOf(p, b[2]) = b[1], BlockOf(p, c[2]) = c[1]
  PROVE  b = c
<1>1. b \in Pages \X Orders /\ Aligned(b) /\ c \in Pages \X Orders /\ Aligned(c)
  BY DEF Tiles
<1>2. p \in Extent(b)
  BY <1>1, ExtentFacts
<1>3. p \in Extent(c)
  BY <1>1, ExtentFacts
<1> QED
  BY <1>2, <1>3 DEF Tiles

(* A block that is free: nobody owns it, and none of its parts is free. *)
Alone(F, O, p, k, m) ==
  /\ Whole(p, m) = <<p, m>> /\ Whole(p, k) = <<p, k>>
  /\ \A b \in Buddies(p, k, m) : b \notin F \union O
  /\ \A x \in Orders : <<p, x>> \notin O
  /\ \A x \in Orders : <<p, x>> \in F => x = m
  /\ <<p, k>> \notin Buddies(p, k, m)

LEMMA AllocApart ==
  ASSUME NEW F, NEW O, NEW M, Shape(F, O, M),
         NEW p \in Pages, NEW k \in Orders, NEW m \in Orders, k <= m,
         <<p, m>> \in F
  PROVE  Alone(F, O, p, k, m)
<1> DEFINE W == <<p, m>>
           D == Buddies(p, k, m)
<1>1. Tiles(F \union O) /\ F \intersect O = {}
  BY DEF Shape
<1>2. W \in Pages \X Orders /\ Aligned(W)
  BY <1>1 DEF Tiles
<1>3. BlockOf(p, m) = p
  BY <1>2, ExtentFacts
<1>4. BlockOf(p, k) = p
  BY <1>3, FirstPage
<1>5. Whole(p, m) = W /\ Whole(p, k) = <<p, k>>
  BY <1>3, <1>4 DEF Whole
<1>6. TopOrder \in Nat /\ \A o \in Orders : o \in Nat /\ o <= TopOrder
  BY OrderFacts
<1>7. \A o \in k .. m - 1 : o \in Orders /\ o < TopOrder /\ o < m /\ o <= m
  BY <1>6 DEF Orders
<1>8. ASSUME NEW b \in F \union O, NEW q \in Pages,
             BlockOf(q, b[2]) = b[1], BlockOf(q, m) = p
      PROVE  b = W
  BY <1>1, <1>8, Overlap
<1>9. ASSUME NEW b \in D PROVE b \notin F \union O
  <2>1. PICK o \in k .. m - 1 : b = <<Sib(p, o), o>>
    BY <1>9 DEF Buddies
  <2>2. o \in Orders /\ o < TopOrder /\ o < m /\ o + 1 \in Orders /\ o + 1 <= m
    BY <1>6, <1>7 DEF Orders
  <2>3. Sib(p, o) \in Pages
    BY <2>2, SibFacts
  <2>4. BlockOf(Sib(p, o), o) = Sib(p, o)
    BY <2>2, SibFacts
  <2>5. BlockOf(Sib(p, o), o + 1) = BlockOf(p, o + 1)
    BY <2>2, SibFacts
  <2>6. BlockOf(Sib(p, o), m) = BlockOf(p, m)
    BY <2>2, <2>3, <2>5, Nested
  <2>7. SUFFICES ASSUME b \in F \union O PROVE FALSE
    OBVIOUS
  <2>8. b = W
    BY <1>3, <1>8, <2>1, <2>3, <2>4, <2>6, <2>7
  <2> QED
    BY <1>6, <2>1, <2>2, <2>8
<1>10. ASSUME NEW x \in Orders PROVE <<p, x>> \notin O
  <2>1. SUFFICES ASSUME <<p, x>> \in O PROVE FALSE
    OBVIOUS
  <2>2. <<p, x>> \in Pages \X Orders /\ Aligned(<<p, x>>)
    BY <1>1, <2>1 DEF Tiles
  <2>3. BlockOf(p, x) = p
    BY <2>2, ExtentFacts
  <2>4. <<p, x>> = W
    BY <1>3, <1>8, <2>1, <2>3
  <2> QED
    BY <1>1, <2>1, <2>4
<1>11. ASSUME NEW x \in Orders, <<p, x>> \in F PROVE x = m
  <2>1. <<p, x>> \in Pages \X Orders /\ Aligned(<<p, x>>)
    BY <1>1, <1>11 DEF Tiles
  <2>2. BlockOf(p, x) = p
    BY <2>1, ExtentFacts
  <2>3. <<p, x>> = W
    BY <1>3, <1>8, <1>11, <2>2
  <2> QED
    BY <2>3
<1>12. <<p, k>> \notin D
  <2>1. SUFFICES ASSUME NEW o \in k .. m - 1, <<p, k>> = <<Sib(p, o), o>> PROVE FALSE
    BY DEF Buddies
  <2>2. o \in Orders /\ o < TopOrder /\ o = k /\ Sib(p, o) = p
    BY <1>7, <2>1
  <2>3. Sib(p, o) # BlockOf(p, o)
    BY <2>2, SibFacts
  <2> QED
    BY <1>4, <2>2, <2>3
<1> QED
  BY <1>5, <1>9, <1>10, <1>11, <1>12 DEF Alone

(* Taking a block of order m, splitting it down to order k. *)
LEMMA ShapeAlloc ==
  ASSUME NEW F, NEW O, NEW M, NEW L, Shape(F, O, M),
         NEW p \in Pages, NEW k \in Orders, NEW m \in Orders, k <= m,
         <<p, m>> \in F,
         \A x : x \in L <=> ~ (x \in M <=> x \in Bits(p, k, m))
  PROVE  Shape((F \ {<<p, m>>}) \union Buddies(p, k, m), O \union {<<p, k>>}, L)
<1> DEFINE W == <<p, m>>
           Y == Chain(p, k, m)
           D == Buddies(p, k, m)
           G == (F \ {W}) \union D
           P == O \union {<<p, k>>}
<1>1. Tiles(F \union O) /\ F \intersect O = {} /\ BitsRight(F, M) /\ NoPair(F)
  BY DEF Shape
<1>2. Alone(F, O, p, k, m)
  BY AllocApart
<1>3. Whole(p, m) = W /\ Whole(p, k) = <<p, k>>
  BY <1>2 DEF Alone
<1>4. BlockOf(p, m) = p
  BY <1>3 DEF Whole
<1>5. TopOrder \in Nat /\ \A o \in Orders : o \in Nat /\ o <= TopOrder
  BY OrderFacts
<1>6. \A o \in k .. m - 1 : o \in Orders /\ o < TopOrder /\ o < m /\ o <= m
  BY <1>5 DEF Orders
<1>7. \A b \in D : b \notin F \union O
  BY <1>2 DEF Alone
<1>8. \A x \in Orders : <<p, x>> \in F => x = m
  BY <1>2 DEF Alone
<1>9. <<p, k>> \notin D
  BY <1>2 DEF Alone
<1>10. Tiles(G \union P)
  <2>1. Y \subseteq Pages \X Orders
    BY ChainTiles
  <2>2. \A b \in Y : Aligned(b)
    BY ChainTiles
  <2>3. \A b, c \in Y : \A q \in Pages : q \in Extent(b) /\ q \in Extent(c) => b = c
    BY ChainTiles
  <2>4. \A q \in Pages : q \in Extent(Whole(p, m)) <=> \E b \in Y : q \in Extent(b)
    BY ChainTiles
  <2>5. \A q \in Pages : (\E b \in {W} : q \in Extent(b)) <=> \E b \in Y : q \in Extent(b)
    BY <1>3, <2>4
  <2>6. {W} \subseteq F \union O
    OBVIOUS
  <2> HIDE DEF Y
  <2>7. Tiles(((F \union O) \ {W}) \union Y)
    BY <1>1, <2>1, <2>2, <2>3, <2>5, <2>6, Replace
  <2>8. G \union P = ((F \union O) \ {W}) \union Y
    BY <1>1, <1>3 DEF Y, Chain
  <2> QED
    BY <2>7, <2>8
<1>11. G \intersect P = {}
  <2>1. <<p, k>> \notin F \ {W}
    BY <1>8
  <2> QED
    BY <1>1, <1>7, <1>9, <2>1
<1>12. BitsRight(G, L)
  <2>1. \A b : b \in G <=> ~ (b \in F <=> b \in Buddies(p, k, m) \union {Whole(p, m)})
    BY <1>3, <1>7
  <2> HIDE DEF G
  <2> QED
    BY <1>1, <2>1, BitsToggled
<1>13. NoPair(G)
  <2>1. SUFFICES ASSUME NEW o \in Orders, NEW q \in Pages, o < TopOrder,
                        <<BlockOf(q, o), o>> \in G, <<Sib(q, o), o>> \in G
                 PROVE  FALSE
    BY DEF NoPair
  <2>2. ~ (<<BlockOf(q, o), o>> \in F /\ <<Sib(q, o), o>> \in F)
    BY <1>1, <2>1 DEF NoPair
  <2>3. <<BlockOf(q, o), o>> \in D \/ <<Sib(q, o), o>> \in D
    BY <2>1, <2>2
  <2>4. o \in k .. m - 1 /\ (BlockOf(q, o) = Sib(p, o) \/ Sib(q, o) = Sib(p, o))
    BY <2>3 DEF Buddies
  <2>5. BuddyOf(Sib(p, o), o) = BlockOf(p, o)
    BY <2>1, SibOfSib
  <2>6. BuddyOf(Sib(q, o), o) = BlockOf(q, o)
    BY <2>1, SibOfSib
  <2>7. \/ BlockOf(q, o) = Sib(p, o) /\ Sib(q, o) = BlockOf(p, o)
        \/ Sib(q, o) = Sib(p, o) /\ BlockOf(q, o) = BlockOf(p, o)
    BY <2>4, <2>5, <2>6 DEF Sib
  <2>8. <<BlockOf(p, o), o>> \in G
    BY <2>1, <2>7
  <2>9. BlockOf(p, o) = p
    BY <1>4, <1>6, <2>4, FirstPage
  <2>10. <<p, o>> \notin F
    BY <1>5, <1>6, <1>8, <2>1, <2>4
  <2>11. <<p, o>> \in D
    BY <2>8, <2>9, <2>10
  <2>12. p = Sib(p, o)
    BY <2>11 DEF Buddies
  <2>13. Sib(p, o) # BlockOf(p, o)
    BY <2>1, SibFacts
  <2> QED
    BY <2>9, <2>12, <2>13
<1>14. Shape(G, P, L)
  BY <1>10, <1>11, <1>12, <1>13 DEF Shape
<1> QED
  BY <1>14

(* A block that is freed: the buddies its bits tell to merge with are free.*)
Mergeable(F, O, p, k, m) ==
  /\ Whole(p, k) = <<p, k>>
  /\ \A o \in Orders : <<BlockOf(p, o), o>> \in F \union O => <<BlockOf(p, o), o>> = <<p, k>>
  /\ \A o \in Orders : <<BlockOf(p, o), o>> \notin F
  /\ Buddies(p, k, m) \subseteq F
  /\ \A x \in Pages : \A o, y \in Orders : <<x, o>> \in F /\ <<x, y>> \in F => o = y

LEMMA FreeApart ==
  ASSUME NEW F, NEW O, NEW M, Shape(F, O, M),
         NEW p \in Pages, NEW k \in Orders, NEW m \in Orders, k <= m,
         <<p, k>> \in O,
         \A o \in k .. m - 1 : ParentBit(p, o) \in M
  PROVE  Mergeable(F, O, p, k, m)
<1> DEFINE W == Whole(p, m)
           B == <<p, k>>
           D == Buddies(p, k, m)
<1>1. Tiles(F \union O) /\ F \intersect O = {} /\ BitsRight(F, M) /\ NoPair(F)
  BY DEF Shape
<1>2. B \in Pages \X Orders /\ Aligned(B)
  BY <1>1 DEF Tiles
<1>3. BlockOf(p, k) = p
  BY <1>2, ExtentFacts
<1>4. Whole(p, k) = B
  BY <1>3 DEF Whole
<1>5. TopOrder \in Nat /\ \A o \in Orders : o \in Nat /\ o <= TopOrder
  BY OrderFacts
<1>6. \A o \in k .. m - 1 : o \in Orders /\ o < TopOrder /\ o < m
  BY <1>5 DEF Orders
<1>7. ASSUME NEW o \in Orders, <<BlockOf(p, o), o>> \in F \union O
      PROVE  <<BlockOf(p, o), o>> = B
  <2> DEFINE b == <<BlockOf(p, o), o>>
  <2>1. BlockOf(p, b[2]) = b[1] /\ b \in F \union O
    BY <1>7
  <2>2. BlockOf(p, B[2]) = B[1] /\ B \in F \union O
    BY <1>3
  <2> HIDE DEF b, B
  <2>3. b = B
    BY <1>1, <2>1, <2>2, Overlap
  <2> QED
    BY <2>3 DEF b
<1>8. ASSUME NEW o \in Orders PROVE <<BlockOf(p, o), o>> \notin F
  BY <1>1, <1>7
<1>9. D \subseteq F
  <2>1. SUFFICES ASSUME NEW o \in k .. m - 1 PROVE <<Sib(p, o), o>> \in F
    BY DEF Buddies
  <2>2. o \in Orders /\ o < TopOrder /\ ParentBit(p, o) \in M
    BY <1>6, <2>1
  <2> QED
    BY <1>1, <1>8, <2>2 DEF BitsRight
<1>10. ASSUME NEW x \in Pages, NEW o \in Orders, NEW y \in Orders,
              <<x, o>> \in F, <<x, y>> \in F
       PROVE  o = y
  <2> DEFINE b == <<x, o>>
             c == <<x, y>>
  <2>1. b \in F \union O /\ Aligned(b) /\ b \in Pages \X Orders
    BY <1>1, <1>10 DEF Tiles
  <2>2. c \in F \union O /\ Aligned(c) /\ c \in Pages \X Orders
    BY <1>1, <1>10 DEF Tiles
  <2>3. b[1] = x /\ b[2] = o /\ c[1] = x /\ c[2] = y
    OBVIOUS
  <2> HIDE DEF b, c
  <2>4. BlockOf(x, b[2]) = b[1]
    BY <2>1, <2>3, ExtentFacts
  <2>5. BlockOf(x, c[2]) = c[1]
    BY <2>2, <2>3, ExtentFacts
  <2>6. b = c
    BY <1>1, <2>1, <2>2, <2>4, <2>5, Overlap
  <2> QED
    BY <2>3, <2>6
<1> QED
  BY <1>4, <1>7, <1>8, <1>9, <1>10 DEF Mergeable

(* Freeing a block of order k, merging it up to order m. *)
LEMMA ShapeFree ==
  ASSUME NEW F, NEW O, NEW M, NEW L, Shape(F, O, M),
         NEW p \in Pages, NEW k \in Orders, NEW m \in Orders, k <= m,
         <<p, k>> \in O,
         \A o \in k .. m - 1 : ParentBit(p, o) \in M,
         m = TopOrder \/ ParentBit(p, m) \notin M,
         \A x : x \in L <=> ~ (x \in M <=> x \in Bits(p, k, m))
  PROVE  Shape((F \ Buddies(p, k, m)) \union {Whole(p, m)}, O \ {<<p, k>>}, L)
<1> DEFINE W == Whole(p, m)
           B == <<p, k>>
           D == Buddies(p, k, m)
           G == (F \ D) \union {W}
           P == O \ {B}
<1>1. Tiles(F \union O) /\ F \intersect O = {} /\ BitsRight(F, M) /\ NoPair(F)
  BY DEF Shape
<1>2. Mergeable(F, O, p, k, m)
  BY FreeApart
<1>3. Whole(p, k) = B
  BY <1>2 DEF Mergeable
<1>4. TopOrder \in Nat /\ \A o \in Orders : o \in Nat /\ o <= TopOrder
  BY OrderFacts
<1>5. \A o \in Orders : <<BlockOf(p, o), o>> \in F \union O => <<BlockOf(p, o), o>> = B
  BY <1>2 DEF Mergeable
<1>6. \A o \in Orders : <<BlockOf(p, o), o>> \notin F
  BY <1>2 DEF Mergeable
<1>7. W \notin F
  BY <1>6 DEF Whole
<1>8. D \subseteq F
  BY <1>2 DEF Mergeable
<1>9. W \notin D
  BY <1>7, <1>8
<1>10. W \notin P
  <2>1. SUFFICES ASSUME W \in O, W # B PROVE FALSE
    OBVIOUS
  <2> QED
    BY <1>5, <2>1 DEF Whole
<1>11. Tiles(G \union P)
  <2> DEFINE X == Chain(p, k, m)
             Y == {W}
  <2>1. \A q \in Pages : q \in Extent(W) <=> \E b \in X : q \in Extent(b)
    BY ChainTiles
  <2>2. W \in Pages \X Orders
    BY WholeFacts
  <2>3. Aligned(W)
    BY WholeFacts
  <2>4. Y \subseteq Pages \X Orders /\ \A b \in Y : Aligned(b)
    BY <2>2, <2>3
  <2>5. \A b, c \in Y : \A q \in Pages : q \in Extent(b) /\ q \in Extent(c) => b = c
    OBVIOUS
  <2>6. \A q \in Pages : (\E b \in X : q \in Extent(b)) <=> \E b \in Y : q \in Extent(b)
    BY <2>1
  <2>7. X \subseteq F \union O
    BY <1>3, <1>8 DEF Chain
  <2>8. G \union P = ((F \union O) \ X) \union Y
    BY <1>1, <1>3, <1>8 DEF Chain
  <2> HIDE DEF X, Y
  <2>9. Tiles(((F \union O) \ X) \union Y)
    BY <1>1, <2>4, <2>5, <2>6, <2>7, Replace
  <2> QED
    BY <2>8, <2>9
<1>12. G \intersect P = {}
  BY <1>1, <1>10
<1>13. BitsRight(G, L)
  <2>1. \A b : b \in G <=> ~ (b \in F <=> b \in Buddies(p, k, m) \union {Whole(p, m)})
    BY <1>7, <1>8, <1>9
  <2> HIDE DEF G
  <2> QED
    BY <1>1, <2>1, BitsToggled
<1>14. NoPair(G)
  <2>1. SUFFICES ASSUME NEW o \in Orders, NEW q \in Pages, o < TopOrder,
                        <<BlockOf(q, o), o>> \in G, <<Sib(q, o), o>> \in G
                 PROVE  FALSE
    BY DEF NoPair
  <2>2. ~ (<<BlockOf(q, o), o>> \in F /\ <<Sib(q, o), o>> \in F)
    BY <1>1, <2>1 DEF NoPair
  <2>3. <<BlockOf(q, o), o>> = W \/ <<Sib(q, o), o>> = W
    BY <2>1, <2>2
  <2>4. o = m /\ (BlockOf(q, o) = BlockOf(p, o) \/ Sib(q, o) = BlockOf(p, o))
    BY <2>3 DEF Whole
  <2>5. BuddyOf(Sib(q, o), o) = BlockOf(q, o)
    BY <2>1, SibOfSib
  <2>6. BlockOf(q, o) = Sib(p, o) \/ Sib(q, o) = Sib(p, o)
    BY <2>4, <2>5 DEF Sib
  <2>7. Sib(p, o) # BlockOf(p, o)
    BY <2>1, SibFacts
  <2>8. <<Sib(p, o), o>> \in F
    BY <2>1, <2>4, <2>6, <2>7 DEF Whole
  <2>9. ParentBit(p, o) \notin M
    BY <1>4, <2>1, <2>4
  <2> QED
    BY <1>1, <1>6, <2>1, <2>8, <2>9 DEF BitsRight
<1>15. Shape(G, P, L)
  BY <1>11, <1>12, <1>13, <1>14 DEF Shape
<1> QED
  BY <1>15

(* What is not the callers' is free. *)
LEMMA FreeRest ==
  ASSUME NEW F, NEW O, NEW M, Shape(F, O, M)
  PROVE  Covered(F) = Pages \ Covered(O)
<1>1. Tiles(F \union O) /\ F \intersect O = {}
  BY DEF Shape
<1>2. \A b \in F \union O : Extent(b) \subseteq Pages
  <2> SUFFICES ASSUME NEW b \in F \union O PROVE Extent(b) \subseteq Pages
    OBVIOUS
  <2>1. b \in Pages \X Orders /\ Aligned(b)
    BY <1>1 DEF Tiles
  <2> QED
    BY <2>1, ExtentFacts
<1>3. \A b \in F, c \in O : \A p \in Pages : ~ (p \in Extent(b) /\ p \in Extent(c))
  BY <1>1 DEF Tiles
<1>4. \A p \in Pages : \E b \in F \union O : p \in Extent(b)
  BY <1>1 DEF Tiles
<1>5. \A p : p \in Covered(F) <=> \E b \in F : p \in Extent(b)
  BY DEF Covered
<1>6. \A p : p \in Covered(O) <=> \E b \in O : p \in Extent(b)
  BY DEF Covered
<1> QED
  BY <1>2, <1>3, <1>4, <1>5, <1>6

(* The pages of one more block, and of one less. *)
LEMMA CountPages ==
  ASSUME NEW P, P \subseteq Pages, NEW b \in Pages \X Orders, Aligned(b),
         P \intersect Extent(b) = {}
  PROVE  /\ Cardinality(P \union Extent(b)) = Cardinality(P) + Size[b[2]]
         /\ Cardinality(P) \in Nat
         /\ Cardinality(P \union Extent(b)) <= Size[TopOrder]
<1> DEFINE x == b[1]
           n == Size[b[2]]
           top == Size[TopOrder]
<1>1. top \in Nat /\ n \in Nat /\ n > 0
  BY OrderFacts
<1>2. x \in Nat /\ Pages = 0 .. top - 1
  BY <1>1 DEF Pages
<1>3. Extent(b) = x .. x + n - 1
  BY DEF Extent
<1>4. Extent(b) \subseteq Pages
  BY ExtentFacts
<1> HIDE DEF x, n, top
<1>5. IsFiniteSet(Pages) /\ Cardinality(Pages) = top
  <2>1. 0 \in Int /\ top - 1 \in Int
    BY <1>1
  <2>2. IsFiniteSet(0 .. top - 1)
    BY <2>1, FS_Interval
  <2>3. Cardinality(0 .. top - 1) = IF 0 > top - 1 THEN 0 ELSE (top - 1) - 0 + 1
    BY <2>1, FS_Interval
  <2>4. (IF 0 > top - 1 THEN 0 ELSE (top - 1) - 0 + 1) = top
    BY <1>1
  <2> QED
    BY <1>2, <2>2, <2>3, <2>4
<1>6. IsFiniteSet(P) /\ Cardinality(P) \in Nat
  BY <1>5, FS_Subset, FS_CardinalityType
<1>7. IsFiniteSet(Extent(b)) /\ Cardinality(Extent(b)) = n
  <2>1. x \in Int /\ x + n - 1 \in Int
    BY <1>1, <1>2
  <2>2. IsFiniteSet(x .. x + n - 1)
    BY <2>1, FS_Interval
  <2>3. Cardinality(x .. x + n - 1) = IF x > x + n - 1 THEN 0 ELSE (x + n - 1) - x + 1
    BY <2>1, FS_Interval
  <2>4. (IF x > x + n - 1 THEN 0 ELSE (x + n - 1) - x + 1) = n
    BY <1>1, <1>2
  <2> QED
    BY <1>3, <2>2, <2>3, <2>4
<1>8. Cardinality(P \union Extent(b))
        = Cardinality(P) + Cardinality(Extent(b)) - Cardinality(P \intersect Extent(b))
  BY <1>6, <1>7, FS_Union
<1>9. Cardinality(P \intersect Extent(b)) = 0
  BY FS_EmptySet
<1>10. Cardinality(P \union Extent(b)) <= Cardinality(Pages)
  <2>1. P \union Extent(b) \in SUBSET Pages
    BY <1>4
  <2> QED
    BY <1>5, <2>1, FS_Subset
<1> QED
  BY <1>1, <1>5, <1>6, <1>7, <1>8, <1>9, <1>10 DEF n, top

-----------------------------------------------------------------------------
(* Putting an element before a list. *)
LEMMA ConsFacts ==
  ASSUME NEW S, NEW s \in Seq(S), NEW x \in S, IsInjective(s), x \notin Range(s)
  PROVE  /\ <<x>> \o s \in Seq(S)
         /\ Range(<<x>> \o s) = Range(s) \union {x}
         /\ IsInjective(<<x>> \o s)
<1> DEFINE r == <<x>> \o s
<1>1. <<x>> \in Seq(S) /\ Len(<<x>>) = 1 /\ <<x>>[1] = x
  OBVIOUS
<1>2. Len(s) \in Nat /\ \A i \in 1 .. Len(s) : s[i] \in S
  BY ElementOfSeq, LenProperties
<1>3. /\ \A y : y \in Range(s) <=> \E i \in 1 .. Len(s) : s[i] = y
      /\ \A i, j \in 1 .. Len(s) : s[i] = s[j] => i = j
  BY RangeFacts
<1>4. r \in Seq(S) /\ Len(r) = Len(s) + 1
  BY <1>1, ConcatProperties
<1>5. \A i \in 1 .. Len(s) + 1 : r[i] = IF i <= 1 THEN x ELSE s[i - 1]
  <2>1. \A i \in 1 .. Len(<<x>>) + Len(s) :
          r[i] = IF i <= Len(<<x>>) THEN <<x>>[i] ELSE s[i - Len(<<x>>)]
    BY <1>1, ConcatProperties
  <2> QED
    BY <1>1, <1>2, <2>1
<1>6. r[1] = x /\ \A i \in 1 .. Len(s) : r[i + 1] = s[i]
  BY <1>2, <1>5
<1> HIDE DEF r
<1>7. /\ \A y : y \in Range(r) <=> \E i \in 1 .. Len(r) : r[i] = y
      /\ IsInjective(r) <=> \A i, j \in 1 .. Len(r) : r[i] = r[j] => i = j
  BY <1>4, RangeFacts
<1>8. \A i \in 1 .. Len(r) : i = 1 \/ (i - 1 \in 1 .. Len(s) /\ (i - 1) + 1 = i)
  BY <1>2, <1>4
<1>9. \A i \in 1 .. Len(r) : i = 1 \/ (i - 1 \in 1 .. Len(s) /\ r[i] = s[i - 1])
  BY <1>6, <1>8
<1>10. Range(r) = Range(s) \union {x}
  <2>1. ASSUME NEW y \in Range(r) PROVE y \in Range(s) \union {x}
    <3>1. PICK i \in 1 .. Len(r) : r[i] = y
      BY <1>7
    <3>2. CASE i = 1
      BY <1>6, <3>1, <3>2
    <3>3. CASE i - 1 \in 1 .. Len(s) /\ r[i] = s[i - 1]
      BY <1>3, <3>1, <3>3
    <3> QED
      BY <1>9, <3>2, <3>3
  <2>2. ASSUME NEW y \in Range(s) PROVE y \in Range(r)
    <3>1. PICK i \in 1 .. Len(s) : s[i] = y
      BY <1>3
    <3>2. i + 1 \in 1 .. Len(r) /\ r[i + 1] = y
      BY <1>2, <1>4, <1>6, <3>1
    <3> QED
      BY <1>7, <3>2
  <2>3. x \in Range(r)
    <3>1. 1 \in 1 .. Len(r)
      BY <1>2, <1>4
    <3> QED
      BY <1>6, <1>7, <3>1
  <2> QED
    BY <2>1, <2>2, <2>3
<1>11. ASSUME NEW i \in 1 .. Len(r), NEW j \in 1 .. Len(r), r[i] = r[j]
       PROVE  i = j
  <2>1. \A a \in 1 .. Len(s) : s[a] # x
    BY <1>3
  <2>2. CASE i = 1 \/ j = 1
    BY <1>6, <1>9, <1>11, <2>1, <2>2
  <2>3. CASE i # 1 /\ j # 1
    <3>1. i - 1 \in 1 .. Len(s) /\ j - 1 \in 1 .. Len(s) /\ s[i - 1] = s[j - 1]
      BY <1>9, <1>11, <2>3
    <3>2. i - 1 = j - 1
      BY <1>3, <3>1
    <3> QED
      BY <1>4, <3>2
  <2> QED
    BY <2>2, <2>3
<1> QED
  BY <1>4, <1>7, <1>10, <1>11 DEF r

(* Unlinking the one element of a set that is in the list, or none. *)
LEMMA UnlinkFacts ==
  ASSUME NEW S, NEW s \in Seq(S), IsInjective(s), NEW N,
         \A x, y \in Range(s) \intersect N : x = y
  PROVE  /\ Unlinked(s, N) \in Seq(S)
         /\ Range(Unlinked(s, N)) = Range(s) \ N
         /\ IsInjective(Unlinked(s, N))
<1> DEFINE found == {i \in 1 .. Len(s) : s[i] \in N}
<1>1. /\ Len(s) \in Nat
      /\ \A y : y \in Range(s) <=> \E i \in 1 .. Len(s) : s[i] = y
  BY RangeFacts, LenProperties
<1>2. Unlinked(s, N) = IF found = {} THEN s ELSE RemoveAt(s, Min(found))
  BY DEF Unlinked
<1>3. CASE found = {}
  <2>1. Range(s) \intersect N = {}
    BY <1>1, <1>3
  <2> QED
    BY <1>2, <1>3, <2>1
<1>4. CASE found # {}
  <2>1. found \in SUBSET Nat
    BY <1>1
  <2>2. \E i \in found : \A j \in found : i <= j
    BY <1>4, <2>1, LeastElement
  <2>3. Min(found) \in found
    BY <2>2 DEF Min
  <2> DEFINE p == Min(found)
  <2>4. p \in 1 .. Len(s) /\ s[p] \in N
    BY <2>3
  <2> HIDE DEF p
  <2>5. RemoveAt(s, p) \in Seq(S)
    BY <2>4, RemoveFacts
  <2>6. Range(RemoveAt(s, p)) = Range(s) \ {s[p]}
    BY <2>4, RemoveFacts
  <2>7. IsInjective(RemoveAt(s, p))
    BY <2>4, RemoveFacts
  <2>8. s[p] \in Range(s) \intersect N
    BY <1>1, <2>4
  <2>9. Range(s) \ {s[p]} = Range(s) \ N
    BY <2>8
  <2>10. Unlinked(s, N) = RemoveAt(s, p)
    BY <1>2, <1>4 DEF p
  <2> QED
    BY <2>5, <2>6, <2>7, <2>9, <2>10
<1> QED
  BY <1>3, <1>4

(* The least of a set of numbers is in it. *)
LEMMA MinFacts ==
  ASSUME NEW T \in SUBSET Nat, T # {}
  PROVE  Min(T) \in T /\ \A y \in T : Min(T) <= y
<1>1. \E x \in T : \A y \in T : x <= y
  BY LeastElement
<1> QED
  BY <1>1 DEF Min

-----------------------------------------------------------------------------
(* The inductive invariant. *)
ListsRight ==
  /\ freeList \in [Orders -> Seq(Pages)]
  /\ \A o \in Orders : IsInjective(freeList[o])

BuddyInv ==
  /\ ListsRight
  /\ map \subseteq (Orders \ {0}) \X Pages
  /\ pageOrder \in [Pages -> Orders]
  /\ owned \subseteq Pages
  /\ asked \in AllocOrders \union {0}
  /\ used = Cardinality(Covered(OwnedBlocks))
  /\ Shape(FreeBlocks, OwnedBlocks, map)

(* The zone with one free block. *)
LEMMA EmptyShape == Shape({<<0, TopOrder>>}, {}, {})
<1> DEFINE W == <<0, TopOrder>>
           F == {W}
<1>1. TopOrder \in Nat /\ Size[TopOrder] \in Nat /\ Size[TopOrder] > 0 /\ TopOrder \in Orders
  BY OrderFacts DEF Orders
<1>2. 0 \in Pages
  BY <1>1 DEF Pages
<1>3. BlockOf(0, TopOrder) = 0
  BY <1>2, TopBlock
<1>4. W = Whole(0, TopOrder)
  BY <1>3 DEF Whole
<1>5. W \in Pages \X Orders
  BY <1>1, <1>2
<1>6. Aligned(W)
  BY <1>1, <1>2, <1>4, WholeFacts
<1>7. ASSUME NEW p \in Pages PROVE p \in Extent(W)
  <2>1. BlockOf(p, TopOrder) = 0
    BY TopBlock
  <2>2. p \in Extent(W) <=> BlockOf(p, W[2]) = W[1]
    BY <1>5, <1>6, ExtentFacts
  <2> QED
    BY <2>1, <2>2
<1>8. Tiles(F \union {})
  <2> HIDE DEF W
  <2>1. Tiles(F)
    BY <1>5, <1>6, <1>7 DEF Tiles
  <2>2. F \union {} = F
    OBVIOUS
  <2> QED
    BY <2>1, <2>2
<1>9. \A o \in Orders : \A x : o < TopOrder => <<x, o>> \notin F
  BY <1>1
<1> HIDE DEF F
<1>10. BitsRight(F, {}) /\ NoPair(F)
  BY <1>9 DEF BitsRight, NoPair
<1>11. Shape(F, {}, {})
  BY <1>8, <1>10 DEF Shape
<1> QED
  BY <1>11 DEF F

LEMMA EmptyLists ==
  /\ EmptyZone.freeList \in [Orders -> Seq(Pages)]
  /\ \A o \in Orders : IsInjective(EmptyZone.freeList[o])
  /\ \A o \in Orders, x \in Pages :
       x \in Range(EmptyZone.freeList[o]) <=> x = 0 /\ o = TopOrder
  /\ EmptyZone.map = {}
<1>1. 0 \in Pages /\ TopOrder \in Orders
  BY OrderFacts DEF Pages, Orders
<1>2. EmptyZone.freeList = [o \in Orders |-> IF o = TopOrder THEN <<0>> ELSE <<>>]
      /\ EmptyZone.map = {}
  BY DEF EmptyZone
<1>3. <<0>> \in Seq(Pages) /\ IsInjective(<<0>>) /\ \A x : x \in Range(<<0>>) <=> x = 0
  <2>1. <<0>> \in Seq(Pages) /\ Len(<<0>>) = 1 /\ <<0>>[1] = 0
    BY <1>1
  <2>2. \A x : x \in Range(<<0>>) <=> \E i \in 1 .. Len(<<0>>) : <<0>>[i] = x
    BY <2>1, RangeFacts
  <2>3. IsInjective(<<0>>) <=>
          \A i, j \in 1 .. Len(<<0>>) : <<0>>[i] = <<0>>[j] => i = j
    BY <2>1, RangeFacts
  <2>4. 1 .. Len(<<0>>) = {1}
    BY <2>1
  <2> QED
    BY <2>1, <2>2, <2>3, <2>4
<1>4. <<>> \in Seq(Pages) /\ IsInjective(<<>>) /\ \A x : x \notin Range(<<>>)
  BY DEF IsInjective, Range
<1> QED
  BY <1>2, <1>3, <1>4

(* A zone that is set up, at the start or when the system starts again. *)
SetUp ==
  /\ freeList = EmptyZone.freeList
  /\ map = EmptyZone.map
  /\ pageOrder = [p \in Pages |-> 0]
  /\ used = 0
  /\ owned = {}
  /\ asked \in AllocOrders \union {0}

LEMMA SetUpFacts == SetUp => BuddyInv
<1> SUFFICES ASSUME SetUp PROVE BuddyInv
  OBVIOUS
<1>1. 0 \in Pages /\ TopOrder \in Orders /\ 0 \in Orders
  BY OrderFacts DEF Pages, Orders
<1>2. ListsRight
  BY EmptyLists DEF ListsRight, SetUp
<1>3. OwnedBlocks = {} /\ Covered(OwnedBlocks) = {}
  BY DEF OwnedBlocks, Covered, SetUp
<1>4. FreeBlocks = {<<0, TopOrder>>}
  <2>1. \A b \in Pages \X Orders : b \in FreeBlocks <=> b[1] = 0 /\ b[2] = TopOrder
    BY EmptyLists DEF FreeBlocks, SetUp
  <2>2. FreeBlocks \subseteq Pages \X Orders
    BY DEF FreeBlocks
  <2> QED
    BY <1>1, <2>1, <2>2
<1>5. map = {}
  BY EmptyLists DEF SetUp
<1>6. Shape(FreeBlocks, OwnedBlocks, map)
  BY <1>3, <1>4, <1>5, EmptyShape
<1>7. used = Cardinality(Covered(OwnedBlocks))
  BY <1>3, FS_EmptySet DEF SetUp
<1>8. pageOrder \in [Pages -> Orders] /\ owned = {} /\ asked \in AllocOrders \union {0}
  BY <1>1 DEF SetUp
<1> QED
  BY <1>2, <1>5, <1>6, <1>7, <1>8 DEF BuddyInv

LEMMA InitBuddyInv == Init => BuddyInv
<1>1. Init => SetUp
  BY DEF Init, SetUp
<1> QED
  BY <1>1, SetUpFacts

LEMMA RestartStep ==
  ASSUME NEW order \in AllocOrders, OutOfMemory(order)
  PROVE  BuddyInv'
<1>1. SetUp'
  BY DEF OutOfMemory, SetUp
<1>2. SetUp' => BuddyInv'
  BY SetUpFacts, PTL
<1> QED
  BY <1>1, <1>2

(* The free blocks are those in the lists. *)
LEMMA FreeFacts ==
  ASSUME ListsRight, NEW x, NEW o \in Orders
  PROVE  <<x, o>> \in FreeBlocks <=> x \in Range(freeList[o])
<1>1. freeList[o] \in Seq(Pages)
  BY DEF ListsRight
<1>2. Range(freeList[o]) \subseteq Pages
  BY <1>1, RangeFacts
<1> QED
  BY <1>2 DEF FreeBlocks

(* A request takes the head of the first list that is not empty. *)
LEMMA FittingFacts ==
  ASSUME BuddyInv, NEW order \in AllocOrders, Fitting(order) # {}
  PROVE  LET c == Min(Fitting(order))
             page == Head(freeList[c])
         IN  /\ order \in Orders /\ c \in Orders /\ order <= c
             /\ page \in Pages /\ freeList[c] # <<>>
             /\ <<page, c>> \in FreeBlocks
<1> DEFINE c == Min(Fitting(order))
           page == Head(freeList[c])
<1>1. ListsRight
  BY DEF BuddyInv
<1>2. TopOrder \in Nat /\ \A o \in Orders : o \in Nat /\ o <= TopOrder
  BY OrderFacts
<1>3. order \in Nat
  BY BuddyAssumption
<1>4. Fitting(order) \in SUBSET Nat
  BY <1>2 DEF Fitting
<1>5. c \in Fitting(order)
  BY <1>4, MinFacts
<1> HIDE DEF c
<1>6. c \in Orders /\ order <= c /\ freeList[c] # <<>>
  BY <1>5 DEF Fitting
<1>7. order \in Orders
  BY <1>2, <1>3, <1>6 DEF Orders
<1>8. freeList[c] \in Seq(Pages) /\ IsInjective(freeList[c])
  BY <1>1, <1>6 DEF ListsRight
<1>9. page \in Pages
  BY <1>6, <1>8, TailFacts
<1>10. page \in Range(freeList[c])
  BY <1>6, <1>8, TailFacts
<1>11. <<page, c>> \in FreeBlocks
  BY <1>1, <1>6, <1>10, FreeFacts
<1> QED
  BY <1>6, <1>7, <1>9, <1>11 DEF c

LEMMA AllocStep ==
  ASSUME BuddyInv, NEW order \in AllocOrders, AllocPages(order)
  PROVE  /\ BuddyInv'
         /\ LET page == Head(freeList[Min(Fitting(order))])
            IN  /\ page \in Pages /\ order \in Orders
                /\ Aligned(<<page, order>>)
                /\ <<page, order>> \notin OwnedBlocks
                /\ OwnedBlocks' = OwnedBlocks \union {<<page, order>>}
<1> DEFINE c == Min(Fitting(order))
           p == Head(freeList[c])
           F == FreeBlocks
           O == OwnedBlocks
           D == Buddies(p, order, c)
           G == (F \ {<<p, c>>}) \union D
           P == O \union {<<p, order>>}
<1>1. /\ Fitting(order) # {}
      /\ freeList' = SplitLists(p, order, c)
      /\ map' = Toggled(SplitBits(p, order, c))
      /\ pageOrder' = [pageOrder EXCEPT ![p] = order]
      /\ used' = used + Size[order]
      /\ owned' = owned \union {p}
      /\ asked' = order
  BY DEF AllocPages
<1>2. /\ order \in Orders /\ c \in Orders /\ order <= c
      /\ p \in Pages /\ freeList[c] # <<>> /\ <<p, c>> \in F
  BY <1>1, FittingFacts
<1> HIDE DEF c, p
<1>3. /\ ListsRight /\ Shape(F, O, map)
      /\ map \subseteq (Orders \ {0}) \X Pages
      /\ pageOrder \in [Pages -> Orders]
      /\ owned \subseteq Pages
      /\ used = Cardinality(Covered(O))
  BY DEF BuddyInv
<1>4. TopOrder \in Nat /\ \A o \in Orders : o \in Nat /\ o <= TopOrder
  BY OrderFacts
<1>5. \A o \in order .. c - 1 : o \in Orders /\ o < TopOrder /\ o < c /\ o <= c
  BY <1>2, <1>4 DEF Orders
<1>6. \A x : x \in map' <=> ~ (x \in map <=> x \in Bits(p, order, c))
  BY <1>1 DEF Toggled, SplitBits, Bits
<1>7. p \in Pages /\ order \in Orders /\ c \in Orders /\ order <= c /\ <<p, c>> \in F
  BY <1>2
<1>8. Shape(F, O, map)
  BY <1>3
<1> HIDE DEF F, O
<1>9. Shape(G, P, map')
  BY <1>7, <1>8, <1>6, ShapeAlloc
<1>10. Alone(F, O, p, order, c)
  BY <1>7, <1>8, AllocApart
<1>11. \A x \in Orders : <<p, x>> \notin O
  BY <1>10 DEF Alone
<1>12. \A b \in D : b \notin F
  BY <1>10 DEF Alone
<1>13. Whole(p, c) = <<p, c>>
  BY <1>10 DEF Alone
<1>14. Whole(p, order) = <<p, order>>
  BY <1>10 DEF Alone
<1>15. ASSUME NEW o \in order .. c - 1 PROVE Sib(p, o) = p + Size[o] /\ Sib(p, o) \in Pages
  <2>1. o \in Orders /\ o < TopOrder /\ o <= c /\ o + 1 <= c /\ o + 1 \in Orders
    <3>1. o \in Orders /\ o < TopOrder /\ o < c /\ o <= c
      BY <1>5
    <3>2. o + 1 \in Orders
      BY <3>1, OrderFacts
    <3>3. o \in Nat /\ c \in Nat
      BY <1>2, <1>4, <3>1
    <3> QED
      BY <3>1, <3>2, <3>3
  <2>2. BlockOf(p, c) = p
    BY <1>13 DEF Whole
  <2>3. BlockOf(p, o) = p
    BY <1>2, <2>1, <2>2, FirstPage
  <2>4. BlockOf(p, o + 1) = p
    BY <1>2, <2>1, <2>2, FirstPage
  <2>5. \/ BlockOf(p, o) = BlockOf(p, o + 1) /\ Sib(p, o) = BlockOf(p, o + 1) + Size[o]
        \/ BlockOf(p, o) = BlockOf(p, o + 1) + Size[o] /\ Sib(p, o) = BlockOf(p, o + 1)
    BY <1>2, <2>1, PairFacts
  <2>6. Size[o] \in Nat /\ Size[o] > 0 /\ Size[TopOrder] \in Nat
    BY <2>1, OrderFacts
  <2>7. p \in Nat
    BY <1>2, <2>6 DEF Pages
  <2>8. Sib(p, o) \in Pages
    BY <1>2, <2>1, SibFacts
  <2> QED
    BY <2>3, <2>4, <2>5, <2>6, <2>7, <2>8
<1>16. ASSUME NEW o \in Orders
       PROVE  /\ freeList'[o] \in Seq(Pages)
              /\ IsInjective(freeList'[o])
              /\ \A x : x \in Range(freeList'[o]) <=> <<x, o>> \in G
  <2>1. freeList[o] \in Seq(Pages) /\ IsInjective(freeList[o])
    BY <1>3 DEF ListsRight
  <2>2. \A x : x \in Range(freeList[o]) <=> <<x, o>> \in F
    BY <1>3, FreeFacts DEF F
  <2>3. freeList'[o] = IF o = c THEN Tail(freeList[o])
                       ELSE IF o \in order .. c - 1 THEN <<p + Size[o]>> \o freeList[o]
                       ELSE freeList[o]
    BY <1>1 DEF SplitLists
  <2>4. \A x : <<x, o>> \in D <=> o \in order .. c - 1 /\ x = Sib(p, o)
    BY DEF Buddies
  <2> HIDE DEF D, F
  <2>5. CASE o = c
    <3>1. Tail(freeList[o]) \in Seq(Pages)
      BY <1>2, <2>1, <2>5, TailFacts
    <3>2. IsInjective(Tail(freeList[o]))
      BY <1>2, <2>1, <2>5, TailFacts
    <3>3. Range(Tail(freeList[o])) = Range(freeList[o]) \ {p}
      BY <1>2, <2>1, <2>5, TailFacts DEF p
    <3>4. o \notin order .. c - 1
      BY <1>2, <1>4, <2>5
    <3>5. \A x : <<x, o>> \in G <=> <<x, o>> \in F /\ x # p
      BY <2>4, <2>5, <3>4
    <3> QED
      BY <2>2, <2>3, <2>5, <3>1, <3>2, <3>3, <3>5
  <2>6. CASE o \in order .. c - 1
    <3> DEFINE y == Sib(p, o)
               s == freeList[o]
    <3>1. y = p + Size[o] /\ y \in Pages
      BY <1>15, <2>6
    <3>2. <<y, o>> \in D
      BY <2>4, <2>6
    <3>3. y \notin Range(s)
      BY <1>12, <2>2, <3>2
    <3>4. o # c
      BY <1>5, <2>6
    <3>5. freeList'[o] = <<y>> \o s
      BY <2>3, <2>6, <3>1, <3>4
    <3>6. \A x : <<x, o>> \in G <=> <<x, o>> \in F \/ x = y
      BY <2>4, <2>6, <3>4
    <3> HIDE DEF y, s
    <3>7. s \in Seq(Pages) /\ IsInjective(s)
      BY <2>1 DEF s
    <3>8. <<y>> \o s \in Seq(Pages)
      BY <3>1, <3>3, <3>7, ConsFacts
    <3>9. Range(<<y>> \o s) = Range(s) \union {y}
      BY <3>1, <3>3, <3>7, ConsFacts
    <3>10. IsInjective(<<y>> \o s)
      BY <3>1, <3>3, <3>7, ConsFacts
    <3> QED
      BY <2>2, <3>5, <3>6, <3>8, <3>9, <3>10 DEF s
  <2>7. CASE o # c /\ o \notin order .. c - 1
    <3>1. \A x : <<x, o>> \in G <=> <<x, o>> \in F
      BY <2>4, <2>7
    <3> QED
      BY <2>1, <2>2, <2>3, <2>7, <3>1
  <2> QED
    BY <2>5, <2>6, <2>7
<1>17. ListsRight'
  <2>1. freeList' = [o \in Orders |-> freeList'[o]]
    BY <1>1 DEF SplitLists
  <2> QED
    BY <1>16, <2>1 DEF ListsRight
<1>18. FreeBlocks' = G
  <2>1. G \subseteq Pages \X Orders
    BY <1>9 DEF Shape, Tiles
  <2>2. \A b \in Pages \X Orders : b \in FreeBlocks' <=> b[1] \in Range(freeList'[b[2]])
    BY DEF FreeBlocks
  <2>3. \A b \in Pages \X Orders : b = <<b[1], b[2]>> /\ b[2] \in Orders
    OBVIOUS
  <2>4. FreeBlocks' \subseteq Pages \X Orders
    BY DEF FreeBlocks
  <2>5. \A b \in Pages \X Orders : b[1] \in Range(freeList'[b[2]]) <=> <<b[1], b[2]>> \in G
    BY <1>16
  <2> HIDE DEF G
  <2>6. \A b \in Pages \X Orders : b \in FreeBlocks' <=> b \in G
    BY <2>2, <2>3, <2>5
  <2> QED
    BY <2>1, <2>4, <2>6
<1>19. p \notin owned
  <2>1. SUFFICES ASSUME p \in owned PROVE FALSE
    OBVIOUS
  <2>2. <<p, pageOrder[p]>> \in O /\ pageOrder[p] \in Orders
    BY <1>2, <1>3, <2>1 DEF OwnedBlocks, O
  <2> QED
    BY <1>11, <2>2
<1>20. OwnedBlocks' = P
  <2>1. \A b \in owned : pageOrder'[b] = pageOrder[b]
    BY <1>1, <1>3, <1>19
  <2>2. pageOrder'[p] = order
    BY <1>1, <1>2, <1>3
  <2> QED
    BY <1>1, <2>1, <2>2 DEF OwnedBlocks, O
<1>21. Aligned(<<p, order>>) /\ <<p, order>> \in Pages \X Orders
  <2>1. Aligned(Whole(p, order))
    BY <1>2, WholeFacts
  <2> QED
    BY <1>2, <1>14, <2>1
<1>22. used' = Cardinality(Covered(P))
  <2> DEFINE b == <<p, order>>
  <2>1. Tiles(G \union P)
    BY <1>9 DEF Shape
  <2>2. \A q \in Pages : \A e \in O : ~ (q \in Extent(b) /\ q \in Extent(e))
    <3>1. \A e \in O : e # b
      BY <1>2, <1>11
    <3> QED
      BY <2>1, <3>1 DEF Tiles
  <2>3. Extent(b) \subseteq Pages
    BY <1>21, ExtentFacts
  <2>4. \A e \in O : Extent(e) \subseteq Pages
    <3> SUFFICES ASSUME NEW e \in O PROVE Extent(e) \subseteq Pages
      OBVIOUS
    <3>1. e \in Pages \X Orders /\ Aligned(e)
      BY <2>1 DEF Tiles
    <3> QED
      BY <3>1, ExtentFacts
  <2>5. Covered(O) \subseteq Pages /\ Covered(O) \intersect Extent(b) = {}
    BY <2>2, <2>3, <2>4 DEF Covered
  <2>6. Covered(P) = Covered(O) \union Extent(b)
    BY DEF Covered
  <2>7. b \in Pages \X Orders /\ Aligned(b) /\ b[2] = order
    BY <1>21
  <2> HIDE DEF b, P, O
  <2>8. Cardinality(Covered(O) \union Extent(b)) = Cardinality(Covered(O)) + Size[b[2]]
    BY <2>5, <2>7, CountPages
  <2> QED
    BY <1>1, <1>3, <2>6, <2>7, <2>8
<1>23. pageOrder' \in [Pages -> Orders]
  BY <1>1, <1>2, <1>3
<1>24. map' \subseteq (Orders \ {0}) \X Pages
  <2>1. Bits(p, order, c) \subseteq (Orders \ {0}) \X Pages
    <3>1. SUFFICES ASSUME NEW o \in (order .. c) \ {TopOrder}
                   PROVE  ParentBit(p, o) \in (Orders \ {0}) \X Pages
      BY DEF Bits
    <3>2. o \in Orders /\ o < TopOrder
      BY <1>2, <1>4, <3>1 DEF Orders
    <3> QED
      BY <1>2, <3>2, ParentBitFacts
  <2> QED
    BY <1>3, <1>6, <2>1
<1>25. owned' \subseteq Pages /\ asked' \in AllocOrders \union {0}
  BY <1>1, <1>2, <1>3
<1>26. BuddyInv'
  BY <1>9, <1>17, <1>18, <1>20, <1>22, <1>23, <1>24, <1>25 DEF BuddyInv
<1> QED
  BY <1>2, <1>11, <1>20, <1>21, <1>26 DEF p, c, O

(* A block is merged as long as the bits are set. *)
LEMMA MergedFacts ==
  ASSUME NEW p \in Pages, NEW k \in Orders
  PROVE  /\ MergedOrder(p, k) \in Orders
         /\ k <= MergedOrder(p, k)
         /\ MergedOrder(p, k) = TopOrder \/ ParentBit(p, MergedOrder(p, k)) \notin map
         /\ \A o \in k .. MergedOrder(p, k) - 1 : ParentBit(p, o) \in map
<1> DEFINE T == {o \in k .. TopOrder : o = TopOrder \/ ParentBit(p, o) \notin map}
           m == MergedOrder(p, k)
<1>1. TopOrder \in Nat /\ k \in Nat /\ k <= TopOrder
  BY OrderFacts
<1>2. T \in SUBSET Nat /\ TopOrder \in T
  BY <1>1
<1>3. m = Min(T)
  BY DEF MergedOrder
<1> HIDE DEF m
<1>4. m \in T
  BY <1>2, <1>3, MinFacts
<1>5. \A y \in T : m <= y
  BY <1>2, <1>3, MinFacts
<1>6. m \in Nat /\ m <= TopOrder /\ k <= m /\ m \in Orders
  BY <1>1, <1>4 DEF Orders
<1>7. ASSUME NEW o \in k .. m - 1 PROVE ParentBit(p, o) \in map
  <2>1. o \in k .. TopOrder /\ ~ (m <= o)
    BY <1>1, <1>6
  <2> QED
    BY <1>5, <2>1
<1> QED
  BY <1>4, <1>6, <1>7 DEF m

LEMMA FreeStep ==
  ASSUME BuddyInv, NEW index \in Pages, FreePages(index)
  PROVE  /\ BuddyInv'
         /\ <<index, pageOrder[index]>> \in OwnedBlocks
         /\ OwnedBlocks' = OwnedBlocks \ {<<index, pageOrder[index]>>}
<1> DEFINE p == index
           k == pageOrder[p]
           m == MergedOrder(p, k)
           B == <<p, k>>
           W == Whole(p, m)
           F == FreeBlocks
           O == OwnedBlocks
           D == Buddies(p, k, m)
           G == (F \ D) \union {W}
           P == O \ {B}
<1>1. /\ p \in owned
      /\ freeList' = MergedLists(p, k, m)
      /\ map' = Toggled({ParentBit(p, o) : o \in (k .. m) \ {TopOrder}})
      /\ used' = used - Size[k]
      /\ owned' = owned \ {p}
      /\ pageOrder' = pageOrder /\ asked' = asked
  BY DEF FreePages
<1>2. /\ ListsRight /\ Shape(F, O, map)
      /\ map \subseteq (Orders \ {0}) \X Pages
      /\ pageOrder \in [Pages -> Orders]
      /\ owned \subseteq Pages
      /\ asked \in AllocOrders \union {0}
      /\ used = Cardinality(Covered(O))
  BY DEF BuddyInv
<1>3. k \in Orders /\ p \in Pages
  BY <1>2
<1> HIDE DEF k
<1>4. m \in Orders
  BY <1>3, MergedFacts
<1>5. k <= m
  BY <1>3, MergedFacts
<1>6. m = TopOrder \/ ParentBit(p, m) \notin map
  BY <1>3, MergedFacts
<1>7. \A o \in k .. m - 1 : ParentBit(p, o) \in map
  BY <1>3, MergedFacts
<1> HIDE DEF m
<1>8. B \in O
  BY <1>1 DEF OwnedBlocks, k
<1>9. OwnedBlocks' = P
  <2>1. \A x : x \in OwnedBlocks' <=> \E b \in owned : b # p /\ x = <<b, pageOrder[b]>>
    BY <1>1 DEF OwnedBlocks
  <2>2. \A x : x \in O <=> \E b \in owned : x = <<b, pageOrder[b]>>
    BY DEF OwnedBlocks
  <2> HIDE DEF O
  <2> QED
    BY <2>1, <2>2 DEF k
<1>10. \A x : x \in map' <=> ~ (x \in map <=> x \in Bits(p, k, m))
  BY <1>1 DEF Toggled, Bits
<1>11. Shape(F, O, map)
  BY <1>2
<1> HIDE DEF F, O
<1>12. Shape(G, P, map')
  BY <1>3, <1>4, <1>5, <1>6, <1>7, <1>8, <1>10, <1>11, ShapeFree
<1>13. Mergeable(F, O, p, k, m)
  BY <1>3, <1>4, <1>5, <1>7, <1>8, <1>11, FreeApart
<1>14. TopOrder \in Nat /\ \A o \in Orders : o \in Nat /\ o <= TopOrder
  BY OrderFacts
<1>15. \A o \in k .. m - 1 : o \in Orders /\ o < TopOrder
  BY <1>3, <1>4, <1>14 DEF Orders
<1>16. W \notin F /\ D \subseteq F
  BY <1>4, <1>13 DEF Mergeable, Whole
<1>17. ASSUME NEW o \in Orders
       PROVE  /\ freeList'[o] \in Seq(Pages)
              /\ IsInjective(freeList'[o])
              /\ \A x : x \in Range(freeList'[o]) <=> <<x, o>> \in G
  <2> DEFINE N == {Sib(p, y) : y \in k .. m - 1}
             s == freeList[o]
             r == Unlinked(s, N)
  <2>1. s \in Seq(Pages) /\ IsInjective(s)
    BY <1>2 DEF ListsRight
  <2>2. \A x : x \in Range(s) <=> <<x, o>> \in F
    BY <1>2, FreeFacts DEF F
  <2>3. freeList'[o] = IF o = m THEN <<BlockOf(p, m)>> \o r ELSE r
    BY <1>1 DEF MergedLists, Sib
  <2>4. \A x : <<x, o>> \in D <=> o \in k .. m - 1 /\ x = Sib(p, o)
    BY DEF Buddies
  <2>5. ASSUME NEW x \in Range(s), x \in N PROVE o \in k .. m - 1 /\ x = Sib(p, o)
    <3>1. PICK y \in k .. m - 1 : x = Sib(p, y)
      BY <2>5
    <3>2. y \in Orders /\ y < TopOrder
      BY <1>15
    <3>3. x \in Pages
      BY <1>3, <3>1, <3>2, SibFacts
    <3>4. <<x, y>> \in F
      BY <1>16, <3>1 DEF Buddies
    <3>5. <<x, o>> \in F
      BY <2>2
    <3>6. y = o
      BY <1>13, <3>2, <3>3, <3>4, <3>5 DEF Mergeable
    <3> QED
      BY <3>1, <3>6
  <2>6. \A x, y \in Range(s) \intersect N : x = y
    BY <2>5
  <2>7. \A x : x \in Range(s) /\ x \notin N <=> <<x, o>> \in F /\ <<x, o>> \notin D
    <3>1. ASSUME NEW x, x \in Range(s), x \notin N PROVE <<x, o>> \notin D
      BY <2>4, <3>1
    <3>2. ASSUME NEW x, <<x, o>> \in F, <<x, o>> \notin D PROVE x \notin N
      BY <2>2, <2>4, <2>5, <3>2
    <3> HIDE DEF N, s, D
    <3> QED
      BY <2>2, <3>1, <3>2
  <2> HIDE DEF N, s, r
  <2>8. r \in Seq(Pages)
    BY <2>1, <2>6, UnlinkFacts DEF r
  <2>9. Range(r) = Range(s) \ N
    BY <2>1, <2>6, UnlinkFacts DEF r
  <2>10. IsInjective(r)
    BY <2>1, <2>6, UnlinkFacts DEF r
  <2>11. \A x : x \in Range(r) <=> <<x, o>> \in F /\ <<x, o>> \notin D
    BY <2>7, <2>9
  <2>12. \A x : <<x, o>> = W <=> o = m /\ x = BlockOf(p, m)
    BY DEF Whole
  <2> HIDE DEF W, D
  <2>13. CASE o # m
    <3>1. freeList'[o] = r
      BY <2>3, <2>13
    <3>2. \A x : <<x, o>> \in G <=> <<x, o>> \in F /\ <<x, o>> \notin D
      BY <2>12, <2>13
    <3> QED
      BY <2>8, <2>10, <2>11, <3>1, <3>2
  <2>14. CASE o = m
    <3> DEFINE w == BlockOf(p, m)
    <3>1. w \in Pages
      BY <1>3, <1>4, BlockFacts
    <3>2. <<w, o>> \notin F
      BY <1>16, <2>14 DEF W, Whole
    <3>3. \A x : <<x, o>> \in G <=> (<<x, o>> \in F /\ <<x, o>> \notin D) \/ x = w
      BY <2>12, <2>14
    <3>4. freeList'[o] = <<w>> \o r
      BY <2>3, <2>14
    <3> HIDE DEF w
    <3>5. w \notin Range(r)
      BY <2>11, <3>2
    <3>6. <<w>> \o r \in Seq(Pages)
      BY <2>8, <2>10, <3>1, <3>5, ConsFacts
    <3>7. Range(<<w>> \o r) = Range(r) \union {w}
      BY <2>8, <2>10, <3>1, <3>5, ConsFacts
    <3>8. IsInjective(<<w>> \o r)
      BY <2>8, <2>10, <3>1, <3>5, ConsFacts
    <3> HIDE DEF G
    <3> QED
      BY <2>11, <3>3, <3>4, <3>6, <3>7, <3>8
  <2> QED
    BY <2>13, <2>14
<1>18. ListsRight'
  <2>1. freeList' = [o \in Orders |-> freeList'[o]]
    BY <1>1 DEF MergedLists
  <2> QED
    BY <1>17, <2>1 DEF ListsRight
<1>19. FreeBlocks' = G
  <2>1. G \subseteq Pages \X Orders
    BY <1>12 DEF Shape, Tiles
  <2>2. \A b \in Pages \X Orders : b \in FreeBlocks' <=> b[1] \in Range(freeList'[b[2]])
    BY DEF FreeBlocks
  <2>3. \A b \in Pages \X Orders : b = <<b[1], b[2]>> /\ b[2] \in Orders
    OBVIOUS
  <2>4. FreeBlocks' \subseteq Pages \X Orders
    BY DEF FreeBlocks
  <2>5. \A b \in Pages \X Orders : b[1] \in Range(freeList'[b[2]]) <=> <<b[1], b[2]>> \in G
    BY <1>17
  <2> HIDE DEF G
  <2>6. \A b \in Pages \X Orders : b \in FreeBlocks' <=> b \in G
    BY <2>2, <2>3, <2>5
  <2> QED
    BY <2>1, <2>4, <2>6
<1>20. used' = Cardinality(Covered(P))
  <2>1. Tiles(F \union O)
    BY <1>11 DEF Shape
  <2>2. B \in Pages \X Orders /\ Aligned(B) /\ B[2] = k
    BY <1>8, <2>1 DEF Tiles
  <2>3. \A e \in P : \A q \in Pages : ~ (q \in Extent(B) /\ q \in Extent(e))
    BY <1>8, <2>1 DEF Tiles
  <2>4. \A e \in P : Extent(e) \subseteq Pages
    <3> SUFFICES ASSUME NEW e \in P PROVE Extent(e) \subseteq Pages
      OBVIOUS
    <3>1. e \in Pages \X Orders /\ Aligned(e)
      BY <2>1 DEF Tiles
    <3> QED
      BY <3>1, ExtentFacts
  <2>5. Extent(B) \subseteq Pages
    BY <2>2, ExtentFacts
  <2>6. Covered(P) \subseteq Pages /\ Covered(P) \intersect Extent(B) = {}
    BY <2>3, <2>4, <2>5 DEF Covered
  <2>7. Covered(O) = Covered(P) \union Extent(B)
    BY <1>8 DEF Covered
  <2> HIDE DEF B, P
  <2>8. Cardinality(Covered(P) \union Extent(B)) = Cardinality(Covered(P)) + Size[B[2]]
    BY <2>2, <2>6, CountPages
  <2>9. Cardinality(Covered(P)) \in Nat
    BY <2>2, <2>6, CountPages
  <2>10. Size[k] \in Nat
    BY <1>3, OrderFacts
  <2> QED
    BY <1>1, <1>2, <2>2, <2>7, <2>8, <2>9, <2>10 DEF O
<1>21. map' \subseteq (Orders \ {0}) \X Pages
  <2>1. Bits(p, k, m) \subseteq (Orders \ {0}) \X Pages
    <3>1. SUFFICES ASSUME NEW o \in (k .. m) \ {TopOrder}
                   PROVE  ParentBit(p, o) \in (Orders \ {0}) \X Pages
      BY DEF Bits
    <3>2. o \in Orders /\ o < TopOrder
      BY <1>3, <1>4, <1>14, <3>1 DEF Orders
    <3> QED
      BY <1>3, <3>2, ParentBitFacts
  <2> QED
    BY <1>2, <1>10, <2>1
<1>22. owned' \subseteq Pages /\ asked' \in AllocOrders \union {0}
       /\ pageOrder' \in [Pages -> Orders]
  BY <1>1, <1>2
<1>23. BuddyInv'
  BY <1>9, <1>12, <1>18, <1>19, <1>20, <1>21, <1>22 DEF BuddyInv
<1> QED
  BY <1>8, <1>9, <1>23 DEF O, k

LEMMA NextBuddyInv == BuddyInv /\ [Next]_vars => BuddyInv'
<1> SUFFICES ASSUME BuddyInv, [Next]_vars PROVE BuddyInv'
  OBVIOUS
<1>1. ASSUME NEW order \in AllocOrders, AllocPages(order) PROVE BuddyInv'
  BY <1>1, AllocStep
<1>2. ASSUME NEW order \in AllocOrders, OutOfMemory(order) PROVE BuddyInv'
  BY <1>2, RestartStep
<1>3. ASSUME NEW index \in Pages, FreePages(index) PROVE BuddyInv'
  BY <1>3, FreeStep
<1>4. CASE UNCHANGED vars
  <2>1. /\ freeList' = freeList /\ map' = map /\ pageOrder' = pageOrder
        /\ used' = used /\ owned' = owned /\ asked' = asked
    BY <1>4 DEF vars
  <2>2. FreeBlocks' = FreeBlocks /\ OwnedBlocks' = OwnedBlocks
    BY <2>1 DEF FreeBlocks, OwnedBlocks
  <2>3. ListsRight'
    BY <2>1 DEF ListsRight, BuddyInv
  <2> QED
    BY <2>1, <2>2, <2>3 DEF BuddyInv
<1> QED
  BY <1>1, <1>2, <1>3, <1>4 DEF Next

(* After any calls of alloc and free and any restart, lists, bits and the  *)
(* blocks of the callers are those of one tiling of the zone.              *)
THEOREM BuddyInvariant == Spec => []BuddyInv
BY InitBuddyInv, NextBuddyInv, PTL DEF Spec

-----------------------------------------------------------------------------
(* No page is in two blocks, whether free or given out, and none is in no  *)
(* block; buddy->used is the number of pages given out.                    *)
THEOREM BlocksAreTiles == Spec => []BlocksTile
<1>1. BuddyInv => BlocksTile
  <2> SUFFICES ASSUME BuddyInv PROVE BlocksTile
    OBVIOUS
  <2> DEFINE B == FreeBlocks \union OwnedBlocks
  <2>1. Tiles(B) /\ FreeBlocks \intersect OwnedBlocks = {}
    BY DEF BuddyInv, Shape
  <2>2. used = Cardinality(Covered(OwnedBlocks))
    BY DEF BuddyInv
  <2> HIDE DEF B
  <2>3. \A b \in B : Extent(b) \subseteq Pages
    <3> SUFFICES ASSUME NEW b \in B PROVE Extent(b) \subseteq Pages
      OBVIOUS
    <3>1. b \in Pages \X Orders /\ Aligned(b)
      BY <2>1 DEF Tiles
    <3> QED
      BY <3>1, ExtentFacts
  <2>4. \A b, c \in B : b # c => Extent(b) \intersect Extent(c) = {}
    BY <2>1, <2>3 DEF Tiles
  <2>5. \A b \in B : b[1] % Size[b[2]] = 0
    BY <2>1 DEF Tiles, Aligned
  <2>6. \A p \in Pages : \E b \in B : p \in Extent(b)
    BY <2>1 DEF Tiles
  <2>7. used \in 0 .. Size[TopOrder]
    <3>1. Covered(OwnedBlocks) \subseteq Pages
      BY <2>3 DEF Covered, B
    <3>2. Size[TopOrder] \in Nat /\ Size[TopOrder] > 0
      BY OrderFacts
    <3>3. Pages = 0 .. Size[TopOrder] - 1 /\ 0 \in Int /\ Size[TopOrder] - 1 \in Int
      BY <3>2 DEF Pages
    <3>4. IsFiniteSet(Pages)
      BY <3>3, FS_Interval
    <3>5. Cardinality(Pages) = IF 0 > Size[TopOrder] - 1 THEN 0
                               ELSE (Size[TopOrder] - 1) - 0 + 1
      BY <3>3, FS_Interval
    <3>6. Cardinality(Pages) = Size[TopOrder]
      BY <3>2, <3>5
    <3>7. Covered(OwnedBlocks) \in SUBSET Pages
      BY <3>1
    <3>8. Cardinality(Covered(OwnedBlocks)) <= Cardinality(Pages)
      BY <3>4, <3>7, FS_Subset
    <3>9. IsFiniteSet(Covered(OwnedBlocks))
      BY <3>4, <3>7, FS_Subset
    <3>10. Cardinality(Covered(OwnedBlocks)) \in Nat
      BY <3>9, FS_CardinalityType
    <3> QED
      BY <2>2, <3>2, <3>6, <3>8, <3>10
  <2>8. TypeOK
    BY <2>7 DEF BuddyInv, ListsRight, TypeOK
  <2>9. used = Cardinality(UNION {Extent(b) : b \in OwnedBlocks})
    BY <2>2 DEF Covered
  <2> QED
    BY <2>1, <2>4, <2>5, <2>6, <2>8, <2>9 DEF BlocksTile, B
<1> QED
  BY <1>1, BuddyInvariant, PTL

(* Of two elements exactly one is in a set. *)
LEMMA OneOfTwo ==
  ASSUME NEW x, NEW y, x # y, NEW R
  PROVE  Cardinality({x, y} \intersect R) = 1 <=> ~ (x \in R <=> y \in R)
<1>1. CASE x \in R /\ y \in R
  <2>1. {x, y} \intersect R = {x} \union {y}
    BY <1>1
  <2>2. IsFiniteSet({x}) /\ Cardinality({x}) = 1
    BY FS_Singleton
  <2>3. Cardinality({x} \union {y}) = IF y \in {x} THEN Cardinality({x}) ELSE Cardinality({x}) + 1
    BY <2>2, FS_AddElement
  <2> QED
    BY <1>1, <2>1, <2>2, <2>3
<1>2. CASE x \in R /\ y \notin R
  <2>1. {x, y} \intersect R = {x}
    BY <1>2
  <2>2. Cardinality({x}) = 1
    BY FS_Singleton
  <2> QED
    BY <1>2, <2>1, <2>2
<1>3. CASE x \notin R /\ y \in R
  <2>1. {x, y} \intersect R = {y}
    BY <1>3
  <2>2. Cardinality({y}) = 1
    BY FS_Singleton
  <2> QED
    BY <1>3, <2>1, <2>2
<1>4. CASE x \notin R /\ y \notin R
  <2>1. {x, y} \intersect R = {}
    BY <1>4
  <2>2. Cardinality({}) = 0
    BY FS_EmptySet
  <2> QED
    BY <1>4, <2>1, <2>2
<1> QED
  BY <1>1, <1>2, <1>3, <1>4

(* The bit that buddy_free_pages reads tells whether the buddy of a block  *)
(* in use is free, although the bit is only ever toggled.                  *)
THEOREM BitIsRight == Spec => []BitMeansOneFree
<1>1. BuddyInv => BitMeansOneFree
  <2>1. SUFFICES ASSUME BuddyInv, NEW o \in 0 .. TopOrder - 1, NEW b \in Pages,
                        b % Size[o + 1] = 0
                 PROVE  ParentBit(b, o) \in map
                          <=> Cardinality({b, b + Size[o]} \intersect Range(freeList[o])) = 1
    BY DEF BitMeansOneFree
  <2>2. TopOrder \in Nat
    BY OrderFacts
  <2>3. o \in Orders /\ o < TopOrder /\ o \in Nat
    BY <2>2 DEF Orders
  <2>4. o + 1 \in Orders /\ Size[o] \in Nat /\ Size[o] > 0 /\ Size[TopOrder] \in Nat
    BY <2>3, OrderFacts
  <2>5. b \in Nat
    BY <2>4 DEF Pages
  <2>6. BlockOf(b, o + 1) = b
    BY <2>1, <2>5 DEF BlockOf
  <2>7. \/ BlockOf(b, o) = BlockOf(b, o + 1) /\ Sib(b, o) = BlockOf(b, o + 1) + Size[o]
        \/ BlockOf(b, o) = BlockOf(b, o + 1) + Size[o] /\ Sib(b, o) = BlockOf(b, o + 1)
    BY <2>3, PairFacts
  <2>8. ListsRight /\ BitsRight(FreeBlocks, map)
    BY <2>1 DEF BuddyInv, Shape
  <2>9. ParentBit(b, o) \in map
          <=> ~ (<<BlockOf(b, o), o>> \in FreeBlocks <=> <<Sib(b, o), o>> \in FreeBlocks)
    BY <2>3, <2>8 DEF BitsRight
  <2> DEFINE R == Range(freeList[o])
             y == b + Size[o]
  <2>10. \A x : <<x, o>> \in FreeBlocks <=> x \in R
    BY <2>3, <2>8, FreeFacts
  <2>11. b # y
    BY <2>4, <2>5
  <2> HIDE DEF R, y
  <2>12. Cardinality({b, y} \intersect R) = 1 <=> ~ (b \in R <=> y \in R)
    BY <2>11, OneOfTwo
  <2>13. ParentBit(b, o) \in map <=> ~ (b \in R <=> y \in R)
    BY <2>6, <2>7, <2>9, <2>10 DEF y
  <2> QED
    BY <2>12, <2>13 DEF R, y
<1> QED
  BY <1>1, BuddyInvariant, PTL

(* Freed memory never stays in two halves: merging stops at a buddy in use.*)
THEOREM FreeIsCoalesced == Spec => []Coalesced
<1>1. BuddyInv => Coalesced
  <2>1. SUFFICES ASSUME BuddyInv, NEW o \in 0 .. TopOrder - 1,
                        NEW b \in Range(freeList[o]), BuddyOf(b, o) \in Range(freeList[o])
                 PROVE  FALSE
    BY DEF Coalesced
  <2>2. TopOrder \in Nat
    BY OrderFacts
  <2>3. o \in Orders /\ o < TopOrder
    BY <2>2 DEF Orders
  <2>4. ListsRight /\ NoPair(FreeBlocks) /\ Tiles(FreeBlocks \union OwnedBlocks)
    BY <2>1 DEF BuddyInv, Shape
  <2>5. <<b, o>> \in FreeBlocks
    BY <2>3, <2>4, FreeFacts
  <2>6. <<BuddyOf(b, o), o>> \in FreeBlocks
    BY <2>1, <2>3, <2>4, FreeFacts
  <2>7. <<b, o>> \in Pages \X Orders /\ Aligned(<<b, o>>)
    BY <2>4, <2>5 DEF Tiles
  <2>8. BlockOf(b, o) = b
    BY <2>7, ExtentFacts
  <2> QED
    BY <2>3, <2>4, <2>5, <2>6, <2>7, <2>8 DEF NoPair, Sib
<1> QED
  BY <1>1, BuddyInvariant, PTL

-----------------------------------------------------------------------------
(* If an aligned run of pages is free, one block holds all of it: of the   *)
(* smallest free block in it the buddy would be free too.                  *)
LEMMA RunInBlock ==
  ASSUME BuddyInv, NEW p \in Pages, NEW k \in Orders, BlockOf(p, k) = p,
         Extent(<<p, k>>) \subseteq Covered(FreeBlocks)
  PROVE  \E o \in Orders : o >= k /\ <<BlockOf(p, o), o>> \in FreeBlocks
<1> DEFINE F == FreeBlocks
           B == FreeBlocks \union OwnedBlocks
           run == Extent(<<p, k>>)
           T == {o \in Orders : \E x \in run : <<BlockOf(x, o), o>> \in F}
<1>1. Tiles(B) /\ NoPair(F) /\ F \subseteq B
  BY DEF BuddyInv, Shape
<1>2. TopOrder \in Nat /\ \A o \in Orders : o \in Nat /\ o <= TopOrder
  BY OrderFacts
<1>3. Whole(p, k) = <<p, k>>
  BY DEF Whole
<1>4. <<p, k>> \in Pages \X Orders /\ Aligned(<<p, k>>)
  BY <1>3, WholeFacts
<1>5. run \subseteq Pages
  BY <1>4, ExtentFacts
<1>6. \A x \in Pages : x \in run <=> BlockOf(x, k) = p
  BY <1>3, WholeFacts
<1> HIDE DEF run, F, B
<1>7. ASSUME NEW x \in run PROVE \E o \in Orders : <<BlockOf(x, o), o>> \in F
  <2>1. x \in Covered(F)
    BY DEF run, F
  <2>2. PICK b \in F : x \in Extent(b)
    BY <2>1 DEF Covered
  <2>3. b \in Pages \X Orders /\ Aligned(b)
    BY <1>1 DEF Tiles
  <2>4. BlockOf(x, b[2]) = b[1]
    BY <1>5, <2>2, <2>3, ExtentFacts
  <2>5. b = <<b[1], b[2]>> /\ b[2] \in Orders
    BY <2>3
  <2> QED
    BY <2>4, <2>5
<1>8. p \in run
  BY <1>6
<1>9. T # {} /\ T \in SUBSET Nat
  BY <1>2, <1>7, <1>8
<1>10. PICK o \in T : \A y \in T : o <= y
  BY <1>9, LeastElement
<1>11. o \in Orders /\ o \in Nat /\ k \in Nat
  BY <1>2, <1>10
<1>12. PICK x \in run : <<BlockOf(x, o), o>> \in F
  BY <1>10
<1>13. x \in Pages /\ BlockOf(x, k) = p
  BY <1>5, <1>6
<1>14. CASE o >= k
  <2>1. BlockOf(x, k) = BlockOf(p, k)
    BY <1>13
  <2>2. k <= o
    BY <1>11, <1>14
  <2>3. BlockOf(x, o) = BlockOf(p, o)
    BY <1>11, <1>13, <2>1, <2>2, Nested
  <2> QED
    BY <1>11, <1>12, <1>14, <2>3 DEF F
<1>15. CASE o < k
  <2> DEFINE y == Sib(x, o)
  <2>1. o < TopOrder /\ o + 1 \in Orders /\ o + 1 <= k
    BY <1>2, <1>11, <1>15, OrderFacts
  <2>2. y \in Pages
    BY <1>11, <1>13, <2>1, SibFacts
  <2>3. BlockOf(y, o) = y
    BY <1>11, <1>13, <2>1, SibFacts
  <2>4. BlockOf(y, o + 1) = BlockOf(x, o + 1)
    BY <1>11, <1>13, <2>1, SibFacts
  <2>5. ~ (<<BlockOf(x, o), o>> \in F /\ <<y, o>> \in F)
    BY <1>1, <1>11, <1>13, <2>1 DEF NoPair
  <2> HIDE DEF y
  <2>6. BlockOf(y, k) = BlockOf(x, k)
    BY <1>13, <2>1, <2>2, <2>4, Nested
  <2>7. y \in run
    BY <1>6, <1>13, <2>2, <2>6
  <2>8. PICK z \in Orders : <<BlockOf(y, z), z>> \in F
    BY <1>7, <2>7
  <2>9. z \in T
    BY <2>7, <2>8
  <2>10. o <= z /\ z \in Nat
    BY <1>2, <1>10, <2>9
  <2>11. z # o
    BY <1>12, <2>3, <2>5, <2>8
  <2>12. o + 1 <= z
    BY <1>11, <2>10, <2>11
  <2>13. BlockOf(y, z) = BlockOf(x, z)
    BY <1>13, <2>1, <2>2, <2>4, <2>12, Nested
  <2> DEFINE b == <<BlockOf(x, o), o>>
             c == <<BlockOf(y, z), z>>
  <2>14. b \in B /\ c \in B /\ BlockOf(x, b[2]) = b[1] /\ BlockOf(x, c[2]) = c[1]
    BY <1>1, <1>12, <2>8, <2>13
  <2>15. b[2] = o /\ c[2] = z
    OBVIOUS
  <2> HIDE DEF b, c
  <2>16. b = c
    BY <1>1, <1>13, <2>14, Overlap
  <2> QED
    BY <2>11, <2>15, <2>16
<1> QED
  BY <1>11, <1>14, <1>15

(* A request that panics could not have been met. *)
LEMMA NothingFits ==
  ASSUME BuddyInv, NEW order \in AllocOrders, Fitting(order) = {}
  PROVE  Allocator!Candidates(order) = {}
<1>1. SUFFICES ASSUME NEW p \in Pages, p % Size[order] = 0,
                      p .. p + Size[order] - 1 \subseteq Covered(FreeBlocks)
               PROVE  FALSE
  BY DEF Allocator!Candidates, Allocator!PagesOf, Covered
<1>2. TopOrder \in Nat /\ TopOrder \in 0 .. Widest - 1 /\ Size[TopOrder] \in Nat
  BY OrderFacts, TopFacts
<1>3. order \in Nat /\ order \in 0 .. Widest /\ Widest \in Nat
  BY BuddyAssumption
<1>4. Size[order] \in Nat /\ Size[order] > 0
  BY <1>3, SizePositive
<1>5. p \in Nat
  BY <1>2 DEF Pages
<1>6. \A q \in Covered(FreeBlocks) : q \in Pages
  <2> SUFFICES ASSUME NEW b \in FreeBlocks PROVE Extent(b) \subseteq Pages
    BY DEF Covered
  <2>1. Tiles(FreeBlocks \union OwnedBlocks)
    BY DEF BuddyInv, Shape
  <2>2. b \in Pages \X Orders /\ Aligned(b)
    BY <2>1 DEF Tiles
  <2> QED
    BY <2>2, ExtentFacts
<1>7. CASE order > TopOrder
  <2>1. 2 * Size[TopOrder] <= Size[order]
    BY <1>2, <1>3, <1>7, SizeGrows
  <2>2. p + Size[order] - 1 \in p .. p + Size[order] - 1
    BY <1>4, <1>5
  <2>3. p + Size[order] - 1 \in Pages
    BY <1>1, <1>6, <2>2
  <2>4. Size[TopOrder] > 0
    BY OrderFacts
  <2> QED
    BY <1>2, <1>4, <1>5, <2>1, <2>3, <2>4 DEF Pages
<1>8. CASE order <= TopOrder
  <2>1. order \in Orders
    BY <1>2, <1>3, <1>8 DEF Orders
  <2>2. BlockOf(p, order) = p
    BY <1>1, <1>5 DEF BlockOf
  <2>3. Extent(<<p, order>>) \subseteq Covered(FreeBlocks)
    BY <1>1 DEF Extent
  <2>4. PICK o \in Orders : o >= order /\ <<BlockOf(p, o), o>> \in FreeBlocks
    BY <2>1, <2>2, <2>3, RunInBlock
  <2>5. BlockOf(p, o) \in Range(freeList[o])
    BY <2>4, FreeFacts DEF BuddyInv
  <2>6. freeList[o] # <<>>
    BY <2>5 DEF Range
  <2> QED
    BY <2>4, <2>6 DEF Fitting
<1> QED
  BY <1>2, <1>3, <1>7, <1>8

(* The free pages are those that are not in a block of a caller. *)
LEMMA FreePagesAre ==
  ASSUME BuddyInv
  PROVE  UNION {Extent(b) : b \in FreeBlocks}
           = Pages \ UNION {Extent(b) : b \in OwnedBlocks}
<1>1. Covered(FreeBlocks) = Pages \ Covered(OwnedBlocks)
  BY FreeRest DEF BuddyInv
<1> QED
  BY <1>1 DEF Covered

LEMMA InitAllocator == Init => Allocator!AInit
<1> SUFFICES ASSUME Init PROVE Allocator!AInit
  OBVIOUS
<1>1. BuddyInv
  BY InitBuddyInv
<1>2. OwnedBlocks = {} /\ asked = 0
  BY DEF Init, OwnedBlocks
<1>3. UNION {Extent(b) : b \in OwnedBlocks} = {}
  BY <1>2
<1>4. UNION {Extent(b) : b \in FreeBlocks} = Pages
  BY <1>1, <1>3, FreePagesAre
<1> QED
  BY <1>2, <1>4 DEF Allocator!AInit

LEMMA NextAllocator ==
  ASSUME BuddyInv, BuddyInv', [Next]_vars
  PROVE  [Allocator!ANext]_Allocator!avars
<1> DEFINE free == UNION {Extent(b) : b \in FreeBlocks}
           taken == UNION {Extent(b) : b \in OwnedBlocks}
<1>1. free = Pages \ taken
  BY FreePagesAre
<1>2. free' = Pages \ taken'
  <2>1. Shape(FreeBlocks', OwnedBlocks', map')
    BY DEF BuddyInv
  <2>2. Covered(FreeBlocks') = Pages \ Covered(OwnedBlocks')
    BY <2>1, FreeRest
  <2> QED
    BY <2>2 DEF Covered
<1>3. ASSUME NEW order \in AllocOrders, AllocPages(order) PROVE Allocator!ANext
  <2> DEFINE page == Head(freeList[Min(Fitting(order))])
             b == <<page, order>>
  <2>1. page \in Pages /\ order \in Orders
    BY <1>3, AllocStep
  <2>2. Aligned(b)
    BY <1>3, AllocStep
  <2>3. OwnedBlocks' = OwnedBlocks \union {b}
    BY <1>3, AllocStep
  <2>4. b \notin OwnedBlocks
    BY <1>3, AllocStep
  <2>5. asked' = order
    BY <1>3 DEF AllocPages
  <2> HIDE DEF page
  <2>6. taken' = taken \union Extent(b)
    BY <2>3
  <2>7. free' = free \ Extent(b)
    BY <1>1, <1>2, <2>6
  <2>8. Extent(b) \subseteq free
    <3>1. Tiles(FreeBlocks' \union OwnedBlocks')
      BY DEF BuddyInv, Shape
    <3>2. b \in OwnedBlocks' /\ \A c \in OwnedBlocks : c \in OwnedBlocks' /\ c # b
      BY <2>3, <2>4
    <3>3. \A c \in OwnedBlocks : \A q \in Pages : ~ (q \in Extent(b) /\ q \in Extent(c))
      BY <3>1, <3>2 DEF Tiles
    <3>4. Extent(b) \subseteq Pages
      BY <2>1, <2>2, ExtentFacts
    <3> QED
      BY <1>1, <3>3, <3>4
  <2>9. b \in Allocator!Candidates(order)
    <3>1. b \in Pages \X {order} /\ b[1] % Size[order] = 0
      BY <2>1, <2>2 DEF Aligned
    <3>2. Allocator!PagesOf(b) \subseteq free
      BY <2>8 DEF Allocator!PagesOf, Extent
    <3> QED
      BY <3>1, <3>2 DEF Allocator!Candidates
  <2>10. Allocator!PagesOf(b) = Extent(b)
    BY DEF Allocator!PagesOf, Extent
  <2> HIDE DEF b, free, taken
  <2>11. Allocator!AAlloc(order)
    BY <2>3, <2>5, <2>7, <2>9, <2>10 DEF Allocator!AAlloc, free
  <2> QED
    BY <2>11 DEF Allocator!ANext
<1>4. ASSUME NEW order \in AllocOrders, OutOfMemory(order) PROVE Allocator!ANext
  <2>1. Fitting(order) = {} /\ owned' = {} /\ asked' = order
    BY <1>4 DEF OutOfMemory
  <2>2. Allocator!Candidates(order) = {}
    BY <2>1, NothingFits
  <2>3. OwnedBlocks' = {} /\ taken' = {}
    BY <2>1 DEF OwnedBlocks
  <2>4. free' = Pages
    BY <1>2, <2>3
  <2>5. Allocator!ARestart(order)
    BY <2>1, <2>2, <2>3, <2>4 DEF Allocator!ARestart
  <2> QED
    BY <2>5 DEF Allocator!ANext
<1>5. ASSUME NEW index \in Pages, FreePages(index) PROVE Allocator!ANext
  <2> DEFINE b == <<index, pageOrder[index]>>
  <2>1. b \in OwnedBlocks
    BY <1>5, FreeStep
  <2>2. OwnedBlocks' = OwnedBlocks \ {b}
    BY <1>5, FreeStep
  <2>3. asked' = asked
    BY <1>5 DEF FreePages
  <2> HIDE DEF b
  <2>4. Tiles(FreeBlocks \union OwnedBlocks)
    BY DEF BuddyInv, Shape
  <2>5. Extent(b) \subseteq Pages
    <3>1. b \in Pages \X Orders /\ Aligned(b)
      BY <2>1, <2>4 DEF Tiles
    <3> QED
      BY <3>1, ExtentFacts
  <2>6. \A c \in OwnedBlocks' : \A q \in Pages : ~ (q \in Extent(b) /\ q \in Extent(c))
    BY <2>1, <2>2, <2>4 DEF Tiles
  <2>7. taken = taken' \union Extent(b)
    BY <2>1, <2>2
  <2>8. free' = free \union Extent(b)
    BY <1>1, <1>2, <2>5, <2>6, <2>7
  <2>9. Allocator!PagesOf(b) = Extent(b)
    BY DEF Allocator!PagesOf, Extent
  <2>10. Allocator!AFree(b)
    BY <2>1, <2>2, <2>3, <2>8, <2>9 DEF Allocator!AFree
  <2> QED
    BY <2>1, <2>10 DEF Allocator!ANext
<1>6. ASSUME UNCHANGED vars PROVE UNCHANGED Allocator!avars
  BY <1>6 DEF vars, Allocator!avars, FreeBlocks, OwnedBlocks
<1> QED
  BY <1>3, <1>4, <1>5, <1>6 DEF Next

(* The buddy system implements what PageAllocator promises: callers get    *)
(* aligned runs of free pages, and buddy_alloc_pages panics only when      *)
(* there is none of the order asked for.                                   *)
THEOREM BuddyIsAllocator == Spec => IsPageAllocator
<1>1. BuddyInv /\ BuddyInv' /\ [Next]_vars => [Allocator!ANext]_Allocator!avars
  BY NextAllocator
<1> QED
  BY <1>1, InitAllocator, BuddyInvariant, PTL DEF Spec, IsPageAllocator, Allocator!ASpec
=============================================================================
