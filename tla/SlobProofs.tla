----------------------------- MODULE SlobProofs -----------------------------
(***************************************************************************)
(* Proofs about the kernel heap: at every moment the blocks callers own    *)
(* and the free blocks tile it, the free list is sorted and has no two     *)
(* blocks that touch, and a request is refused only if no free run of      *)
(* bytes would hold it.                                                    *)
(*                                                                         *)
(* The argument is about the set of the free blocks: inserting a block     *)
(* that is apart from all of them adds its bytes to those they cover, and  *)
(* leaves no two that touch.                                               *)
(***************************************************************************)
EXTENDS Slob, ListLemmas, FiniteSetTheorems, TLAPS

(* A list in the order of addresses that ends with last_node. *)
Ordered(list) ==
  /\ list \in Seq(Addrs)
  /\ Len(list) >= 1
  /\ list[Len(list)] = LastNode
  /\ \A i, j \in 1 .. Len(list) : i < j => list[i] < list[j]

Frees(list) == Range(list) \ {LastNode}
Area(sizes, a) == a .. a + sizes[a] - 1
Covered(blocks, sizes) == UNION {Area(sizes, a) : a \in blocks}

(* Free blocks: none is empty, and between two of them is a gap. *)
Spaced(blocks, sizes) ==
  /\ \A a \in blocks : sizes[a] > 0
  /\ \A a, b \in blocks : a < b => a + sizes[a] < b

(* The inductive invariant. *)
SlobInv ==
  /\ size \in [Addrs -> 0 .. Total]
  /\ size[LastNode] = 0
  /\ Ordered(nodes)
  /\ Spaced(Frees(nodes), size)
  /\ held \subseteq Addrs
  /\ \A a \in held : a < LastNode /\ size[a] > 0
  /\ \A a, b \in held : a # b => Area(size, a) \intersect Area(size, b) = {}
  /\ Covered(Frees(nodes), size) \intersect Covered(held, size) = {}
  /\ Covered(Frees(nodes), size) \union Covered(held, size)
       = StartAddr .. StartAddr + Total - 1
  /\ statsUsed = Cardinality(Covered(held, size))

-----------------------------------------------------------------------------
(* The constants. *)
LEMMA HeapFacts ==
  /\ {NodeSize, SLOB_ALIGN, SLOB_MIN_BLOCK} \subseteq Nat \ {0}
  /\ FirstNode \in Nat /\ StartAddr \in Nat /\ LastNode \in Nat /\ Total \in Nat
  /\ StartAddr < LastNode /\ LastNode < StartAddr + Total
  /\ StartAddr \in Addrs /\ LastNode \in Addrs /\ Addrs \subseteq Nat
  /\ \A a \in Addrs : a >= StartAddr
<1> DEFINE gap == NodeSize * NodeSize
<1>1. gap \in Nat
  BY SlobAssumption
<1>2. /\ LastNode = EndAddr - gap /\ Total = LastNode - FirstNode
      /\ StartAddr + gap < EndAddr /\ FirstNode < StartAddr
      /\ {FirstNode, StartAddr, EndAddr} \subseteq Nat
  BY SlobAssumption DEF LastNode, Total
<1>3. (LastNode - StartAddr) % SLOB_ALIGN = 0
  BY HeapAssumption
<1>4. SLOB_ALIGN \in Nat \ {0} /\ (StartAddr - StartAddr) % SLOB_ALIGN = 0
  BY SlobAssumption
<1> HIDE DEF gap
<1>5. /\ StartAddr < LastNode /\ LastNode < StartAddr + Total
      /\ LastNode \in Nat /\ Total \in Nat
  BY <1>1, <1>2
<1>6. Addrs \subseteq Nat /\ \A a \in Addrs : a >= StartAddr
  BY <1>2, <1>5 DEF Addrs
<1>7. StartAddr \in Addrs /\ LastNode \in Addrs
  BY <1>2, <1>3, <1>4, <1>5 DEF Addrs
<1> QED
  BY SlobAssumption, <1>2, <1>3, <1>5, <1>6, <1>7

(* A request's block holds it, and is a multiple of the alignment. *)
LEMMA BlockFacts ==
  ASSUME NEW bytes \in Requests
  PROVE  /\ BlockSize(bytes) \in Nat \ {0}
         /\ BlockSize(bytes) % SLOB_ALIGN = 0
<1> DEFINE s == bytes + NodeSize
           m == s % SLOB_ALIGN
<1>1. s \in Nat \ {0} /\ SLOB_ALIGN \in Nat \ {0}
  BY SlobAssumption
<1>2. m \in 0 .. SLOB_ALIGN - 1 /\ s = SLOB_ALIGN * (s \div SLOB_ALIGN) + m
  <2> HIDE DEF s
  <2> QED
    BY <1>1
<1>3. CASE m = 0
  BY <1>1, <1>3 DEF BlockSize
<1>4. CASE m # 0
  <2> DEFINE d == s \div SLOB_ALIGN
  <2>1. d \in Nat
    BY <1>1
  <2>2. BlockSize(bytes) = s + SLOB_ALIGN - m
    BY <1>4 DEF BlockSize
  <2> HIDE DEF d, m, s
  <2>3. s + SLOB_ALIGN - m = SLOB_ALIGN * (d + 1)
    BY <1>1, <1>2, <2>1 DEF d
  <2>4. (SLOB_ALIGN * (d + 1)) % SLOB_ALIGN = 0
    BY <1>1, <2>1
  <2>5. s + SLOB_ALIGN - m \in Nat \ {0}
    BY <1>1, <1>2
  <2> QED
    BY <2>2, <2>3, <2>4, <2>5
<1> QED
  BY <1>3, <1>4

(* Addresses stay aligned. *)
LEMMA NextAddr ==
  ASSUME NEW a \in Addrs, NEW n \in Nat, n % SLOB_ALIGN = 0, a + n <= LastNode
  PROVE  a + n \in Addrs
<1>1. /\ StartAddr \in Nat /\ SLOB_ALIGN \in Nat \ {0} /\ a \in Nat
      /\ a >= StartAddr /\ LastNode < StartAddr + Total
      /\ LastNode \in Nat /\ Total \in Nat
  BY HeapFacts
<1>2. (a - StartAddr) % SLOB_ALIGN = 0
  BY DEF Addrs
<1>3. ((a + n) - StartAddr) % SLOB_ALIGN = 0
  <2> DEFINE x == a - StartAddr
             k == x \div SLOB_ALIGN
             l == n \div SLOB_ALIGN
  <2>1. x \in Nat /\ x % SLOB_ALIGN = 0 /\ (a + n) - StartAddr = x + n
    BY <1>1, <1>2
  <2> HIDE DEF x
  <2>2. x = SLOB_ALIGN * k /\ n = SLOB_ALIGN * l /\ k \in Nat /\ l \in Nat
    BY <1>1, <2>1
  <2> HIDE DEF k, l
  <2>3. x + n = SLOB_ALIGN * (k + l)
    BY <1>1, <2>2
  <2>4. (SLOB_ALIGN * (k + l)) % SLOB_ALIGN = 0
    BY <1>1, <2>2
  <2> QED
    BY <2>1, <2>3, <2>4
<1> QED
  BY <1>1, <1>3 DEF Addrs

(* The first of some positions. *)
LEMMA FirstOfFacts ==
  ASSUME NEW n \in Nat, NEW positions \in SUBSET (1 .. n)
  PROVE  /\ positions = {} => FirstOf(positions) = 0
         /\ positions # {} =>
              /\ FirstOf(positions) \in positions
              /\ \A i \in positions : FirstOf(positions) <= i
<1>1. CASE positions = {}
  BY <1>1 DEF FirstOf
<1>2. CASE positions # {}
  <2>1. positions \in SUBSET Nat
    OBVIOUS
  <2>2. \E x \in positions : \A y \in positions : x <= y
    BY <1>2, <2>1, LeastElement
  <2>3. FirstOf(positions) = CHOOSE x \in positions : \A y \in positions : x <= y
    BY <1>2 DEF FirstOf, Min
  <2> QED
    BY <1>2, <2>2, <2>3
<1> QED
  BY <1>1, <1>2

-----------------------------------------------------------------------------
(* The free blocks of F that end where a block begins, and those that      *)
(* begin where it ends.                                                    *)
Before(F, sizes, node) == {a \in F : a + sizes[a] = node}
Behind(F, sizes, node) == {a \in F : a = node + sizes[node]}
Untouched(F, sizes, node) == F \ (Before(F, sizes, node) \union Behind(F, sizes, node))

(* The ends of the block together with those it touches. *)
JoinsFrom(F, sizes, node, lo) ==
  \/ Before(F, sizes, node) = {} /\ lo = node
  \/ Before(F, sizes, node) = {lo}
JoinsTo(F, sizes, node, hi) ==
  \/ Behind(F, sizes, node) = {} /\ hi = node + sizes[node]
  \/ \E q \in Addrs : Behind(F, sizes, node) = {q} /\ hi = q + sizes[q]

Away(blocks, sizes, lo, hi) == \A a \in blocks : a + sizes[a] < lo \/ hi < a
Resized(sizes, lo, hi) == [sizes EXCEPT ![lo] = hi - lo]
And(bytes, lo, hi) == bytes \union (lo .. hi - 1)
AreaAnd(sizes, node, bytes) == bytes \union Area(sizes, node)

(* A block that is apart from all free blocks joins them from lo to hi:    *)
(* itself and those it touches.                                            *)
LEMMA Joined ==
  ASSUME NEW F \in SUBSET Addrs, NEW sizes \in [Addrs -> Nat], Spaced(F, sizes),
         NEW node \in Addrs, sizes[node] > 0,
         Area(sizes, node) \intersect Covered(F, sizes) = {},
         NEW lo \in Addrs, NEW hi \in Nat,
         JoinsFrom(F, sizes, node, lo), JoinsTo(F, sizes, node, hi)
  PROVE  /\ lo <= node /\ hi >= node + sizes[node]
         /\ Away(Untouched(F, sizes, node), sizes, lo, hi)
         /\ AreaAnd(sizes, node, Covered(F, sizes))
              = And(Covered(Untouched(F, sizes, node), sizes), lo, hi)
<1> DEFINE rest == Untouched(F, sizes, node)
           bs == Before(F, sizes, node)
           fs == Behind(F, sizes, node)
           e == node + sizes[node]
<1>1. /\ F \subseteq Addrs /\ Addrs \subseteq Nat /\ node \in Nat /\ lo \in Nat
      /\ sizes[node] \in Nat /\ e \in Nat /\ node < e
      /\ \A a \in F : a \in Nat /\ sizes[a] \in Nat /\ sizes[a] > 0
      /\ \A a, b \in F : a < b => a + sizes[a] < b
  BY HeapFacts DEF Spaced
<1>2. ASSUME NEW a \in F
      PROVE  a + sizes[a] <= node \/ e <= a
  <2>1. \A x \in Nat : ~ (x \in Area(sizes, node) /\ x \in Area(sizes, a))
    BY DEF Covered
  <2>2. CASE a <= node
    <3>1. node \in Area(sizes, node)
      BY <1>1 DEF Area
    <3>2. node \notin Area(sizes, a)
      BY <1>1, <2>1, <3>1
    <3> QED
      BY <1>1, <2>2, <3>2 DEF Area
  <2>3. CASE node < a
    <3>1. a \in Area(sizes, a)
      BY <1>1 DEF Area
    <3>2. a \notin Area(sizes, node)
      BY <1>1, <2>1, <3>1
    <3> QED
      BY <1>1, <2>3, <3>2 DEF Area
  <2> QED
    BY <1>1, <2>2, <2>3
<1>3. /\ bs \subseteq F /\ \A a \in F : a \in bs <=> a + sizes[a] = node
      /\ fs \subseteq F /\ \A a \in F : a \in fs <=> a = e
      /\ (bs = {} /\ lo = node) \/ bs = {lo}
      /\ rest = F \ (bs \union fs)
  BY DEF Before, Behind, Untouched, JoinsFrom
<1>4. (fs = {} /\ hi = e) \/ \E q \in Addrs : fs = {q} /\ hi = q + sizes[q]
  BY DEF JoinsTo
<1>e. e = node + sizes[node]
  OBVIOUS
<1> HIDE DEF rest, bs, fs, e
<1>5. /\ lo <= node
      /\ \A x \in Nat : x \in lo .. node - 1 <=> \E a \in bs : x \in Area(sizes, a)
  <2>1. CASE bs = {} /\ lo = node
    BY <1>1, <2>1
  <2>2. CASE bs = {lo}
    <3>1. lo \in F /\ lo + sizes[lo] = node /\ sizes[lo] \in Nat
      BY <1>1, <1>3, <2>2
    <3>2. \A x : (\E a \in bs : x \in Area(sizes, a)) <=> x \in Area(sizes, lo)
      BY <2>2
    <3>3. \A x \in Nat : x \in Area(sizes, lo) <=> x \in lo .. node - 1
      BY <1>1, <3>1 DEF Area
    <3> QED
      BY <1>1, <3>1, <3>2, <3>3
  <2> QED
    BY <1>3, <2>1, <2>2
<1>6. /\ hi >= e
      /\ \A x \in Nat : x \in e .. hi - 1 <=> \E a \in fs : x \in Area(sizes, a)
  <2>1. CASE fs = {} /\ hi = e
    BY <1>1, <2>1
  <2>2. ASSUME NEW q \in Addrs, fs = {q}, hi = q + sizes[q]
        PROVE  <1>6
    <3>1. q \in F /\ q = e /\ sizes[q] \in Nat /\ hi = e + sizes[q]
      BY <1>1, <1>3, <2>2
    <3>2. \A x : (\E a \in fs : x \in Area(sizes, a)) <=> x \in Area(sizes, q)
      BY <2>2
    <3>3. \A x \in Nat : x \in Area(sizes, q) <=> x \in e .. hi - 1
      BY <1>1, <3>1 DEF Area
    <3> QED
      BY <1>1, <3>1, <3>2, <3>3
  <2> QED
    BY <1>4, <2>1, <2>2
<1>7. ASSUME NEW a \in rest PROVE a + sizes[a] < lo \/ hi < a
  <2>1. a \in F /\ a + sizes[a] # node /\ a # e
    BY <1>3
  <2>2. CASE a + sizes[a] <= node
    <3>1. CASE bs = {} /\ lo = node
      BY <1>1, <2>1, <2>2, <3>1
    <3>2. CASE bs = {lo}
      <4>1. lo \in F /\ lo + sizes[lo] = node /\ a # lo
        BY <1>3, <2>1, <3>2
      <4>2. a < lo
        BY <1>1, <2>1, <2>2, <4>1
      <4> QED
        BY <1>1, <2>1, <4>1, <4>2
    <3> QED
      BY <1>3, <3>1, <3>2
  <2>3. CASE e <= a
    <3>1. CASE fs = {} /\ hi = e
      BY <1>1, <2>1, <2>3, <3>1
    <3>2. ASSUME NEW q \in Addrs, fs = {q}, hi = q + sizes[q]
          PROVE  hi < a
      <4>1. q \in F /\ q = e
        BY <1>3, <3>2
      <4>2. q < a
        BY <1>1, <2>1, <2>3, <4>1
      <4> QED
        BY <1>1, <2>1, <3>2, <4>1, <4>2
    <3> QED
      BY <1>4, <3>1, <3>2
  <2> QED
    BY <1>2, <2>1, <2>2, <2>3
<1>8. ASSUME NEW x
      PROVE  (x \in Covered(F, sizes) \/ x \in Area(sizes, node))
               <=> (x \in Covered(rest, sizes) \/ x \in lo .. hi - 1)
  <2>1. /\ x \in Covered(F, sizes) <=> \E a \in F : x \in Area(sizes, a)
        /\ x \in Covered(rest, sizes) <=> \E a \in rest : x \in Area(sizes, a)
    BY DEF Covered
  <2>2. F = rest \union bs \union fs
    BY <1>3
  <2>3. CASE x \in Nat
    <3>1. x \in lo .. hi - 1 <=>
            x \in lo .. node - 1 \/ x \in Area(sizes, node) \/ x \in e .. hi - 1
      BY <1>1, <1>5, <1>6, <1>e, <2>3 DEF Area
    <3>2. /\ x \in lo .. node - 1 <=> \E a \in bs : x \in Area(sizes, a)
          /\ x \in e .. hi - 1 <=> \E a \in fs : x \in Area(sizes, a)
      BY <1>5, <1>6, <2>3
    <3> QED
      BY <2>1, <2>2, <3>1, <3>2
  <2>4. CASE x \notin Nat
    <3>1. \A a \in F : x \notin Area(sizes, a)
      BY <1>1, <2>4 DEF Area
    <3>2. x \notin Area(sizes, node) /\ x \notin lo .. hi - 1
      BY <1>1, <2>4 DEF Area
    <3> QED
      BY <2>1, <2>2, <3>1, <3>2
  <2> QED
    BY <2>3, <2>4
<1> QED
  BY <1>5, <1>6, <1>7, <1>8 DEF e, rest, Away, And, AreaAnd

(* Blocks with one more among them that is away from all. *)
LEMMA SpacedWith ==
  ASSUME NEW F \in SUBSET Addrs, NEW sizes \in [Addrs -> Nat], Spaced(F, sizes),
         NEW lo \in Addrs, NEW hi \in Nat, lo < hi,
         NEW rest \in SUBSET F, Away(rest, sizes, lo, hi)
  PROVE  /\ Spaced(rest \union {lo}, Resized(sizes, lo, hi))
         /\ Covered(rest \union {lo}, Resized(sizes, lo, hi))
              = And(Covered(rest, sizes), lo, hi)
<1> DEFINE tz == Resized(sizes, lo, hi)
           n == hi - lo
<1>1. /\ rest \subseteq Addrs /\ Addrs \subseteq Nat /\ lo \in Nat
      /\ \A a \in rest : a \in Nat /\ sizes[a] \in Nat /\ sizes[a] > 0
      /\ \A a, b \in rest : a < b => a + sizes[a] < b
      /\ n \in Nat /\ n > 0 /\ lo + n = hi
      /\ \A a \in rest : a + sizes[a] < lo \/ lo + n < a
  BY HeapFacts DEF Spaced, Away
<1>2. lo \notin rest
  BY <1>1
<1>3. /\ tz[lo] = n
      /\ \A a \in rest : tz[a] = sizes[a]
  BY <1>1, <1>2 DEF Resized
<1> HIDE DEF tz, n
<1>4. Spaced(rest \union {lo}, tz)
  <2>1. \A a \in rest \union {lo} : tz[a] > 0
    BY <1>1, <1>3
  <2>2. ASSUME NEW a \in rest \union {lo}, NEW b \in rest \union {lo}, a < b
        PROVE  a + tz[a] < b
    <3>1. CASE a = lo
      BY <1>1, <1>3, <2>2, <3>1
    <3>2. CASE a \in rest /\ b = lo
      BY <1>1, <1>3, <2>2, <3>2
    <3>3. CASE a \in rest /\ b \in rest
      BY <1>1, <1>3, <2>2, <3>3
    <3> QED
      BY <2>2, <3>1, <3>2, <3>3
  <2> QED
    BY <2>1, <2>2 DEF Spaced
<1>5. Covered(rest \union {lo}, tz) = Covered(rest, sizes) \union (lo .. lo + n - 1)
  <2>1. Area(tz, lo) = lo .. lo + n - 1 /\ \A a \in rest : Area(tz, a) = Area(sizes, a)
    BY <1>3 DEF Area
  <2>2. Covered(rest \union {lo}, tz) = Covered(rest, tz) \union Area(tz, lo)
    BY DEF Covered
  <2>3. Covered(rest, tz) = Covered(rest, sizes)
    BY <2>1 DEF Covered
  <2> QED
    BY <2>1, <2>2, <2>3
<1>6. lo .. lo + n - 1 = lo .. hi - 1
  BY <1>1
<1> QED
  BY <1>4, <1>5, <1>6 DEF tz, And

-----------------------------------------------------------------------------
(* Lists in the order of addresses. *)
LEMMA OrderedFacts ==
  ASSUME NEW list, Ordered(list)
  PROVE  /\ list \in Seq(Addrs) /\ Len(list) \in Nat \ {0}
         /\ \A i \in 1 .. Len(list) : list[i] \in Addrs /\ list[i] \in Nat
         /\ list[Len(list)] = LastNode
         /\ \A i, j \in 1 .. Len(list) : i < j => list[i] < list[j]
         /\ IsInjective(list)
         /\ \A x : x \in Range(list) <=> \E i \in 1 .. Len(list) : list[i] = x
         /\ \A x : x \in Frees(list) <=> \E i \in 1 .. Len(list) - 1 : list[i] = x
         /\ Frees(list) \subseteq Addrs
         /\ \A a \in Frees(list) : a < LastNode
<1>1. /\ list \in Seq(Addrs) /\ Len(list) \in Nat \ {0}
      /\ list[Len(list)] = LastNode
      /\ \A i, j \in 1 .. Len(list) : i < j => list[i] < list[j]
  BY LenProperties DEF Ordered
<1>2. \A i \in 1 .. Len(list) : list[i] \in Addrs /\ list[i] \in Nat
  BY <1>1, ElementOfSeq, HeapFacts
<1>3. /\ \A x : x \in Range(list) <=> \E i \in 1 .. Len(list) : list[i] = x
      /\ IsInjective(list) <=> \A i, j \in 1 .. Len(list) : list[i] = list[j] => i = j
      /\ Range(list) \subseteq Addrs
  BY <1>1, RangeFacts
<1>4. IsInjective(list)
  <2>1. ASSUME NEW i \in 1 .. Len(list), NEW j \in 1 .. Len(list), list[i] = list[j]
        PROVE  i = j
    <3>1. i < j \/ i = j \/ j < i
      BY <1>1
    <3> QED
      BY <1>1, <1>2, <2>1, <3>1
  <2> QED
    BY <1>3, <2>1
<1>5. ASSUME NEW x
      PROVE  x \in Frees(list) <=> \E i \in 1 .. Len(list) - 1 : list[i] = x
  <2>1. x \in Frees(list) <=> x # LastNode /\ \E i \in 1 .. Len(list) : list[i] = x
    BY <1>3 DEF Frees
  <2>2. ASSUME NEW i \in 1 .. Len(list) - 1, list[i] = x
        PROVE  x # LastNode /\ i \in 1 .. Len(list)
    <3>1. i \in 1 .. Len(list) /\ Len(list) \in 1 .. Len(list) /\ i < Len(list)
      BY <1>1
    <3> QED
      BY <1>1, <1>2, <2>2, <3>1
  <2>3. ASSUME NEW i \in 1 .. Len(list), list[i] = x, x # LastNode
        PROVE  i \in 1 .. Len(list) - 1
    BY <1>1, <2>3
  <2> QED
    BY <2>1, <2>2, <2>3
<1>6. ASSUME NEW a \in Frees(list) PROVE a < LastNode
  <2>1. PICK i \in 1 .. Len(list) - 1 : list[i] = a
    BY <1>5
  <2>2. i \in 1 .. Len(list) /\ Len(list) \in 1 .. Len(list) /\ i < Len(list)
    BY <1>1
  <2> QED
    BY <1>1, <2>1, <2>2
<1> QED
  BY <1>1, <1>2, <1>3, <1>4, <1>5, <1>6 DEF Frees

(* Taking a free block out of the list. *)
LEMMA OrderedRemove ==
  ASSUME NEW list, Ordered(list), NEW p \in 1 .. Len(list) - 1
  PROVE  /\ Ordered(RemoveAt(list, p))
         /\ Frees(RemoveAt(list, p)) = Frees(list) \ {list[p]}
<1> DEFINE r == RemoveAt(list, p)
<1>1. /\ list \in Seq(Addrs) /\ Len(list) \in Nat \ {0}
      /\ \A i \in 1 .. Len(list) : list[i] \in Nat
      /\ list[Len(list)] = LastNode
      /\ \A i, j \in 1 .. Len(list) : i < j => list[i] < list[j]
      /\ IsInjective(list)
  BY OrderedFacts
<1>2. p \in 1 .. Len(list) /\ p < Len(list)
  BY <1>1
<1>3. /\ r \in Seq(Addrs) /\ Len(r) = Len(list) - 1
      /\ \A i \in 1 .. Len(list) - 1 : r[i] = IF i < p THEN list[i] ELSE list[i + 1]
  BY <1>1, <1>2, RemoveElements
<1>4. Range(r) = Range(list) \ {list[p]}
  BY <1>1, <1>2, RemoveFacts
<1> HIDE DEF r
<1>5. Len(r) >= 1 /\ r[Len(r)] = LastNode
  BY <1>1, <1>2, <1>3
<1>6. ASSUME NEW i \in 1 .. Len(r), NEW j \in 1 .. Len(r), i < j
      PROVE  r[i] < r[j]
  <2>1. /\ i \in 1 .. Len(list) - 1 /\ j \in 1 .. Len(list) - 1
        /\ i \in 1 .. Len(list) /\ j \in 1 .. Len(list)
        /\ i + 1 \in 1 .. Len(list) /\ j + 1 \in 1 .. Len(list)
    BY <1>1, <1>3
  <2>2. CASE j < p
    <3>1. r[i] = list[i] /\ r[j] = list[j]
      BY <1>2, <1>3, <1>6, <2>1, <2>2
    <3> QED
      BY <1>1, <1>6, <2>1, <3>1
  <2>3. CASE i < p /\ ~ (j < p)
    <3>1. r[i] = list[i] /\ r[j] = list[j + 1] /\ i < j + 1
      BY <1>2, <1>3, <1>6, <2>1, <2>3
    <3> QED
      BY <1>1, <2>1, <3>1
  <2>4. CASE ~ (i < p) /\ ~ (j < p)
    <3>1. r[i] = list[i + 1] /\ r[j] = list[j + 1] /\ i + 1 < j + 1
      BY <1>2, <1>3, <1>6, <2>1, <2>4
    <3> QED
      BY <1>1, <2>1, <3>1
  <2> QED
    BY <1>2, <1>6, <2>1, <2>2, <2>3, <2>4
<1>7. Frees(r) = Frees(list) \ {list[p]}
  BY <1>4 DEF Frees
<1> QED
  BY <1>3, <1>5, <1>6, <1>7 DEF r, Ordered

(* Putting a block into the list at its place. *)
LEMMA OrderedInsert ==
  ASSUME NEW list, Ordered(list), NEW node \in Addrs, node < LastNode,
         NEW p \in 1 .. Len(list),
         \A j \in 1 .. Len(list) : IF j < p THEN list[j] < node ELSE node < list[j]
  PROVE  /\ Ordered(InsertAt(list, p, node))
         /\ Frees(InsertAt(list, p, node)) = Frees(list) \union {node}
<1> DEFINE r == InsertAt(list, p, node)
<1>1. /\ list \in Seq(Addrs) /\ Len(list) \in Nat \ {0}
      /\ \A i \in 1 .. Len(list) : list[i] \in Nat
      /\ list[Len(list)] = LastNode
      /\ \A i, j \in 1 .. Len(list) : i < j => list[i] < list[j]
  BY OrderedFacts
<1>2. p \in 1 .. Len(list) + 1 /\ p \in 1 .. Len(list) /\ node \in Nat /\ LastNode \in Nat
  BY <1>1, HeapFacts
<1>a. r \in Seq(Addrs) /\ Len(r) = Len(list) + 1
  BY <1>1, <1>2, InsertFacts
<1>b. ASSUME NEW i \in 1 .. Len(list) + 1
      PROVE  r[i] = IF i < p THEN list[i] ELSE IF i = p THEN node ELSE list[i - 1]
  BY <1>1, <1>2, InsertFacts
<1>4. Range(r) = Range(list) \union {node}
  BY <1>1, <1>2, InsertRange
<1> HIDE DEF r
<1>5. Len(r) >= 1 /\ r[Len(r)] = LastNode
  <2>1. Len(r) \in 1 .. Len(list) + 1 /\ ~ (Len(r) < p) /\ Len(r) # p
        /\ Len(r) - 1 = Len(list) /\ Len(r) >= 1
    BY <1>1, <1>2, <1>a
  <2>2. r[Len(r)] = list[Len(r) - 1]
    BY <1>b, <2>1
  <2> QED
    BY <1>1, <2>1, <2>2
<1>6. ASSUME NEW i \in 1 .. Len(r), NEW j \in 1 .. Len(r), i < j
      PROVE  r[i] < r[j]
  <2>1. i \in 1 .. Len(list) + 1 /\ j \in 1 .. Len(list) + 1
    BY <1>a
  <2>2. CASE j < p
    <3>1. r[i] = list[i] /\ r[j] = list[j] /\ i \in 1 .. Len(list) /\ j \in 1 .. Len(list)
      BY <1>2, <1>b, <1>6, <2>1, <2>2
    <3> QED
      BY <1>1, <1>6, <3>1
  <2>3. CASE j = p
    <3>1. r[i] = list[i] /\ r[j] = node /\ i \in 1 .. Len(list) /\ i < p
      BY <1>2, <1>b, <1>6, <2>1, <2>3
    <3> QED
      BY <3>1
  <2>4. CASE j > p
    <3>1. r[j] = list[j - 1] /\ j - 1 \in 1 .. Len(list) /\ ~ (j - 1 < p)
      BY <1>1, <1>2, <1>b, <2>1, <2>4
    <3>2. node < list[j - 1]
      BY <3>1
    <3>3. CASE i < p
      <4>1. r[i] = list[i] /\ i \in 1 .. Len(list) /\ i < j - 1
        BY <1>1, <1>2, <1>b, <2>1, <2>4, <3>3
      <4> QED
        BY <1>1, <3>1, <4>1
    <3>4. CASE i = p
      <4>1. r[i] = node
        BY <1>b, <2>1, <3>4
      <4> QED
        BY <3>1, <3>2, <4>1
    <3>5. CASE i > p
      <4>1. r[i] = list[i - 1] /\ i - 1 \in 1 .. Len(list) /\ i - 1 < j - 1
        BY <1>1, <1>2, <1>6, <1>b, <2>1, <3>5
      <4> QED
        BY <1>1, <3>1, <4>1
    <3> QED
      BY <1>2, <2>1, <3>3, <3>4, <3>5
  <2> QED
    BY <1>2, <2>1, <2>2, <2>3, <2>4
<1>7. Frees(r) = Frees(list) \union {node}
  BY <1>2, <1>4 DEF Frees
<1> QED
  BY <1>a, <1>5, <1>6, <1>7 DEF r, Ordered

(* The place of a block is before the first free block above it. *)
LEMMA PlaceFacts ==
  ASSUME NEW list, Ordered(list), NEW node \in Addrs, node < LastNode,
         node \notin Frees(list)
  PROVE  /\ Place(list, node) \in 1 .. Len(list)
         /\ \A j \in 1 .. Len(list) :
              IF j < Place(list, node) THEN list[j] < node ELSE node < list[j]
<1> DEFINE above == {i \in 1 .. Len(list) : list[i] > node}
           p == Place(list, node)
<1>1. /\ Len(list) \in Nat \ {0} /\ node \in Nat
      /\ \A i \in 1 .. Len(list) : list[i] \in Nat
      /\ list[Len(list)] = LastNode
      /\ \A i, j \in 1 .. Len(list) : i < j => list[i] < list[j]
      /\ \A x : x \in Range(list) <=> \E i \in 1 .. Len(list) : list[i] = x
  BY OrderedFacts, HeapFacts
<1>2. above \in SUBSET (1 .. Len(list)) /\ Len(list) \in above /\ p = FirstOf(above)
  BY <1>1 DEF Place
<1>3. p \in above /\ \A i \in above : p <= i
  <2> HIDE DEF above, p
  <2> QED
    BY <1>1, <1>2, FirstOfFacts
<1> HIDE DEF p
<1>4. ASSUME NEW j \in 1 .. Len(list)
      PROVE  IF j < p THEN list[j] < node ELSE node < list[j]
  <2>1. list[j] # node
    <3>1. list[j] \in Range(list)
      BY <1>1
    <3> QED
      BY <1>1, <3>1, HeapFacts DEF Frees
  <2>2. CASE j < p
    <3>1. j \notin above
      BY <1>3, <2>2
    <3> QED
      BY <1>1, <2>1, <2>2, <3>1
  <2>3. CASE ~ (j < p)
    <3>1. p \in 1 .. Len(list) /\ list[p] > node /\ (p = j \/ p < j)
      BY <1>3, <2>3
    <3>2. list[j] > node
      BY <1>1, <3>1
    <3> QED
      BY <1>1, <2>3, <3>2
  <2> QED
    BY <2>2, <2>3
<1> QED
  BY <1>3, <1>4 DEF p

(* What is to be had of inserting a free block: its bytes are free, the    *)
(* list stays in order and has no blocks that touch.                       *)
Inserted(list, sizes, node, r) ==
  /\ Ordered(r.nodes)
  /\ r.size \in [Addrs -> Nat]
  /\ Spaced(Frees(r.nodes), r.size)
  /\ Covered(Frees(r.nodes), r.size)
       = Covered(Frees(list), sizes) \union Area(sizes, node)
  /\ Frees(r.nodes) \subseteq Frees(list) \union {node}
  /\ \A a \in Addrs : a \notin Frees(r.nodes) => r.size[a] = sizes[a]
  /\ \A a \in Addrs : a \notin Frees(list) \union {node} => r.size[a] = sizes[a]

LEMMA InsertFreeFacts ==
  ASSUME NEW list, Ordered(list), NEW sizes \in [Addrs -> Nat],
         Spaced(Frees(list), sizes),
         NEW node \in Addrs, node < LastNode, sizes[node] > 0,
         Area(sizes, node) \intersect Covered(Frees(list), sizes) = {}
  PROVE  Inserted(list, sizes, node, InsertFree(list, sizes, node))
<1> DEFINE r == InsertFree(list, sizes, node)
           F == Frees(list)
           i == Place(list, node)
           e == node + sizes[node]
           backward == i > 1 /\ Adjacent(sizes, list[i - 1], node)
           forward == Adjacent(sizes, node, list[i]) /\ list[i] # LastNode
           gained == IF forward THEN sizes[list[i]] ELSE 0
           left == IF forward THEN RemoveAt(list, i) ELSE list
           lo == IF backward THEN list[i - 1] ELSE node
           hi == e + gained
           bs == Before(F, sizes, node)
           fs == Behind(F, sizes, node)
           rest == Untouched(F, sizes, node)
<1>1. /\ Len(list) \in Nat \ {0}
      /\ \A j \in 1 .. Len(list) : list[j] \in Addrs /\ list[j] \in Nat
      /\ list[Len(list)] = LastNode
      /\ \A j, k \in 1 .. Len(list) : j < k => list[j] < list[k]
      /\ \A x : x \in F <=> \E j \in 1 .. Len(list) - 1 : list[j] = x
      /\ F \in SUBSET Addrs
      /\ \A a \in F : a < LastNode
  BY OrderedFacts
<1>2. /\ node \in Nat /\ e \in Nat /\ node < e /\ e = node + sizes[node]
      /\ sizes[node] \in Nat
      /\ LastNode \in Nat /\ Addrs \subseteq Nat
      /\ \A a \in F : a \in Nat /\ sizes[a] \in Nat /\ sizes[a] > 0
      /\ \A a, b \in F : a < b => a + sizes[a] < b
  <2>1. LastNode \in Nat /\ Addrs \subseteq Nat /\ node \in Nat
    BY HeapFacts
  <2>2. sizes[node] \in Nat
    OBVIOUS
  <2>3. /\ \A a \in F : sizes[a] > 0
        /\ \A a, b \in F : a < b => a + sizes[a] < b
    BY DEF Spaced
  <2>4. \A a \in F : a \in Nat /\ sizes[a] \in Nat
    BY <1>1, <2>1
  <2> HIDE DEF F
  <2>5. e \in Nat /\ node < e /\ e = node + sizes[node]
    BY <2>1, <2>2
  <2> QED
    BY <2>1, <2>2, <2>3, <2>4, <2>5
<1>3. \A a \in F : a \notin Area(sizes, node) /\ node \notin Area(sizes, a)
  <2>1. ASSUME NEW a \in F PROVE a \notin Area(sizes, node) /\ node \notin Area(sizes, a)
    <3>1. a \in Area(sizes, a) /\ node \in Area(sizes, node)
      BY <1>2 DEF Area
    <3>2. Area(sizes, a) \subseteq Covered(F, sizes)
      BY DEF Covered
    <3> QED
      BY <3>1, <3>2
  <2> QED
    BY <2>1
<1>4. node \notin F
  BY <1>2, <1>3 DEF Area
<1>5. /\ i \in 1 .. Len(list)
      /\ \A j \in 1 .. Len(list) : IF j < i THEN list[j] < node ELSE node < list[j]
  BY <1>4, PlaceFacts
<1>6. /\ backward <=> i > 1 /\ list[i - 1] + sizes[list[i - 1]] = node
      /\ forward <=> e = list[i] /\ list[i] # LastNode
  BY DEF Adjacent
<1>7. /\ backward => lo = list[i - 1]
      /\ ~ backward => lo = node
      /\ forward => hi = e + sizes[list[i]] /\ left = RemoveAt(list, i)
                    /\ gained = sizes[list[i]]
      /\ ~ forward => hi = e + 0 /\ left = list /\ gained = 0
      /\ rest = F \ (bs \union fs)
  BY DEF Untouched
<1>8. r = IF backward
            THEN [nodes |-> left,
                  size |-> [sizes EXCEPT ![list[i - 1]] = @ + sizes[node] + gained]]
            ELSE [nodes |-> InsertAt(left, i, node),
                  size |-> [sizes EXCEPT ![node] = @ + gained]]
  <2>1. i # 0
    BY <1>1, <1>5
  <2> QED
    BY <2>1, Zenon DEF InsertFree
<1>9. /\ \A a \in F : a \in bs <=> a + sizes[a] = node
      /\ \A a \in F : a \in fs <=> a = e
      /\ bs \subseteq F /\ fs \subseteq F
  BY DEF Before, Behind
<1> HIDE DEF r, F, i, e, backward, forward, gained, left, lo, hi, bs, fs, rest
<1>10. /\ backward => lo \in F /\ bs = {lo}
       /\ ~ backward => bs = {}
  <2>1. ASSUME backward PROVE i > 1 /\ i - 1 \in 1 .. Len(list) - 1 /\ lo \in F /\ lo \in bs
    <3>1. i > 1 /\ i - 1 \in 1 .. Len(list) - 1 /\ lo = list[i - 1]
      BY <1>1, <1>5, <1>6, <1>7, <2>1
    <3>2. lo \in F
      BY <1>1, <3>1
    <3> QED
      BY <1>6, <1>9, <2>1, <3>1, <3>2
  <2>2. ASSUME NEW a \in bs PROVE backward /\ a = lo
    <3>1. a \in F /\ a + sizes[a] = node /\ a < node
      BY <1>2, <1>9
    <3>2. PICK j \in 1 .. Len(list) - 1 : list[j] = a
      BY <1>1, <3>1
    <3>3. j < i /\ i > 1 /\ i - 1 \in 1 .. Len(list) - 1 /\ i - 1 \in 1 .. Len(list)
          /\ j \in 1 .. Len(list) /\ i - 1 < i
      <4>1. j \in 1 .. Len(list) /\ Len(list) \in Nat
        BY <1>1
      <4>2. list[j] < node /\ list[j] \in Nat /\ node \in Nat
        BY <1>2, <3>1, <3>2
      <4>3. ~ (node < list[j])
        BY <4>2
      <4>4. j < i
        BY <1>5, <4>1, <4>3
      <4> QED
        BY <1>5, <4>1, <4>4
    <3>4. list[i - 1] \in F /\ list[i - 1] < node
      BY <1>1, <1>5, <3>3
    <3>5. j = i - 1
      <4>1. CASE j < i - 1
        <5>1. a < list[i - 1]
          BY <1>1, <3>2, <3>3, <4>1
        <5> QED
          BY <1>2, <3>1, <3>4, <5>1
      <4> QED
        BY <1>1, <1>5, <3>3, <4>1
    <3> QED
      BY <1>6, <1>7, <3>1, <3>2, <3>3, <3>5
  <2> QED
    BY <2>1, <2>2
<1>11. /\ forward => list[i] \in F /\ i \in 1 .. Len(list) - 1 /\ fs = {list[i]}
       /\ ~ forward => fs = {}
  <2>1. ASSUME forward PROVE i \in 1 .. Len(list) - 1 /\ list[i] \in F /\ list[i] \in fs
    <3>1. i \in 1 .. Len(list) - 1
      BY <1>1, <1>5, <1>6, <2>1
    <3> QED
      BY <1>1, <1>6, <1>9, <2>1, <3>1
  <2>2. ASSUME NEW a \in fs PROVE forward /\ a = list[i]
    <3>1. a \in F /\ a = e /\ node < a /\ a < LastNode
      BY <1>1, <1>2, <1>9
    <3>2. PICK j \in 1 .. Len(list) - 1 : list[j] = a
      BY <1>1, <3>1
    <3>3. j \in 1 .. Len(list) /\ ~ (j < i)
      BY <1>1, <1>2, <1>5, <3>1, <3>2
    <3>4. j = i
      <4>1. CASE i < j
        <5>1. i \in 1 .. Len(list) - 1 /\ list[i] < a /\ list[i] \in F
          BY <1>1, <1>5, <3>2, <3>3, <4>1
        <5>2. node < list[i]
          BY <1>5
        <5>3. list[i] \notin Area(sizes, node)
          BY <1>3, <5>1
        <5>4. list[i] \in Nat /\ list[i] < e
          BY <1>2, <3>1, <5>1
        <5>5. list[i] \in node .. e - 1
          BY <1>2, <5>2, <5>4
        <5> QED
          BY <1>2, <5>3, <5>5 DEF Area
      <4> QED
        BY <1>1, <1>5, <3>3, <4>1
    <3>5. e = list[i] /\ list[i] # LastNode
      BY <1>2, <3>1, <3>2, <3>4
    <3> QED
      BY <1>6, <3>1, <3>5
  <2> QED
    BY <2>1, <2>2
<1>12. lo \in Addrs /\ hi \in Nat
  <2>1. lo \in Addrs
    BY <1>1, <1>7, <1>10
  <2>2. hi \in Nat
    BY <1>2, <1>7, <1>11
  <2> QED
    BY <2>1, <2>2
<1>13. JoinsFrom(F, sizes, node, lo) /\ JoinsTo(F, sizes, node, hi)
  <2>1. JoinsFrom(F, sizes, node, lo)
    BY <1>7, <1>10 DEF JoinsFrom, bs
  <2>2. ASSUME forward
        PROVE  \E q \in Addrs : fs = {q} /\ hi = q + sizes[q]
    <3>1. fs = {list[i]} /\ list[i] \in Addrs /\ e = list[i]
      BY <1>1, <1>6, <1>11, <2>2
    <3>2. hi = e + sizes[list[i]]
      BY <1>7, <2>2
    <3>3. hi = list[i] + sizes[list[i]]
      BY <3>1, <3>2
    <3> QED
      BY <3>1, <3>3
  <2>3. ASSUME ~ forward
        PROVE  fs = {} /\ hi = e
    BY <1>2, <1>7, <1>11, <2>3
  <2>4. JoinsTo(F, sizes, node, hi)
    BY <1>2, <2>2, <2>3 DEF JoinsTo, fs
  <2> QED
    BY <2>1, <2>4
<1>14. /\ lo <= node /\ hi >= e
       /\ Away(rest, sizes, lo, hi)
       /\ AreaAnd(sizes, node, Covered(F, sizes)) = And(Covered(rest, sizes), lo, hi)
  <2>1. Area(sizes, node) \intersect Covered(F, sizes) = {} /\ Spaced(F, sizes)
    BY DEF F
  <2>2. F \in SUBSET Addrs
    BY <1>1
  <2>3. lo <= node /\ hi >= node + sizes[node]
    BY <1>12, <1>13, <2>1, <2>2, Joined
  <2>4. Away(Untouched(F, sizes, node), sizes, lo, hi)
    BY <1>12, <1>13, <2>1, <2>2, Joined
  <2>5. AreaAnd(sizes, node, Covered(F, sizes))
          = And(Covered(Untouched(F, sizes, node), sizes), lo, hi)
    BY <1>12, <1>13, <2>1, <2>2, Joined
  <2> QED
    BY <1>2, <2>3, <2>4, <2>5 DEF rest
<1> DEFINE n == hi - lo
<1>15. n \in Nat /\ lo < hi /\ lo + n = hi /\ lo \in Nat
  BY <1>2, <1>12, <1>14
<1>16. rest \in SUBSET F
  BY <1>7
<1>17. /\ r.size = Resized(sizes, lo, hi)
       /\ Ordered(r.nodes) /\ Frees(r.nodes) = rest \union {lo}
  <2>1. /\ Ordered(left) /\ Frees(left) = F \ fs
    <3>1. CASE forward
      BY <1>7, <1>11, <3>1, OrderedRemove DEF F
    <3>2. CASE ~ forward
      BY <1>7, <1>11, <3>2 DEF F
    <3> QED
      BY <3>1, <3>2
  <2>2. CASE backward
    <3>1. r.nodes = left /\ lo = list[i - 1]
          /\ r.size = [sizes EXCEPT ![list[i - 1]] = sizes[list[i - 1]] + sizes[node] + gained]
      BY <1>7, <1>8, <2>2
    <3>2. lo + sizes[lo] = node /\ lo \in F /\ bs = {lo}
      BY <1>6, <1>7, <1>10, <2>2
    <3>3. hi = e + gained /\ gained \in Nat
      BY <1>2, <1>7, <1>11
    <3>4. n = sizes[lo] + sizes[node] + gained
      BY <1>2, <1>15, <3>2, <3>3
    <3>5. lo \notin fs
      BY <1>2, <1>9, <1>14, <3>2
    <3>6. F \ fs = rest \union {lo}
      BY <1>7, <3>2, <3>5
    <3> QED
      BY <2>1, <3>1, <3>4, <3>6 DEF Resized
  <2>3. CASE ~ backward
    <3>1. r.nodes = InsertAt(left, i, node) /\ lo = node
          /\ r.size = [sizes EXCEPT ![node] = sizes[node] + gained]
      BY <1>7, <1>8, <2>3
    <3>2. hi = e + gained /\ gained \in Nat
      BY <1>2, <1>7, <1>11
    <3>3. n = sizes[node] + gained
      BY <1>2, <1>15, <3>1, <3>2
    <3>4. i \in 1 .. Len(left)
          /\ \A j \in 1 .. Len(left) : IF j < i THEN left[j] < node ELSE node < left[j]
      <4>1. CASE ~ forward
        BY <1>5, <1>7, <4>1
      <4>2. CASE forward
        <5>1. /\ list \in Seq(Addrs) /\ i \in 1 .. Len(list) /\ i \in 1 .. Len(list) - 1
              /\ left = RemoveAt(list, i)
          BY <1>5, <1>7, <1>11, <4>2, OrderedFacts
        <5>2. /\ Len(left) = Len(list) - 1
              /\ \A j \in 1 .. Len(list) - 1 :
                   left[j] = IF j < i THEN list[j] ELSE list[j + 1]
          <6>1. /\ Len(RemoveAt(list, i)) = Len(list) - 1
                /\ \A j \in 1 .. Len(list) - 1 :
                     RemoveAt(list, i)[j] = IF j < i THEN list[j] ELSE list[j + 1]
            BY <5>1, RemoveElements
          <6> QED
            BY <5>1, <6>1, Zenon
        <5>3. ASSUME NEW j \in 1 .. Len(left)
              PROVE  IF j < i THEN left[j] < node ELSE node < left[j]
          <6>1. j \in 1 .. Len(list) - 1 /\ j \in 1 .. Len(list) /\ j + 1 \in 1 .. Len(list)
            BY <1>1, <5>2
          <6>2. CASE j < i
            BY <1>5, <5>2, <6>1, <6>2
          <6>3. CASE ~ (j < i)
            <7>1. left[j] = list[j + 1] /\ ~ (j + 1 < i)
              BY <1>5, <5>2, <6>1, <6>3
            <7> QED
              BY <1>5, <6>1, <6>3, <7>1
          <6> QED
            BY <6>2, <6>3
        <5> QED
          BY <5>1, <5>2, <5>3
      <4> QED
        BY <4>1, <4>2
    <3>5. Ordered(r.nodes) /\ Frees(r.nodes) = (F \ fs) \union {node}
      BY <2>1, <3>1, <3>4, OrderedInsert
    <3>6. F \ fs = rest
      BY <1>7, <1>10, <2>3
    <3> QED
      BY <3>1, <3>3, <3>5, <3>6 DEF Resized
  <2> QED
    BY <2>2, <2>3
<1>18. /\ Spaced(rest \union {lo}, Resized(sizes, lo, hi))
       /\ Covered(rest \union {lo}, Resized(sizes, lo, hi))
            = And(Covered(rest, sizes), lo, hi)
  <2>1. Spaced(F, sizes)
    BY DEF F
  <2>2. F \in SUBSET Addrs /\ lo \in Addrs /\ hi \in Nat /\ lo < hi
        /\ Away(rest, sizes, lo, hi)
    BY <1>1, <1>12, <1>14, <1>15
  <2> HIDE DEF n
  <2>3. Spaced(rest \union {lo}, Resized(sizes, lo, hi))
    BY <1>16, <2>1, <2>2, SpacedWith
  <2>4. Covered(rest \union {lo}, Resized(sizes, lo, hi))
          = And(Covered(rest, sizes), lo, hi)
    BY <1>16, <2>1, <2>2, SpacedWith
  <2> QED
    BY <2>3, <2>4
<1>19. r.size \in [Addrs -> Nat]
  BY <1>12, <1>15, <1>17 DEF Resized
<1>20. Covered(Frees(r.nodes), r.size) = Covered(F, sizes) \union Area(sizes, node)
  BY <1>14, <1>17, <1>18 DEF AreaAnd
<1>21. lo \in F \union {node}
  BY <1>7, <1>10
<1>22. \A a \in Addrs : a # lo => r.size[a] = sizes[a]
  BY <1>17 DEF Resized
<1> QED
  BY <1>16, <1>17, <1>18, <1>19, <1>20, <1>21, <1>22 DEF F, Inserted, r

-----------------------------------------------------------------------------
(* Two free blocks have no byte in common. *)
LEMMA SpacedApart ==
  ASSUME NEW F \in SUBSET Addrs, NEW sizes \in [Addrs -> Nat], Spaced(F, sizes)
  PROVE  \A a, b \in F : a # b => Area(sizes, a) \intersect Area(sizes, b) = {}
<1>1. /\ \A a \in F : a \in Nat /\ sizes[a] \in Nat
      /\ \A a, b \in F : a < b => a + sizes[a] < b
  BY HeapFacts DEF Spaced
<1>2. ASSUME NEW a \in F, NEW b \in F, a # b
      PROVE  Area(sizes, a) \intersect Area(sizes, b) = {}
  <2>1. CASE a < b
    BY <1>1, <2>1 DEF Area
  <2>2. CASE b < a
    BY <1>1, <2>2 DEF Area
  <2> QED
    BY <1>1, <1>2, <2>1, <2>2
<1> QED
  BY <1>2

(* What the invariant says of single blocks. *)
LEMMA BlocksApart ==
  ASSUME SlobInv
  PROVE  /\ size \in [Addrs -> Nat]
         /\ Frees(nodes) \in SUBSET Addrs
         /\ held \intersect Frees(nodes) = {}
         /\ LastNode \notin held /\ LastNode \notin Frees(nodes)
         /\ \A a \in Frees(nodes), b \in held :
              Area(size, a) \intersect Area(size, b) = {}
         /\ \A a, b \in Frees(nodes) :
              a # b => Area(size, a) \intersect Area(size, b) = {}
         /\ \A a \in Frees(nodes) \union held :
              a \in Area(size, a) /\ a \in Nat /\ size[a] \in Nat /\ a < LastNode
<1>1. /\ size \in [Addrs -> Nat] /\ Frees(nodes) \in SUBSET Addrs
      /\ \A a \in Frees(nodes) : a < LastNode /\ size[a] > 0
      /\ \A a \in held : a < LastNode /\ size[a] > 0
      /\ held \subseteq Addrs /\ LastNode \in Nat /\ Addrs \subseteq Nat
      /\ Total \in Nat
  <2>1. /\ Frees(nodes) \subseteq Addrs
        /\ \A a \in Frees(nodes) : a < LastNode
    BY OrderedFacts DEF SlobInv
  <2>2. size \in [Addrs -> 0 .. Total] /\ Total \in Nat
    BY HeapFacts DEF SlobInv
  <2> QED
    BY <2>1, <2>2, HeapFacts DEF SlobInv, Spaced
<1>2. \A a \in Frees(nodes), b \in held : Area(size, a) \intersect Area(size, b) = {}
  <2>1. Covered(Frees(nodes), size) \intersect Covered(held, size) = {}
    BY DEF SlobInv
  <2> QED
    BY <2>1 DEF Covered
<1>3. \A a \in Frees(nodes) \union held : a \in Area(size, a)
  <2>1. ASSUME NEW a \in Frees(nodes) PROVE a \in Area(size, a)
    <3>1. a \in Nat /\ size[a] \in Nat /\ size[a] > 0
      BY <1>1
    <3> QED
      BY <3>1 DEF Area
  <2>2. ASSUME NEW a \in held PROVE a \in Area(size, a)
    BY <1>1, <2>2 DEF Area
  <2> QED
    BY <2>1, <2>2
<1>4. held \intersect Frees(nodes) = {}
  BY <1>2, <1>3
<1>5. LastNode \notin held /\ LastNode \notin Frees(nodes)
  BY <1>1
<1>6. \A a, b \in Frees(nodes) : a # b => Area(size, a) \intersect Area(size, b) = {}
  BY <1>1, SpacedApart DEF SlobInv
<1> QED
  BY <1>1, <1>2, <1>3, <1>4, <1>5, <1>6

(* A block whose bytes are all in the heap is not larger than it. *)
LEMMA WithinHeap ==
  ASSUME NEW a \in Addrs, NEW n \in Nat,
         a .. a + n - 1 \subseteq StartAddr .. StartAddr + Total - 1
  PROVE  n <= Total
<1>1. a \in Nat /\ a >= StartAddr /\ StartAddr \in Nat /\ Total \in Nat
  BY HeapFacts
<1>2. CASE n > 0
  <2> DEFINE z == a + n - 1
  <2>1. z \in Nat /\ z = a + n - 1 /\ a <= z
    BY <1>1, <1>2
  <2>2. z \in a .. a + n - 1
    BY <1>1, <2>1
  <2>3. z \in StartAddr .. StartAddr + Total - 1
    BY <2>2
  <2> HIDE DEF z
  <2>4. z <= StartAddr + Total - 1
    BY <1>1, <2>3
  <2> QED
    BY <1>1, <2>1, <2>4
<1> QED
  BY <1>1, <1>2

(* Counting the bytes of a block with others it has none in common with. *)
LEMMA CountBytes ==
  ASSUME NEW bytes, bytes \subseteq StartAddr .. StartAddr + Total - 1,
         NEW a \in Nat, NEW n \in Nat, bytes \intersect (a .. a + n - 1) = {}
  PROVE  /\ Cardinality(bytes \union (a .. a + n - 1)) = Cardinality(bytes) + n
         /\ Cardinality(bytes) \in Nat
<1>1. StartAddr \in Int /\ StartAddr + Total - 1 \in Int
  BY HeapFacts
<1>2. IsFiniteSet(StartAddr .. StartAddr + Total - 1)
  BY <1>1, FS_Interval
<1>3. IsFiniteSet(bytes) /\ Cardinality(bytes) \in Nat
  BY <1>2, FS_Subset, FS_CardinalityType
<1>4. a \in Int /\ a + n - 1 \in Int
  OBVIOUS
<1>5. /\ IsFiniteSet(a .. a + n - 1)
      /\ Cardinality(a .. a + n - 1)
           = IF a > a + n - 1 THEN 0 ELSE (a + n - 1) - a + 1
  BY <1>4, FS_Interval
<1>6. (IF a > a + n - 1 THEN 0 ELSE (a + n - 1) - a + 1) = n
  OBVIOUS
<1>7. Cardinality(bytes \union (a .. a + n - 1))
        = Cardinality(bytes) + Cardinality(a .. a + n - 1)
            - Cardinality(bytes \intersect (a .. a + n - 1))
  BY <1>3, <1>5, FS_Union
<1>8. Cardinality(bytes \intersect (a .. a + n - 1)) = 0
  BY FS_EmptySet
<1> QED
  BY <1>3, <1>5, <1>6, <1>7, <1>8

(* No size in a heap that is tiled is larger than it, if none is among the *)
(* blocks that are neither free nor held.                                 *)
LEMMA SizesBounded ==
  ASSUME NEW F \in SUBSET Addrs, NEW O \in SUBSET Addrs, NEW sizes \in [Addrs -> Nat],
         Covered(F, sizes) \union Covered(O, sizes)
           \subseteq StartAddr .. StartAddr + Total - 1,
         \A a \in Addrs : a \notin F \union O => sizes[a] <= Total
  PROVE  sizes \in [Addrs -> 0 .. Total]
<1>1. ASSUME NEW a \in Addrs PROVE sizes[a] \in 0 .. Total
  <2>1. Total \in Nat /\ sizes[a] \in Nat
    BY HeapFacts
  <2>2. CASE a \in F \union O
    <3>1. Area(sizes, a) \subseteq StartAddr .. StartAddr + Total - 1
      BY <2>2 DEF Covered
    <3>2. sizes[a] <= Total
      BY <2>1, <3>1, WithinHeap DEF Area
    <3> QED
      BY <2>1, <3>2
  <2>3. CASE a \notin F \union O
    BY <2>1, <2>3
  <2> QED
    BY <2>2, <2>3
<1> QED
  BY <1>1

-----------------------------------------------------------------------------
(* The steps. *)
LEMMA InitInv == InitSlob => SlobInv
<1> SUFFICES ASSUME InitSlob PROVE SlobInv
  OBVIOUS
<1>1. /\ StartAddr \in Addrs /\ LastNode \in Addrs /\ StartAddr < LastNode
      /\ StartAddr \in Nat /\ LastNode \in Nat /\ Total \in Nat /\ Total > 0
      /\ LastNode < StartAddr + Total
  <2>1. Total > 0
    BY HeapFacts
  <2> QED
    BY <2>1, HeapFacts
<1>2. nodes = <<StartAddr, LastNode>> /\ statsUsed = 0 /\ held = {}
  BY DEF InitSlob
<1>3. /\ nodes \in Seq(Addrs) /\ Len(nodes) = 2
      /\ nodes[1] = StartAddr /\ nodes[2] = LastNode
  BY <1>1, <1>2
<1>4. size \in [Addrs -> 0 .. Total] /\ size[StartAddr] = Total /\ size[LastNode] = 0
  BY <1>1 DEF InitSlob
<1>5. Ordered(nodes)
  <2>1. ASSUME NEW i \in 1 .. Len(nodes), NEW j \in 1 .. Len(nodes), i < j
        PROVE  nodes[i] < nodes[j]
    <3>1. i = 1 /\ j = 2
      BY <1>3, <2>1
    <3> QED
      BY <1>1, <1>3, <3>1
  <2> QED
    BY <1>3, <2>1 DEF Ordered
<1>6. Frees(nodes) = {StartAddr}
  <2>1. \A x : x \in Frees(nodes) <=> \E i \in 1 .. Len(nodes) - 1 : nodes[i] = x
    BY <1>5, OrderedFacts
  <2>2. 1 .. Len(nodes) - 1 = {1}
    BY <1>3
  <2> QED
    BY <1>3, <2>1, <2>2
<1>7. Spaced(Frees(nodes), size)
  BY <1>1, <1>4, <1>6 DEF Spaced
<1>8. Covered(Frees(nodes), size) = StartAddr .. StartAddr + Total - 1
  BY <1>4, <1>6 DEF Covered, Area
<1>9. Covered(held, size) = {}
  BY <1>2 DEF Covered
<1>10. statsUsed = Cardinality(Covered(held, size))
  BY <1>2, <1>9, FS_EmptySet
<1> QED
  BY <1>2, <1>4, <1>5, <1>7, <1>8, <1>9, <1>10 DEF SlobInv

(* A free block is large enough: none of this is said of last_node. *)
LEMMA FirstFitFacts ==
  ASSUME SlobInv, NEW n \in Nat \ {0}, FirstFit(n) # 0
  PROVE  /\ FirstFit(n) \in 1 .. Len(nodes) - 1
         /\ nodes[FirstFit(n)] \in Frees(nodes)
         /\ size[nodes[FirstFit(n)]] >= n
<1> DEFINE large == {i \in 1 .. Len(nodes) : size[nodes[i]] >= n}
           i == FirstFit(n)
<1>1. /\ Len(nodes) \in Nat \ {0} /\ nodes[Len(nodes)] = LastNode
      /\ \A x : x \in Frees(nodes) <=> \E j \in 1 .. Len(nodes) - 1 : nodes[j] = x
      /\ size[LastNode] = 0
  BY OrderedFacts DEF SlobInv
<1>2. i = FirstOf(large) /\ large \in SUBSET (1 .. Len(nodes))
  BY DEF FirstFit
<1>3. i \in large
  <2>1. i # 0
    OBVIOUS
  <2> HIDE DEF large, i
  <2>2. Len(nodes) \in Nat
    BY <1>1
  <2>3. large = {} => i = 0
    BY <1>2, <2>2, FirstOfFacts
  <2>4. large # {} => FirstOf(large) \in large
    BY <1>2, <2>2, FirstOfFacts
  <2> QED
    BY <1>2, <2>1, <2>3, <2>4
<1>4. i \in 1 .. Len(nodes) /\ size[nodes[i]] >= n
  BY <1>3
<1> HIDE DEF i, large
<1>5. i # Len(nodes)
  BY <1>1, <1>4
<1>6. i \in 1 .. Len(nodes) - 1
  BY <1>1, <1>4, <1>5
<1> QED
  BY <1>1, <1>4, <1>6 DEF i

LEMMA TakeWholeStep ==
  ASSUME SlobInv, NEW i \in 1 .. Len(nodes) - 1, TakeWhole(i)
  PROVE  SlobInv'
<1> DEFINE it == nodes[i]
           F == Frees(nodes)
           F1 == Frees(nodes')
           C == Covered(held, size)
<1>1. /\ nodes' = RemoveAt(nodes, i)
      /\ statsUsed' = statsUsed + size[it]
      /\ held' = held \union {it}
      /\ size' = size
  BY DEF TakeWhole
<1>2. Ordered(nodes') /\ F1 = F \ {it}
  BY <1>1, OrderedRemove DEF SlobInv
<1>3. it \in F
  BY OrderedFacts DEF SlobInv
<1>4. /\ size \in [Addrs -> Nat] /\ F \in SUBSET Addrs
      /\ held \intersect F = {}
      /\ \A a \in F, b \in held : Area(size, a) \intersect Area(size, b) = {}
      /\ \A a, b \in F : a # b => Area(size, a) \intersect Area(size, b) = {}
      /\ \A a \in F \union held :
           a \in Area(size, a) /\ a \in Nat /\ size[a] \in Nat /\ a < LastNode
  BY BlocksApart
<1>5. /\ size \in [Addrs -> 0 .. Total] /\ size[LastNode] = 0
      /\ Spaced(F, size) /\ held \subseteq Addrs
      /\ \A a \in held : a < LastNode /\ size[a] > 0
      /\ \A a, b \in held : a # b => Area(size, a) \intersect Area(size, b) = {}
      /\ Covered(F, size) \intersect C = {}
      /\ Covered(F, size) \union C = StartAddr .. StartAddr + Total - 1
      /\ statsUsed = Cardinality(C)
  BY DEF SlobInv
<1> HIDE DEF F, F1, it
<1>6. /\ Covered(F, size) = Covered(F1, size) \union Area(size, it)
      /\ Covered(held', size) = C \union Area(size, it)
      /\ Covered(F1, size) \intersect Area(size, it) = {}
  <2>1. Covered(F, size) = Covered(F1, size) \union Area(size, it)
    BY <1>2, <1>3 DEF Covered
  <2>2. Covered(held', size) = C \union Area(size, it)
    BY <1>1 DEF Covered
  <2>3. Covered(F1, size) \intersect Area(size, it) = {}
    BY <1>2, <1>3, <1>4 DEF Covered
  <2> QED
    BY <2>1, <2>2, <2>3
<1>7. Spaced(F1, size)
  BY <1>2, <1>5 DEF Spaced
<1>8. /\ Covered(F1, size) \intersect Covered(held', size) = {}
      /\ Covered(F1, size) \union Covered(held', size)
           = StartAddr .. StartAddr + Total - 1
  BY <1>5, <1>6
<1>9. /\ held' \subseteq Addrs
      /\ \A a \in held' : a < LastNode /\ size[a] > 0
  BY <1>1, <1>3, <1>4, <1>5 DEF Spaced
<1>10. \A a, b \in held' : a # b => Area(size, a) \intersect Area(size, b) = {}
  BY <1>1, <1>3, <1>4, <1>5
<1>11. statsUsed' = Cardinality(Covered(held', size))
  <2>1. /\ C \subseteq StartAddr .. StartAddr + Total - 1
        /\ C \intersect (it .. it + size[it] - 1) = {}
    BY <1>5, <1>6 DEF Area
  <2>2. it \in Nat /\ size[it] \in Nat
    BY <1>3, <1>4
  <2>3. Cardinality(C \union (it .. it + size[it] - 1)) = Cardinality(C) + size[it]
    BY <2>1, <2>2, CountBytes
  <2>4. Covered(held', size) = C \union (it .. it + size[it] - 1)
    BY <1>6 DEF Area
  <2> QED
    BY <1>1, <1>5, <2>3, <2>4
<1> QED
  BY <1>1, <1>2, <1>5, <1>7, <1>8, <1>9, <1>10, <1>11 DEF SlobInv, F1

LEMMA FreeStep ==
  ASSUME SlobInv, NEW block \in held, Free(block)
  PROVE  SlobInv'
<1> DEFINE F == Frees(nodes)
           F1 == Frees(nodes')
           O == held'
           r == InsertFree(nodes, size, block)
           heap == StartAddr .. StartAddr + Total - 1
<1>1. /\ nodes' = r.nodes /\ size' = r.size
      /\ statsUsed' = statsUsed - size[block]
      /\ held' = held \ {block}
  BY DEF Free
<1>2. /\ size \in [Addrs -> Nat] /\ F \in SUBSET Addrs
      /\ held \intersect F = {} /\ LastNode \notin held /\ LastNode \notin F
      /\ \A a \in F, b \in held : Area(size, a) \intersect Area(size, b) = {}
      /\ \A a \in F \union held :
           a \in Area(size, a) /\ a \in Nat /\ size[a] \in Nat /\ a < LastNode
  BY BlocksApart
<1>3. /\ size \in [Addrs -> 0 .. Total] /\ size[LastNode] = 0
      /\ Ordered(nodes) /\ Spaced(F, size) /\ held \subseteq Addrs
      /\ \A a \in held : a < LastNode /\ size[a] > 0
      /\ \A a, b \in held : a # b => Area(size, a) \intersect Area(size, b) = {}
      /\ Covered(F, size) \intersect Covered(held, size) = {}
      /\ Covered(F, size) \union Covered(held, size) = heap
      /\ statsUsed = Cardinality(Covered(held, size))
  BY DEF SlobInv
<1>4. Inserted(nodes, size, block, r)
  <2>1. Area(size, block) \intersect Covered(Frees(nodes), size) = {}
    BY <1>2 DEF Covered
  <2>2. block \in Addrs /\ block < LastNode /\ size[block] > 0
    BY <1>3
  <2>3. Spaced(Frees(nodes), size)
    BY <1>3
  <2> HIDE DEF F
  <2> QED
    BY <1>2, <1>3, <2>1, <2>2, <2>3, InsertFreeFacts
<1> HIDE DEF r
<1>5. /\ Ordered(nodes') /\ size' \in [Addrs -> Nat] /\ Spaced(F1, size')
      /\ Covered(F1, size') = Covered(F, size) \union Area(size, block)
      /\ F1 \subseteq F \union {block}
      /\ \A a \in Addrs : a \notin F1 => size'[a] = size[a]
      /\ \A a \in Addrs : a \notin F \union {block} => size'[a] = size[a]
  BY <1>1, <1>4 DEF Inserted
<1> HIDE DEF F, F1, O, heap
<1>6. /\ O \subseteq Addrs /\ O \subseteq held
      /\ \A a \in O : size'[a] = size[a]
  BY <1>1, <1>2, <1>3, <1>5 DEF O
<1>7. \A a \in O : Area(size', a) = Area(size, a)
  BY <1>6 DEF Area
<1>8. /\ Covered(held, size) = Covered(O, size') \union Area(size, block)
      /\ Covered(O, size') \intersect Area(size, block) = {}
  <2>1. Covered(O, size') = Covered(O, size)
    BY <1>7 DEF Covered
  <2>2. Covered(held, size) = Covered(O, size) \union Area(size, block)
    BY <1>1 DEF Covered, O
  <2>3. \A a \in O : a # block /\ a \in held
    BY <1>1 DEF O
  <2>4. Covered(O, size) \intersect Area(size, block) = {}
    BY <1>3, <2>3 DEF Covered
  <2> QED
    BY <2>1, <2>2, <2>4
<1>9. /\ Covered(F1, size') \intersect Covered(O, size') = {}
      /\ Covered(F1, size') \union Covered(O, size') = heap
  BY <1>3, <1>5, <1>8
<1>10. /\ \A a \in O : a < LastNode /\ size'[a] > 0
       /\ \A a, b \in O : a # b => Area(size', a) \intersect Area(size', b) = {}
  BY <1>3, <1>6, <1>7
<1>11. size'[LastNode] = 0
  <2>1. LastNode \in Addrs /\ LastNode \notin F \union {block}
    BY <1>2, HeapFacts
  <2> QED
    BY <1>3, <1>5, <2>1
<1>12. size' \in [Addrs -> 0 .. Total]
  <2>1. F1 \in SUBSET Addrs /\ O \in SUBSET Addrs
    BY <1>2, <1>3, <1>5, <1>6
  <2>2. \A a \in Addrs : a \notin F1 \union O => size'[a] <= Total
    BY <1>3, <1>5, HeapFacts
  <2>3. Covered(F1, size') \union Covered(O, size')
          \subseteq StartAddr .. StartAddr + Total - 1
    BY <1>9 DEF heap
  <2> QED
    BY <1>5, <2>1, <2>2, <2>3, SizesBounded
<1>13. statsUsed' = Cardinality(Covered(O, size'))
  <2> DEFINE C == Covered(O, size')
  <2>1. /\ C \subseteq StartAddr .. StartAddr + Total - 1
        /\ C \intersect (block .. block + size[block] - 1) = {}
    BY <1>8, <1>9 DEF Area, heap
  <2>2. block \in Nat /\ size[block] \in Nat
    BY <1>2
  <2>3. Covered(held, size) = C \union (block .. block + size[block] - 1)
    BY <1>8 DEF Area
  <2> HIDE DEF C
  <2>4. /\ Cardinality(C \union (block .. block + size[block] - 1))
             = Cardinality(C) + size[block]
        /\ Cardinality(C) \in Nat
    BY <2>1, <2>2, CountBytes
  <2>5. statsUsed = Cardinality(C) + size[block]
    BY <1>3, <2>3, <2>4
  <2> QED
    BY <1>1, <2>2, <2>4, <2>5 DEF C
<1> QED
  BY <1>5, <1>6, <1>9, <1>10, <1>11, <1>12, <1>13 DEF SlobInv, F1, O, heap

LEMMA SplitStep ==
  ASSUME SlobInv, NEW i \in 1 .. Len(nodes) - 1, NEW n \in Nat \ {0},
         n % SLOB_ALIGN = 0, nodes[i] + n < LastNode, n < size[nodes[i]],
         Split(i, n)
  PROVE  SlobInv'
<1> DEFINE it == nodes[i]
           node == it + n
           left == size[it] - n
           list == RemoveAt(nodes, i)
           sizes == [size EXCEPT ![node] = left]
           r == InsertFree(list, sizes, node)
           F == Frees(nodes)
           G == Frees(list)
           F1 == Frees(nodes')
           O == held'
           C == Covered(held, size)
           heap == StartAddr .. StartAddr + Total - 1
<1>1. /\ nodes' = r.nodes
      /\ size' = [r.size EXCEPT ![it] = n]
      /\ statsUsed' = statsUsed + n
      /\ held' = held \union {it}
  BY DEF Split
<1>2. /\ size \in [Addrs -> Nat] /\ F \in SUBSET Addrs
      /\ held \intersect F = {} /\ LastNode \notin held /\ LastNode \notin F
      /\ \A a \in F, b \in held : Area(size, a) \intersect Area(size, b) = {}
      /\ \A a, b \in F : a # b => Area(size, a) \intersect Area(size, b) = {}
      /\ \A a \in F \union held :
           a \in Area(size, a) /\ a \in Nat /\ size[a] \in Nat /\ a < LastNode
  BY BlocksApart
<1>3. /\ size \in [Addrs -> 0 .. Total] /\ size[LastNode] = 0
      /\ Ordered(nodes) /\ Spaced(F, size) /\ held \subseteq Addrs
      /\ \A a \in held : a < LastNode /\ size[a] > 0
      /\ \A a, b \in held : a # b => Area(size, a) \intersect Area(size, b) = {}
      /\ Covered(F, size) \intersect C = {}
      /\ Covered(F, size) \union C = heap
      /\ statsUsed = Cardinality(C)
  BY DEF SlobInv
<1>4. it \in F /\ it \in Addrs /\ it \in Nat /\ size[it] \in Nat /\ size[it] <= Total
  <2>1. it \in F
    BY OrderedFacts DEF SlobInv
  <2>2. it \in Addrs
    BY <1>2, <2>1
  <2>3. size[it] \in 0 .. Total
    BY <1>3, <2>2
  <2> HIDE DEF it, F
  <2>4. Total \in Nat /\ Addrs \subseteq Nat
    BY HeapFacts
  <2>5. size[it] \in Nat /\ size[it] <= Total
    BY <2>3, <2>4
  <2> QED
    BY <2>1, <2>2, <2>4, <2>5
<1>5. /\ left \in Nat /\ left > 0 /\ left < size[it] /\ n + left = size[it]
      /\ node \in Nat /\ node = it + n /\ it < node /\ node < LastNode
  <2>1. n < size[it] /\ it + n < LastNode
    OBVIOUS
  <2> HIDE DEF it
  <2>2. LastNode \in Nat /\ n \in Nat /\ n > 0
    BY HeapFacts
  <2> QED
    BY <1>4, <2>1, <2>2
<1>6. node \in Addrs /\ node < LastNode /\ node # LastNode
  <2>1. it + n <= LastNode /\ node < LastNode /\ node # LastNode
    BY <1>5, HeapFacts
  <2>2. it \in Addrs /\ n \in Nat
    BY <1>4
  <2> HIDE DEF it
  <2>3. it + n \in Addrs
    BY <2>1, <2>2, NextAddr
  <2> QED
    BY <2>1, <2>3
<1>7. Ordered(list) /\ G = F \ {it}
  BY <1>3, OrderedRemove
<1> HIDE DEF it, node, left, list, F, G, F1, O, C, heap
<1>8. /\ sizes \in [Addrs -> Nat] /\ sizes[node] = left
      /\ \A a \in Addrs : a # node => sizes[a] = size[a]
  BY <1>2, <1>5, <1>6
<1> HIDE DEF sizes, r
<1>9. node \in Area(size, it) /\ node \notin F /\ node \notin held
  <2>1. node \in Area(size, it)
    BY <1>4, <1>5 DEF Area
  <2>2. ASSUME node \in F PROVE FALSE
    BY <1>2, <1>4, <1>5, <2>1, <2>2
  <2>3. ASSUME node \in held PROVE FALSE
    BY <1>2, <1>4, <2>1, <2>3
  <2> QED
    BY <2>1, <2>2, <2>3
<1>10. \A a \in G \union held : a # node /\ sizes[a] = size[a]
                                 /\ Area(sizes, a) = Area(size, a)
  <2>1. ASSUME NEW a \in G \union held PROVE a # node /\ sizes[a] = size[a]
    <3>1. a \in F \union held /\ a \in Addrs
      BY <1>2, <1>3, <1>7
    <3> QED
      BY <1>8, <1>9, <3>1
  <2> QED
    BY <2>1 DEF Area
<1>11. /\ Area(size, it) = (it .. it + n - 1) \union Area(sizes, node)
       /\ (it .. it + n - 1) \intersect Area(sizes, node) = {}
  <2>1. Area(size, it) = it .. it + size[it] - 1
        /\ Area(sizes, node) = node .. node + left - 1
    BY <1>8 DEF Area
  <2>2. \A z \in Nat : (it <= z /\ z <= it + size[it] - 1)
                        <=> (it <= z /\ z <= it + n - 1) \/ (node <= z /\ z <= node + left - 1)
    BY <1>4, <1>5
  <2>3. \A z \in Nat : ~ (z <= it + n - 1 /\ node <= z)
    BY <1>4, <1>5
  <2>4. it .. it + size[it] - 1 \subseteq Nat /\ it .. it + n - 1 \subseteq Nat
        /\ node .. node + left - 1 \subseteq Nat
    BY <1>4, <1>5
  <2>5. it .. it + size[it] - 1 = (it .. it + n - 1) \union (node .. node + left - 1)
    <3> DEFINE whole == it .. it + size[it] - 1
               low == it .. it + n - 1
               high == node .. node + left - 1
    <3>1. \A z \in Nat : /\ z \in whole <=> it <= z /\ z <= it + size[it] - 1
                         /\ z \in low <=> it <= z /\ z <= it + n - 1
                         /\ z \in high <=> node <= z /\ z <= node + left - 1
      BY <1>4, <1>5
    <3>2. whole \subseteq Nat /\ low \subseteq Nat /\ high \subseteq Nat
      BY <2>4
    <3> HIDE DEF whole, low, high
    <3>3. \A z \in Nat : z \in whole <=> z \in low \/ z \in high
      BY <2>2, <3>1
    <3>4. whole = low \union high
      BY <3>2, <3>3
    <3> QED
      BY <3>4 DEF whole, low, high
  <2>6. (it .. it + n - 1) \intersect (node .. node + left - 1) = {}
    BY <1>4, <1>5, <2>3, <2>4
  <2> QED
    BY <2>1, <2>5, <2>6
<1>12. /\ Covered(F, size) = Covered(G, sizes) \union Area(size, it)
       /\ Covered(G, sizes) \intersect Area(size, it) = {}
  <2>1. Covered(G, sizes) = Covered(G, size)
    BY <1>10 DEF Covered
  <2>2. Covered(F, size) = Covered(G, size) \union Area(size, it)
    BY <1>4, <1>7 DEF Covered
  <2>3. Covered(G, size) \intersect Area(size, it) = {}
    BY <1>2, <1>4, <1>7 DEF Covered
  <2> QED
    BY <2>1, <2>2, <2>3
<1>13. Inserted(list, sizes, node, r)
  <2>1. Area(sizes, node) \intersect Covered(Frees(list), sizes) = {}
    BY <1>11, <1>12 DEF G
  <2>2. Spaced(G, sizes)
    <3>1. \A a \in G : sizes[a] = size[a] /\ a \in F
      BY <1>7, <1>10
    <3> QED
      BY <1>3, <3>1 DEF Spaced
  <2>3. Spaced(Frees(list), sizes)
    BY <2>2 DEF G
  <2>4. sizes[node] > 0
    BY <1>5, <1>8
  <2> QED
    BY <1>6, <1>7, <1>8, <2>1, <2>3, <2>4, InsertFreeFacts DEF r
<1> DEFINE N == Frees(r.nodes)
<1>14. /\ Ordered(r.nodes) /\ r.size \in [Addrs -> Nat] /\ Spaced(N, r.size)
       /\ Covered(N, r.size) = Covered(G, sizes) \union Area(sizes, node)
       /\ N \subseteq G \union {node}
       /\ \A a \in Addrs : a \notin N => r.size[a] = sizes[a]
       /\ \A a \in Addrs : a \notin G \union {node} => r.size[a] = sizes[a]
  BY <1>13 DEF Inserted, G
<1>15. F1 = N
  BY <1>1 DEF F1
<1> HIDE DEF N
<1>16. it \notin N /\ it \notin held /\ it # LastNode /\ LastNode \in Addrs
  BY <1>2, <1>4, <1>5, <1>7, <1>14, HeapFacts
<1>17. /\ size' \in [Addrs -> Nat] /\ size'[it] = n
       /\ \A a \in Addrs : a # it => size'[a] = r.size[a]
  BY <1>1, <1>4, <1>14
<1>18. \A a \in F1 : a # it /\ size'[a] = r.size[a] /\ Area(size', a) = Area(r.size, a)
  <2>1. F1 \subseteq Addrs
    BY <1>2, <1>6, <1>7, <1>14, <1>15
  <2>2. \A a \in F1 : a # it /\ size'[a] = r.size[a]
    BY <1>15, <1>16, <1>17, <2>1
  <2> QED
    BY <2>2 DEF Area
<1>19. \A a \in held : a # it /\ size'[a] = size[a] /\ Area(size', a) = Area(size, a)
  <2>1. ASSUME NEW a \in held PROVE a # it /\ size'[a] = size[a]
    <3>1. a \in Addrs /\ a # it /\ a \notin G \union {node}
      BY <1>2, <1>3, <1>7, <1>9, <1>16
    <3> QED
      BY <1>10, <1>14, <1>17, <3>1
  <2> QED
    BY <2>1 DEF Area
<1>20. Spaced(F1, size')
  BY <1>14, <1>15, <1>18 DEF Spaced
<1>21. Covered(F1, size') = Covered(G, sizes) \union Area(sizes, node)
  <2>1. Covered(F1, size') = Covered(N, r.size)
    BY <1>15, <1>18 DEF Covered
  <2> QED
    BY <1>14, <2>1
<1>22. Area(size', it) = it .. it + n - 1
  BY <1>17 DEF Area
<1>23. Covered(O, size') = C \union (it .. it + n - 1)
  <2>1. Covered(O, size') = Covered(held, size') \union Area(size', it)
    BY <1>1 DEF Covered, O
  <2>2. Covered(held, size') = Covered(held, size)
    BY <1>19 DEF Covered
  <2> QED
    BY <1>22, <2>1, <2>2 DEF C
<1>24. /\ Covered(F1, size') \intersect Covered(O, size') = {}
       /\ Covered(F1, size') \union Covered(O, size') = heap
       /\ C \intersect (it .. it + n - 1) = {}
  BY <1>3, <1>11, <1>12, <1>21, <1>23
<1>25. /\ O \subseteq Addrs
       /\ \A a \in O : a < LastNode /\ size'[a] > 0
  BY <1>1, <1>2, <1>3, <1>4, <1>17, <1>19 DEF O
<1>26. \A a, b \in O : a # b => Area(size', a) \intersect Area(size', b) = {}
  <2>1. \A a \in held : Area(size', a) \intersect Area(size', it) = {}
    BY <1>2, <1>4, <1>11, <1>19, <1>22
  <2>2. \A a, b \in held : a # b => Area(size', a) \intersect Area(size', b) = {}
    BY <1>3, <1>19
  <2> QED
    BY <1>1, <2>1, <2>2 DEF O
<1>27. size'[LastNode] = 0
  <2>1. LastNode \in Addrs /\ LastNode # it /\ LastNode # node /\ LastNode \notin G
    BY <1>2, <1>6, <1>7, <1>16
  <2> QED
    BY <1>3, <1>8, <1>14, <1>17, <2>1
<1>28. size' \in [Addrs -> 0 .. Total]
  <2>1. F1 \in SUBSET Addrs /\ O \in SUBSET Addrs
    BY <1>2, <1>6, <1>7, <1>14, <1>15, <1>25
  <2>2. ASSUME NEW a \in Addrs, a \notin F1 \union O PROVE size'[a] <= Total
    <3>1. a # it /\ a \notin N /\ size'[a] = sizes[a]
      BY <1>1, <1>14, <1>15, <1>17, <2>2 DEF O
    <3>t. Total \in Nat
      BY HeapFacts
    <3>2. CASE a = node
      <4>1. size'[a] = left
        BY <1>8, <3>1, <3>2
      <4> QED
        BY <1>4, <1>5, <3>t, <4>1
    <3>3. CASE a # node
      <4>1. size'[a] = size[a] /\ size[a] \in 0 .. Total
        BY <1>3, <1>8, <3>1, <3>3
      <4> QED
        BY <3>t, <4>1
    <3> QED
      BY <3>2, <3>3
  <2>3. Covered(F1, size') \union Covered(O, size')
          \subseteq StartAddr .. StartAddr + Total - 1
    BY <1>24 DEF heap
  <2> QED
    BY <1>17, <2>1, <2>2, <2>3, SizesBounded
<1>29. statsUsed' = Cardinality(Covered(O, size'))
  <2>1. C \subseteq StartAddr .. StartAddr + Total - 1
    BY <1>3 DEF heap
  <2>2. Cardinality(C \union (it .. it + n - 1)) = Cardinality(C) + n
    BY <1>4, <1>24, <2>1, CountBytes
  <2> QED
    BY <1>1, <1>3, <1>23, <2>2
<1>30. Ordered(nodes')
  BY <1>1, <1>14
<1> QED
  BY <1>20, <1>24, <1>25, <1>26, <1>27, <1>28, <1>29, <1>30 DEF SlobInv, F1, O, heap

(* The inductive invariant with the overrun. *)
HeapInv ==
  /\ overrun \in BOOLEAN
  /\ ~overrun => SlobInv

(* The invariant of the heap, kept until a block runs over its end. *)
THEOREM SlobInvariant == SpecSlob => []HeapInv
<1>1. InitSlob => HeapInv
  BY InitInv DEF InitSlob, HeapInv
<1>2. HeapInv /\ [NextSlob]_slobVars => HeapInv'
  <2> SUFFICES ASSUME HeapInv, [NextSlob]_slobVars PROVE HeapInv'
    OBVIOUS
  <2>1. ASSUME NEW bytes \in Requests, Alloc(bytes) PROVE HeapInv'
    <3>1. overrun' \in BOOLEAN
      BY <2>1 DEF Alloc
    <3>2. ASSUME ~overrun' PROVE SlobInv'
      <4> DEFINE n == BlockSize(bytes)
                 i == FirstFit(n)
      <4>1. n \in Nat \ {0} /\ n % SLOB_ALIGN = 0
        BY BlockFacts
      <4>2. /\ i # 0 /\ ~ (EndOf(i, n) >= LastNode) /\ SlobInv
            /\ IF Splits(i, n) THEN Split(i, n) ELSE TakeWhole(i)
        BY <2>1, <3>2 DEF Alloc, HeapInv
      <4> HIDE DEF n
      <4>3. /\ i \in 1 .. Len(nodes) - 1 /\ nodes[i] \in Frees(nodes)
            /\ size[nodes[i]] >= n
        BY <4>1, <4>2, FirstFitFacts
      <4> HIDE DEF i
      <4>4. size[nodes[i]] \in Nat /\ nodes[i] \in Nat
        BY <4>2, <4>3, BlocksApart
      <4>5. CASE Splits(i, n)
        <5>1. SLOB_MIN_BLOCK \in Nat \ {0} /\ LastNode \in Nat
          BY HeapFacts
        <5>2. n < size[nodes[i]] /\ nodes[i] + n < LastNode
          BY <4>1, <4>2, <4>4, <4>5, <5>1 DEF Splits, EndOf
        <5> QED
          BY <4>1, <4>2, <4>3, <4>5, <5>2, SplitStep
      <4>6. CASE ~ Splits(i, n)
        BY <4>2, <4>3, <4>6, TakeWholeStep
      <4> QED
        BY <4>5, <4>6
    <3> QED
      BY <3>1, <3>2 DEF HeapInv
  <2>2. ASSUME NEW bytes \in Requests, Refuse(bytes) PROVE HeapInv'
    BY <2>2 DEF Refuse, slobVars, HeapInv, SlobInv
  <2>3. ASSUME NEW block \in Addrs, Free(block) PROVE HeapInv'
    <3>1. block \in held /\ SlobInv
      BY <2>3 DEF Free, HeapInv
    <3>2. SlobInv'
      BY <2>3, <3>1, FreeStep
    <3>3. overrun' = overrun
      BY <2>3 DEF Free
    <3> QED
      BY <3>2, <3>3 DEF HeapInv
  <2>4. CASE UNCHANGED slobVars
    BY <2>4 DEF slobVars, HeapInv, SlobInv
  <2>5. CASE Overrun
    BY <2>4, <2>5 DEF Overrun
  <2> QED
    BY <2>1, <2>2, <2>3, <2>4, <2>5 DEF NextSlob
<1> QED
  BY <1>1, <1>2, PTL DEF SpecSlob

LEMMA Bridge ==
  ASSUME SlobInv
  PROVE  /\ FreeNodes = Frees(nodes)
         /\ \A a : Bytes(a) = Area(size, a)
         /\ FreeBytes = Covered(Frees(nodes), size)
         /\ OwnedBytes = Covered(held, size)
BY DEF FreeNodes, Frees, Bytes, Area, FreeBytes, OwnedBytes, Covered

(* slob_alloc and slob_free hand every byte of the heap to one block at a  *)
(* time and lose none, and stats.statsUsed is what they have handed out.        *)
THEOREM HeapIsTiled == SpecSlob => []HeapTiled
<1>1. HeapInv => HeapTiled
  <2> SUFFICES ASSUME overrun \in BOOLEAN, ~overrun, SlobInv PROVE HeapTiled
    BY DEF HeapInv, HeapTiled
  <2>1. /\ FreeNodes = Frees(nodes)
        /\ \A a : Bytes(a) = Area(size, a)
        /\ FreeBytes = Covered(Frees(nodes), size)
        /\ OwnedBytes = Covered(held, size)
    BY Bridge
  <2>2. statsUsed \in 0 .. Total
    <3> DEFINE heap == StartAddr .. StartAddr + Total - 1
               C == Covered(held, size)
    <3>1. C \in SUBSET heap /\ statsUsed = Cardinality(C)
      BY DEF SlobInv
    <3>2. StartAddr \in Nat /\ Total \in Nat /\ StartAddr \in Int
          /\ StartAddr + Total - 1 \in Int
      BY HeapFacts
    <3>3. /\ IsFiniteSet(heap)
          /\ Cardinality(heap) = IF StartAddr > StartAddr + Total - 1 THEN 0
                                 ELSE (StartAddr + Total - 1) - StartAddr + 1
      BY <3>2, FS_Interval
    <3> HIDE DEF heap, C
    <3>4. Cardinality(heap) = Total
      BY <3>2, <3>3
    <3>5. Cardinality(C) <= Cardinality(heap) /\ IsFiniteSet(C)
      BY <3>1, <3>3, FS_Subset
    <3>6. Cardinality(C) \in Nat
      BY <3>5, FS_CardinalityType
    <3> QED
      BY <3>1, <3>2, <3>4, <3>5, <3>6
  <2>3. TypeSlob
    BY <2>2 DEF TypeSlob, SlobInv, Ordered
  <2> QED
    BY <2>1, <2>3 DEF HeapTiled, SlobInv
<1> QED
  BY <1>1, SlobInvariant, PTL

(* slob_insert_free keeps the free list in the order of addresses, behind  *)
(* it last_node, and leaves no two free blocks that touch.                 *)
THEOREM ListSortedAndMerged == SpecSlob => []SortedAndMerged
<1>1. HeapInv => SortedAndMerged
  <2> SUFFICES ASSUME ~overrun, SlobInv PROVE SortedAndMerged
    BY DEF HeapInv, SortedAndMerged
  <2>1. /\ nodes \in Seq(Addrs) /\ Len(nodes) \in Nat \ {0}
        /\ \A i \in 1 .. Len(nodes) : nodes[i] \in Nat
        /\ nodes[Len(nodes)] = LastNode
        /\ \A i, j \in 1 .. Len(nodes) : i < j => nodes[i] < nodes[j]
        /\ \A x : x \in Frees(nodes) <=> \E i \in 1 .. Len(nodes) - 1 : nodes[i] = x
    BY OrderedFacts DEF SlobInv
  <2>2. nodes # <<>> /\ Last(nodes) = LastNode
    BY <2>1 DEF Last
  <2>3. ASSUME NEW i \in 1 .. Len(nodes) - 1 PROVE nodes[i] < nodes[i + 1]
    <3>1. i \in 1 .. Len(nodes) /\ i + 1 \in 1 .. Len(nodes) /\ i < i + 1
      BY <2>1
    <3> QED
      BY <2>1, <3>1
  <2>4. ASSUME NEW i \in 1 .. Len(nodes) - 2
        PROVE  nodes[i] + size[nodes[i]] < nodes[i + 1]
    <3>1. i \in 1 .. Len(nodes) - 1 /\ i + 1 \in 1 .. Len(nodes) - 1
      BY <2>1
    <3>2. nodes[i] < nodes[i + 1]
      BY <2>3, <3>1
    <3>3. nodes[i] \in Frees(nodes) /\ nodes[i + 1] \in Frees(nodes)
      BY <2>1, <3>1
    <3> QED
      BY <3>2, <3>3 DEF SlobInv, Spaced
  <2> QED
    BY <2>2, <2>3, <2>4 DEF SortedAndMerged
<1> QED
  BY <1>1, SlobInvariant, PTL

(* A run of free bytes below last_node lies in one free block, because     *)
(* free blocks do not touch.                                               *)
LEMMA RunInBlock ==
  ASSUME SlobInv, NEW a \in Addrs, NEW m \in Nat \ {0},
         \A x \in a .. a + m - 1 : ~ (x >= LastNode) /\ x \notin OwnedBytes
  PROVE  \E b \in Frees(nodes) : b <= a /\ a + m <= b + size[b]
<1> DEFINE F == Frees(nodes)
<1>1. /\ \A b \in F : b \in Nat /\ size[b] \in Nat
      /\ \A b, c \in F : b < c => b + size[b] < c
      /\ a \in Nat /\ a >= StartAddr /\ StartAddr \in Nat /\ Total \in Nat
      /\ LastNode \in Nat /\ LastNode < StartAddr + Total
  BY BlocksApart, HeapFacts DEF SlobInv, Spaced
<1>2. ASSUME NEW x \in a .. a + m - 1
      PROVE  \E b \in F : b <= x /\ x < b + size[b]
  <2>1. x \in StartAddr .. StartAddr + Total - 1 /\ x \notin Covered(held, size)
    BY <1>1, Bridge
  <2>2. x \in Covered(F, size)
    BY <2>1 DEF SlobInv
  <2>3. PICK b \in F : x \in Area(size, b)
    BY <2>2 DEF Covered
  <2> QED
    BY <1>1, <2>3 DEF Area
<1> HIDE DEF F
<1>3. a \in a .. a + m - 1
  BY <1>1
<1>4. PICK b \in F : b <= a /\ a < b + size[b]
  BY <1>2, <1>3
<1>5. ASSUME b + size[b] < a + m PROVE FALSE
  <2>1. b + size[b] \in a .. a + m - 1
    BY <1>1, <1>4, <1>5
  <2>2. PICK c \in F : c <= b + size[b] /\ b + size[b] < c + size[c]
    BY <1>2, <2>1
  <2>3. CASE c = b
    BY <1>1, <2>2, <2>3
  <2>4. CASE c < b
    BY <1>1, <1>4, <2>2, <2>4
  <2>5. CASE b < c
    BY <1>1, <1>4, <2>2, <2>5
  <2> QED
    BY <1>1, <2>3, <2>4, <2>5
<1>6. a + m <= b + size[b]
  BY <1>1, <1>4, <1>5
<1> QED
  BY <1>4, <1>6 DEF F

(* Where a block of some size is, first fit is not behind it. *)
LEMMA FitIsFirst ==
  ASSUME SlobInv, NEW n \in Nat \ {0}, NEW j \in 1 .. Len(nodes) - 1,
         size[nodes[j]] >= n
  PROVE  FirstFit(n) # 0 /\ FirstFit(n) <= j
<1> DEFINE large == {i \in 1 .. Len(nodes) : size[nodes[i]] >= n}
<1>1. Len(nodes) \in Nat
  BY OrderedFacts DEF SlobInv
<1>2. /\ large \in SUBSET (1 .. Len(nodes)) /\ 0 \notin large
      /\ j \in large /\ FirstFit(n) = FirstOf(large)
  BY <1>1 DEF FirstFit
<1> HIDE DEF large
<1>3. FirstOf(large) \in large /\ FirstOf(large) <= j
  <2>1. large # {}
    BY <1>2
  <2>2. FirstOf(large) \in large /\ \A k \in large : FirstOf(large) <= k
    BY <1>1, <1>2, <2>1, FirstOfFacts
  <2> QED
    BY <1>2, <2>2
<1> QED
  BY <1>2, <1>3

(* As long as a request and a smallest block besides fit between two       *)
(* blocks that are owned, slob_alloc finds room for it, and room below     *)
(* last_node; it returns NULL only if not even the request fits.           *)
THEOREM RefusedOnlyWhenFull == SpecSlob => []RefusedOnlyIfFull
<1>1. HeapInv => RefusedOnlyIfFull
  <2> SUFFICES ASSUME SlobInv, NEW bytes \in Requests
               PROVE  /\ FirstFit(BlockSize(bytes)) = 0 => NoRun(BlockSize(bytes))
                      /\ /\ FirstFit(BlockSize(bytes)) # 0
                         /\ EndOf(FirstFit(BlockSize(bytes)), BlockSize(bytes)) >= LastNode
                         => NoRun(BlockSize(bytes) + SLOB_MIN_BLOCK)
    BY DEF RefusedOnlyIfFull, HeapInv
  <2> DEFINE n == BlockSize(bytes)
             i == FirstFit(n)
             F == Frees(nodes)
  <2>1. n \in Nat \ {0} /\ SLOB_MIN_BLOCK \in Nat \ {0} /\ n + SLOB_MIN_BLOCK \in Nat \ {0}
    BY BlockFacts, HeapFacts
  <2> HIDE DEF n
  <2>2. /\ Len(nodes) \in Nat
        /\ \A j, k \in 1 .. Len(nodes) : j < k => nodes[j] < nodes[k]
        /\ \A x : x \in F <=> \E j \in 1 .. Len(nodes) - 1 : nodes[j] = x
    BY OrderedFacts DEF SlobInv
  <2>3. /\ \A b \in F : b \in Nat /\ size[b] \in Nat
        /\ \A b, c \in F : b < c => b + size[b] < c
        /\ LastNode \in Nat /\ Addrs \subseteq Nat
    BY BlocksApart, HeapFacts DEF SlobInv, Spaced
  <2> HIDE DEF F
  <2>4. ASSUME i = 0, NEW a \in Addrs,
               \A x \in a .. a + n - 1 : ~ (x >= LastNode) /\ x \notin OwnedBytes
        PROVE  FALSE
    <3>1. PICK b \in F : b <= a /\ a + n <= b + size[b]
      BY <2>1, <2>4, RunInBlock DEF F
    <3>2. size[b] >= n
      BY <2>1, <2>3, <3>1
    <3>3. PICK j \in 1 .. Len(nodes) - 1 : nodes[j] = b
      BY <2>2
    <3> QED
      BY <2>1, <2>4, <3>2, <3>3, FitIsFirst
  <2>5. ASSUME i # 0, EndOf(i, n) >= LastNode, NEW a \in Addrs,
               \A x \in a .. a + (n + SLOB_MIN_BLOCK) - 1 :
                 ~ (x >= LastNode) /\ x \notin OwnedBytes
        PROVE  FALSE
    <3>1. PICK b \in F : b <= a /\ a + (n + SLOB_MIN_BLOCK) <= b + size[b]
      BY <2>1, <2>5, RunInBlock DEF F
    <3>2. a \in Nat /\ b \in Nat /\ size[b] \in Nat
      BY <2>3
    <3>3. size[b] >= n /\ size[b] - n >= SLOB_MIN_BLOCK
      BY <2>1, <3>1, <3>2
    <3>4. a + n < LastNode /\ a < LastNode
      <4>1. a + n \in a .. a + (n + SLOB_MIN_BLOCK) - 1
        BY <2>1, <3>2
      <4>2. ~ (a + n >= LastNode)
        BY <2>5, <4>1
      <4> QED
        BY <2>1, <2>3, <3>2, <4>2
    <3>5. PICK j \in 1 .. Len(nodes) - 1 : nodes[j] = b
      BY <2>2
    <3>6. i <= j
      BY <2>1, <3>3, <3>5, FitIsFirst
    <3>7. i \in 1 .. Len(nodes) - 1 /\ nodes[i] \in F /\ size[nodes[i]] >= n
      BY <2>1, <2>5, FirstFitFacts DEF F
    <3> HIDE DEF i
    <3>8. nodes[i] \in Nat /\ size[nodes[i]] \in Nat
      BY <2>3, <3>7
    <3>9. CASE i = j
      <4>1. EndOf(i, n) = b + n
        BY <3>3, <3>5, <3>9 DEF EndOf, Splits
      <4> QED
        BY <2>1, <2>3, <2>5, <3>1, <3>2, <3>4, <4>1
    <3>10. CASE i # j
      <4>1. nodes[i] < b
        <5>1. i \in 1 .. Len(nodes) /\ j \in 1 .. Len(nodes) /\ i < j
          BY <2>2, <3>5, <3>6, <3>7, <3>10
        <5> QED
          BY <2>2, <3>5, <5>1
      <4>2. nodes[i] + size[nodes[i]] < b
        BY <2>3, <3>7, <4>1
      <4>3. EndOf(i, n) <= nodes[i] + size[nodes[i]]
        BY <2>1, <3>7, <3>8 DEF EndOf
      <4>4. EndOf(i, n) \in Nat
        BY <2>1, <3>8 DEF EndOf
      <4> QED
        BY <2>3, <2>5, <3>1, <3>2, <3>4, <3>8, <4>2, <4>3, <4>4
    <3> QED
      BY <3>9, <3>10
  <2>6. i = 0 => NoRun(n)
    BY <2>4 DEF NoRun
  <2>7. i # 0 /\ EndOf(i, n) >= LastNode => NoRun(n + SLOB_MIN_BLOCK)
    BY <2>5 DEF NoRun
  <2> QED
    BY <2>6, <2>7 DEF n
<1> QED
  BY <1>1, SlobInvariant, PTL
=============================================================================
