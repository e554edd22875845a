----------------------------- MODULE ListLemmas -----------------------------
(***************************************************************************)
(* Lemmas about the sequences that stand for the linked lists of           *)
(* include/citrus/list.h: what appending, removing and inserting an        *)
(* element do to the range of a list and to its injectivity; and of        *)
(* division with remainder.                                                *)
(***************************************************************************)
EXTENDS SequencesExt, SequenceTheorems, WellFoundedInduction, TLAPS

(* The range of a sequence, by index. *)
LEMMA RangeFacts ==
  ASSUME NEW S, NEW s \in Seq(S)
  PROVE  /\ Len(s) \in Nat
         /\ \A x : x \in Range(s) <=> \E i \in 1 .. Len(s) : s[i] = x
         /\ Range(s) \subseteq S
         /\ IsInjective(s) <=>
              \A i, j \in 1 .. Len(s) : s[i] = s[j] => i = j
BY DEF Range, IsInjective

(* Appending an element. *)
LEMMA AppendFacts ==
  ASSUME NEW S, NEW s \in Seq(S), NEW t \in S
  PROVE  /\ Append(s, t) \in Seq(S)
         /\ Append(s, t) # <<>>
         /\ Range(Append(s, t)) = Range(s) \union {t}
         /\ IsInjective(s) /\ t \notin Range(s) => IsInjective(Append(s, t))
         /\ Head(Append(s, t)) = IF s = <<>> THEN t ELSE Head(s)
<1> DEFINE r == Append(s, t)
<1>1. /\ r \in Seq(S) /\ r # <<>> /\ Len(r) = Len(s) + 1
      /\ \A i \in 1 .. Len(s) : r[i] = s[i]
      /\ r[Len(s) + 1] = t
  BY AppendProperties
<1>2. /\ Len(s) \in Nat
      /\ \A x : x \in Range(s) <=> \E i \in 1 .. Len(s) : s[i] = x
      /\ IsInjective(s) <=> \A i, j \in 1 .. Len(s) : s[i] = s[j] => i = j
  BY RangeFacts
<1>3. /\ \A x : x \in Range(r) <=> \E i \in 1 .. Len(r) : r[i] = x
      /\ IsInjective(r) <=> \A i, j \in 1 .. Len(r) : r[i] = r[j] => i = j
  BY <1>1, RangeFacts
<1>4. Head(r) = IF s = <<>> THEN t ELSE Head(s)
  BY HeadTailAppend
<1> HIDE DEF r
<1>5. Range(r) = Range(s) \union {t}
  <2>1. ASSUME NEW x \in Range(r) PROVE x \in Range(s) \union {t}
    BY <1>1, <1>2, <1>3
  <2>2. ASSUME NEW x \in Range(s) PROVE x \in Range(r)
    BY <1>1, <1>2, <1>3
  <2>3. t \in Range(r)
    BY <1>1, <1>2, <1>3
  <2> QED
    BY <2>1, <2>2, <2>3
<1>6. ASSUME IsInjective(s), t \notin Range(s)
      PROVE  IsInjective(r)
  BY <1>1, <1>2, <1>3, <1>6
<1> QED
  BY <1>1, <1>4, <1>5, <1>6 DEF r

(* Removing the head. *)
LEMMA TailFacts ==
  ASSUME NEW S, NEW s \in Seq(S), s # <<>>, IsInjective(s)
  PROVE  /\ Head(s) \in S
         /\ Head(s) \in Range(s)
         /\ Tail(s) \in Seq(S)
         /\ Range(Tail(s)) = Range(s) \ {Head(s)}
         /\ IsInjective(Tail(s))
<1> DEFINE r == Tail(s)
<1>1. /\ Head(s) \in S /\ Head(s) = s[1]
      /\ r \in Seq(S) /\ Len(r) = Len(s) - 1
      /\ \A i \in 1 .. Len(s) - 1 : r[i] = s[i + 1]
      /\ Len(s) \in Nat \ {0}
  BY HeadTailProperties, EmptySeq
<1>2. /\ \A x : x \in Range(s) <=> \E i \in 1 .. Len(s) : s[i] = x
      /\ \A i, j \in 1 .. Len(s) : s[i] = s[j] => i = j
  BY RangeFacts
<1>r. r \in Seq(S)
  BY <1>1
<1> HIDE DEF r
<1>3. /\ \A x : x \in Range(r) <=> \E i \in 1 .. Len(r) : r[i] = x
      /\ IsInjective(r) <=> \A i, j \in 1 .. Len(r) : r[i] = r[j] => i = j
  BY <1>r, RangeFacts
<1>4. Head(s) \in Range(s)
  BY <1>1, <1>2
<1>5. ASSUME NEW x \in Range(r) PROVE x \in Range(s) \ {Head(s)}
  <2>1. PICK i \in 1 .. Len(s) - 1 : s[i + 1] = x
    BY <1>1, <1>3
  <2>2. i + 1 \in 1 .. Len(s) /\ 1 \in 1 .. Len(s) /\ i + 1 # 1
    BY <1>1
  <2> QED
    BY <1>1, <1>2, <2>1, <2>2
<1>6. ASSUME NEW x \in Range(s), x # Head(s) PROVE x \in Range(r)
  <2>1. PICK i \in 1 .. Len(s) : s[i] = x
    BY <1>2
  <2>2. i - 1 \in 1 .. Len(s) - 1 /\ (i - 1) + 1 = i
    BY <1>1, <1>6, <2>1
  <2>3. r[i - 1] = x
    BY <1>1, <2>1, <2>2
  <2> QED
    BY <1>1, <1>3, <2>2, <2>3
<1>7. IsInjective(r)
  BY <1>1, <1>2, <1>3
<1> QED
  BY <1>1, <1>4, <1>5, <1>6, <1>7 DEF r

(* Moving the head of a list last keeps its elements. *)
LEMMA RotateFacts ==
  ASSUME NEW S, NEW s \in Seq(S), s # <<>>, IsInjective(s)
  PROVE  /\ Head(s) \in S
         /\ Head(s) \in Range(s)
         /\ Append(Tail(s), Head(s)) \in Seq(S)
         /\ Range(Append(Tail(s), Head(s))) = Range(s)
         /\ IsInjective(Append(Tail(s), Head(s)))
<1>1. /\ Head(s) \in S /\ Head(s) \in Range(s) /\ Tail(s) \in Seq(S)
      /\ Range(Tail(s)) = Range(s) \ {Head(s)} /\ IsInjective(Tail(s))
  BY TailFacts
<1> DEFINE u == Tail(s)
           h == Head(s)
<1>2. h \in S /\ u \in Seq(S) /\ IsInjective(u) /\ h \notin Range(u)
      /\ Range(s) = Range(u) \union {h}
  BY <1>1
<1> HIDE DEF u, h
<1>3. /\ Append(u, h) \in Seq(S)
      /\ Range(Append(u, h)) = Range(s)
      /\ IsInjective(Append(u, h))
  BY <1>2, AppendFacts
<1> QED
  BY <1>1, <1>3 DEF u, h

(* What is left of a list without the element at a position. *)
LEMMA RemoveElements ==
  ASSUME NEW S, NEW s \in Seq(S), NEW p \in 1 .. Len(s)
  PROVE  /\ RemoveAt(s, p) \in Seq(S)
         /\ Len(RemoveAt(s, p)) = Len(s) - 1
         /\ \A i \in 1 .. Len(s) - 1 :
              RemoveAt(s, p)[i] = IF i < p THEN s[i] ELSE s[i + 1]
<1> DEFINE a == SubSeq(s, 1, p - 1)
           b == SubSeq(s, p + 1, Len(s))
           r == a \o b
<1>1. Len(s) \in Nat /\ \A i \in 1 .. Len(s) : s[i] \in S
  BY ElementOfSeq, LenProperties
<1>2. p \in 1 .. Len(s)
  BY <1>1
<1>3. /\ a \in Seq(S) /\ Len(a) = p - 1
      /\ \A i \in 1 .. p - 1 : a[i] = s[i]
  <2>1. 1 \in Int /\ p - 1 \in Int /\ \A i \in 1 .. p - 1 : s[i] \in S
    BY <1>1, <1>2
  <2>2. /\ a \in Seq(S) /\ Len(a) = IF 1 <= p - 1 THEN (p - 1) - 1 + 1 ELSE 0
        /\ \A i \in 1 .. (p - 1) - 1 + 1 : a[i] = s[1 + i - 1]
    BY <2>1, SubSeqProperties
  <2> QED
    BY <1>2, <2>2
<1>4. /\ b \in Seq(S) /\ Len(b) = Len(s) - p
      /\ \A i \in 1 .. Len(s) - p : b[i] = s[p + i]
  <2>1. p + 1 \in Int /\ Len(s) \in Int
        /\ \A i \in p + 1 .. Len(s) : s[i] \in S
    BY <1>1, <1>2
  <2>2. /\ b \in Seq(S)
        /\ Len(b) = IF p + 1 <= Len(s) THEN Len(s) - (p + 1) + 1 ELSE 0
        /\ \A i \in 1 .. Len(s) - (p + 1) + 1 : b[i] = s[(p + 1) + i - 1]
    BY <2>1, SubSeqProperties
  <2> HIDE DEF b
  <2>3. Len(b) = Len(s) - p /\ Len(s) - (p + 1) + 1 = Len(s) - p
    <3>1. CASE p + 1 <= Len(s)
      BY <1>1, <1>2, <2>2, <3>1
    <3>2. CASE p = Len(s)
      BY <1>1, <1>2, <2>2, <3>2
    <3>3. Len(s) \in Nat /\ p \in 1 .. Len(s)
      BY <1>1, <1>2
    <3> QED
      BY <3>1, <3>2, <3>3
  <2>4. ASSUME NEW i \in 1 .. Len(s) - p PROVE b[i] = s[p + i]
    <3>1. (p + 1) + i - 1 = p + i
      BY <1>1, <1>2
    <3> QED
      BY <2>2, <2>3, <3>1
  <2> QED
    BY <2>2, <2>3, <2>4
<1> HIDE DEF a, b
<1>5. /\ r \in Seq(S) /\ Len(r) = Len(s) - 1
      /\ \A i \in 1 .. Len(s) - 1 : r[i] = IF i < p THEN s[i] ELSE s[i + 1]
  <2>1. /\ r \in Seq(S) /\ Len(r) = Len(a) + Len(b)
        /\ \A i \in 1 .. Len(a) + Len(b) :
             r[i] = IF i <= Len(a) THEN a[i] ELSE b[i - Len(a)]
    BY <1>3, <1>4, ConcatProperties
  <2> HIDE DEF r
  <2>2. Len(a) + Len(b) = Len(s) - 1
    BY <1>1, <1>2, <1>3, <1>4
  <2>3. ASSUME NEW i \in 1 .. Len(s) - 1
        PROVE  r[i] = IF i < p THEN s[i] ELSE s[i + 1]
    <3>1. CASE i < p
      <4>1. i \in 1 .. p - 1 /\ i <= Len(a)
        BY <1>1, <1>2, <1>3, <3>1
      <4> QED
        BY <1>3, <2>1, <2>2, <3>1, <4>1
    <3>2. CASE ~ (i < p)
      <4>1. /\ ~ (i <= Len(a)) /\ i - Len(a) \in 1 .. Len(s) - p
            /\ p + (i - Len(a)) = i + 1
        BY <1>1, <1>2, <1>3, <3>2
      <4>2. r[i] = b[i - Len(a)]
        BY <2>1, <2>2, <4>1
      <4> QED
        BY <1>4, <3>2, <4>1, <4>2
    <3> QED
      BY <3>1, <3>2
  <2> QED
    BY <2>1, <2>2, <2>3
<1>6. RemoveAt(s, p) = r
  BY DEF RemoveAt, a, b, r
<1> QED
  BY <1>5, <1>6

(* Removing the element at a position of a list. *)
LEMMA RemoveFacts ==
  ASSUME NEW S, NEW s \in Seq(S), NEW p \in 1 .. Len(s), IsInjective(s)
  PROVE  /\ RemoveAt(s, p) \in Seq(S)
         /\ Range(RemoveAt(s, p)) = Range(s) \ {s[p]}
         /\ IsInjective(RemoveAt(s, p))
<1> DEFINE t == s[p]
           r == RemoveAt(s, p)
<1>1. /\ Len(s) \in Nat
      /\ \A i \in 1 .. Len(s) : s[i] \in S
      /\ \A x : x \in Range(s) <=> \E i \in 1 .. Len(s) : s[i] = x
      /\ \A i, j \in 1 .. Len(s) : s[i] = s[j] => i = j
  BY RangeFacts, ElementOfSeq, LenProperties
<1>2. p \in 1 .. Len(s) /\ s[p] = t
  BY <1>1
<1> HIDE DEF t
<1>5. /\ r \in Seq(S) /\ Len(r) = Len(s) - 1
      /\ \A i \in 1 .. Len(s) - 1 : r[i] = IF i < p THEN s[i] ELSE s[i + 1]
  BY RemoveElements
<1>6. /\ \A x : x \in Range(r) <=> \E i \in 1 .. Len(r) : r[i] = x
      /\ IsInjective(r) <=> \A i, j \in 1 .. Len(r) : r[i] = r[j] => i = j
  BY <1>5, RangeFacts
<1> HIDE DEF r
<1>7. ASSUME NEW x \in Range(r) PROVE x \in Range(s) \ {t}
  <2>1. PICK i \in 1 .. Len(s) - 1 : r[i] = x
    BY <1>5, <1>6
  <2>2. PICK j \in 1 .. Len(s) : s[j] = x /\ j # p
    BY <1>1, <1>2, <1>5, <2>1
  <2> QED
    BY <1>1, <1>2, <2>2
<1>8. ASSUME NEW x \in Range(s), x # t PROVE x \in Range(r)
  <2>1. PICK j \in 1 .. Len(s) : s[j] = x
    BY <1>1
  <2>2. j # p
    BY <1>2, <1>8, <2>1
  <2>3. CASE j < p
    <3>1. j \in 1 .. Len(s) - 1 /\ r[j] = x
      BY <1>1, <1>2, <1>5, <2>1, <2>3
    <3> QED
      BY <1>5, <1>6, <3>1
  <2>4. CASE j > p
    <3>1. j - 1 \in 1 .. Len(s) - 1 /\ (j - 1) + 1 = j /\ ~ (j - 1 < p)
      BY <1>1, <1>2, <2>1, <2>4
    <3>2. r[j - 1] = x
      BY <1>5, <2>1, <3>1
    <3> QED
      BY <1>5, <1>6, <3>1, <3>2
  <2> QED
    BY <1>1, <1>2, <2>2, <2>3, <2>4
<1>9. IsInjective(r)
  <2>1. SUFFICES ASSUME NEW i \in 1 .. Len(s) - 1, NEW j \in 1 .. Len(s) - 1,
                        r[i] = r[j]
                 PROVE  i = j
    BY <1>5, <1>6
  <2> QED
    BY <1>1, <1>2, <1>5, <2>1
<1> QED
  BY <1>2, <1>5, <1>7, <1>8, <1>9 DEF r

(* A set of naturals that is not empty has a least element. *)
LEMMA LeastElement ==
  ASSUME NEW T \in SUBSET Nat, T # {}
  PROVE  \E x \in T : \A y \in T : x <= y
<1>1. PICK x \in T : \A y \in T : ~ (<<y, x>> \in OpToRel(<, Nat))
  BY WFMin, NatLessThanWellFounded
<1>2. ASSUME NEW y \in T PROVE x <= y
  <2>1. ~ (<<y, x>> \in OpToRel(<, Nat))
    BY <1>1
  <2>2. ~ (y < x)
    BY <2>1 DEF OpToRel
  <2> QED
    BY <2>2
<1> QED
  BY <1>2

(* Inserting an element at a position of a list. *)
LEMMA InsertFacts ==
  ASSUME NEW S, NEW s \in Seq(S), NEW t \in S, NEW p \in 1 .. Len(s) + 1
  PROVE  /\ InsertAt(s, p, t) \in Seq(S)
         /\ Len(InsertAt(s, p, t)) = Len(s) + 1
         /\ \A i \in 1 .. Len(s) + 1 :
              InsertAt(s, p, t)[i] =
                IF i < p THEN s[i] ELSE IF i = p THEN t ELSE s[i - 1]
<1> DEFINE a == SubSeq(s, 1, p - 1)
           b == SubSeq(s, p, Len(s))
           m == a \o <<t>>
           r == m \o b
<1>0. Len(s) \in Nat /\ p \in 1 .. Len(s) + 1
  OBVIOUS
<1>1. \A i \in 1 .. Len(s) : s[i] \in S
  BY ElementOfSeq
<1>2. /\ a \in Seq(S) /\ Len(a) = p - 1
      /\ \A i \in 1 .. p - 1 : a[i] = s[i]
  <2>1. 1 \in Int /\ p - 1 \in Int /\ \A i \in 1 .. p - 1 : s[i] \in S
    BY <1>0, <1>1
  <2>2. /\ a \in Seq(S) /\ Len(a) = IF 1 <= p - 1 THEN (p - 1) - 1 + 1 ELSE 0
        /\ \A i \in 1 .. (p - 1) - 1 + 1 : a[i] = s[1 + i - 1]
    BY <2>1, SubSeqProperties
  <2> QED
    BY <1>0, <2>2
<1>3. /\ b \in Seq(S) /\ Len(b) = Len(s) - p + 1
      /\ \A i \in 1 .. Len(s) - p + 1 : b[i] = s[p + i - 1]
  <2>1. p \in Int /\ Len(s) \in Int /\ \A i \in p .. Len(s) : s[i] \in S
    BY <1>0, <1>1
  <2>2. /\ b \in Seq(S)
        /\ Len(b) = IF p <= Len(s) THEN Len(s) - p + 1 ELSE 0
        /\ \A i \in 1 .. Len(s) - p + 1 : b[i] = s[p + i - 1]
    BY <2>1, SubSeqProperties
  <2> HIDE DEF b
  <2>3. Len(b) = Len(s) - p + 1
    <3>1. CASE p <= Len(s)
      BY <2>2, <3>1
    <3>2. CASE p = Len(s) + 1
      BY <1>0, <2>2, <3>2
    <3> QED
      BY <1>0, <3>1, <3>2
  <2> QED
    BY <2>2, <2>3
<1> HIDE DEF a, b
<1>4. /\ m \in Seq(S) /\ Len(m) = p
      /\ \A i \in 1 .. p : m[i] = IF i < p THEN s[i] ELSE t
  <2>1. m = Append(a, t)
    BY <1>2, AppendIsConcat
  <2>2. /\ m \in Seq(S) /\ Len(m) = Len(a) + 1
        /\ \A i \in 1 .. Len(a) : m[i] = a[i]
        /\ m[Len(a) + 1] = t
    BY <1>2, <2>1, AppendProperties
  <2> HIDE DEF m
  <2>3. Len(a) + 1 = p
    BY <1>0, <1>2
  <2>4. ASSUME NEW i \in 1 .. p
        PROVE  m[i] = IF i < p THEN s[i] ELSE t
    <3>1. CASE i < p
      <4>1. i \in 1 .. p - 1 /\ i \in 1 .. Len(a)
        BY <1>0, <1>2, <3>1
      <4> QED
        BY <1>2, <2>2, <3>1, <4>1
    <3>2. CASE i = p
      BY <2>2, <2>3, <3>2
    <3> QED
      BY <1>0, <3>1, <3>2
  <2> QED
    BY <2>2, <2>3, <2>4
<1> HIDE DEF m
<1>5. /\ r \in Seq(S) /\ Len(r) = Len(m) + Len(b)
      /\ \A i \in 1 .. Len(m) + Len(b) :
           r[i] = IF i <= Len(m) THEN m[i] ELSE b[i - Len(m)]
  BY <1>3, <1>4, ConcatProperties
<1>6. r = InsertAt(s, p, t)
  BY DEF r, m, a, b, InsertAt
<1> HIDE DEF r
<1>7. Len(m) + Len(b) = Len(s) + 1
  BY <1>0, <1>3, <1>4
<1>8. ASSUME NEW i \in 1 .. Len(s) + 1
      PROVE  r[i] = IF i < p THEN s[i] ELSE IF i = p THEN t ELSE s[i - 1]
  <2>1. CASE i <= p
    <3>1. i \in 1 .. p
      BY <1>0, <2>1
    <3>2. r[i] = m[i]
      BY <1>4, <1>5, <1>7, <2>1
    <3> QED
      BY <1>0, <1>4, <3>1, <3>2
  <2>2. CASE ~ (i <= p)
    <3>1. i - p \in 1 .. Len(s) - p + 1 /\ p + (i - p) - 1 = i - 1
      BY <1>0, <2>2
    <3>2. r[i] = b[i - p]
      BY <1>4, <1>5, <1>7, <2>2
    <3>3. r[i] = s[i - 1]
      BY <1>3, <3>1, <3>2
    <3>4. ~ (i < p) /\ i # p
      BY <1>0, <2>2
    <3> QED
      BY <3>3, <3>4
  <2> QED
    BY <2>1, <2>2
<1> QED
  BY <1>5, <1>6, <1>7, <1>8

(* Inserting an element that is not in a list. *)
LEMMA InsertRange ==
  ASSUME NEW S, NEW s \in Seq(S), NEW t \in S, NEW p \in 1 .. Len(s) + 1
  PROVE  /\ Range(InsertAt(s, p, t)) = Range(s) \union {t}
         /\ IsInjective(s) /\ t \notin Range(s) => IsInjective(InsertAt(s, p, t))
<1> DEFINE r == InsertAt(s, p, t)
<1>a. r \in Seq(S) /\ Len(r) = Len(s) + 1
  BY InsertFacts
<1>b. ASSUME NEW i \in 1 .. Len(s) + 1
      PROVE  r[i] = IF i < p THEN s[i] ELSE IF i = p THEN t ELSE s[i - 1]
  BY InsertFacts
<1>1. /\ r \in Seq(S) /\ Len(r) = Len(s) + 1
      /\ \A i \in 1 .. Len(s) + 1 :
           r[i] = IF i < p THEN s[i] ELSE IF i = p THEN t ELSE s[i - 1]
  BY <1>a, <1>b
<1>2. /\ Len(s) \in Nat
      /\ \A x : x \in Range(s) <=> \E i \in 1 .. Len(s) : s[i] = x
      /\ IsInjective(s) <=> \A i, j \in 1 .. Len(s) : s[i] = s[j] => i = j
  BY RangeFacts
<1>3. /\ \A x : x \in Range(r) <=> \E i \in 1 .. Len(r) : r[i] = x
      /\ IsInjective(r) <=> \A i, j \in 1 .. Len(r) : r[i] = r[j] => i = j
  BY <1>1, RangeFacts
<1> HIDE DEF r
<1>4. ASSUME NEW x \in Range(r) PROVE x \in Range(s) \union {t}
  <2>1. PICK i \in 1 .. Len(s) + 1 : r[i] = x
    BY <1>1, <1>3
  <2>2. CASE i < p
    <3>1. i \in 1 .. Len(s) /\ s[i] = x
      BY <1>1, <1>2, <2>1, <2>2
    <3> QED
      BY <1>2, <3>1
  <2>3. CASE i = p
    BY <1>1, <2>1, <2>3
  <2>4. CASE i > p
    <3>1. i - 1 \in 1 .. Len(s)
      BY <1>2, <2>4
    <3>2. s[i - 1] = x
      BY <1>1, <2>1, <2>4
    <3> QED
      BY <1>2, <3>1, <3>2
  <2> QED
    BY <1>2, <2>2, <2>3, <2>4
<1>5. t \in Range(r)
  BY <1>1, <1>2, <1>3
<1>6. ASSUME NEW x \in Range(s) PROVE x \in Range(r)
  <2>1. PICK i \in 1 .. Len(s) : s[i] = x
    BY <1>2
  <2>2. CASE i < p
    BY <1>1, <1>2, <1>3, <2>1, <2>2
  <2>3. CASE ~ (i < p)
    <3>1. i + 1 \in 1 .. Len(s) + 1 /\ ~ (i + 1 < p) /\ i + 1 # p
          /\ (i + 1) - 1 = i
      BY <1>2, <2>3
    <3>2. r[i + 1] = x
      BY <1>1, <2>1, <3>1
    <3> QED
      BY <1>1, <1>3, <3>1, <3>2
  <2> QED
    BY <2>2, <2>3
<1>7. ASSUME IsInjective(s), t \notin Range(s)
      PROVE  IsInjective(r)
  <2>1. ASSUME NEW i \in 1 .. Len(r), NEW j \in 1 .. Len(r), r[i] = r[j], i < j
        PROVE  FALSE
    <3>1. i \in 1 .. Len(s) + 1 /\ j \in 1 .. Len(s) + 1 /\ p \in 1 .. Len(s) + 1
      BY <1>1
    <3>2. CASE j < p
      <4>1. i \in 1 .. Len(s) /\ j \in 1 .. Len(s) /\ i < p
        BY <1>2, <2>1, <3>1, <3>2
      <4>2. r[i] = s[i] /\ r[j] = s[j]
        BY <1>1, <3>1, <3>2, <4>1
      <4>3. s[i] = s[j]
        BY <2>1, <4>2
      <4>4. i = j
        BY <1>2, <1>7, <4>1, <4>3
      <4> QED
        BY <2>1, <4>4
    <3>3. CASE j = p
      <4>1. i \in 1 .. Len(s) /\ i < p
        BY <1>2, <2>1, <3>1, <3>3
      <4>2. r[i] = s[i] /\ r[j] = t
        BY <1>1, <3>1, <3>3, <4>1
      <4>3. s[i] # t
        BY <1>2, <1>7, <4>1
      <4> QED
        BY <2>1, <4>2, <4>3
    <3>4. CASE j > p
      <4>1. j - 1 \in 1 .. Len(s) /\ r[j] = s[j - 1]
        BY <1>1, <1>2, <3>1, <3>4
      <4>2. CASE i < p
        <5>1. i \in 1 .. Len(s) /\ r[i] = s[i] /\ i # j - 1
          BY <1>1, <1>2, <3>1, <3>4, <4>2
        <5>2. s[i] # s[j - 1]
          BY <1>2, <1>7, <4>1, <5>1
        <5> QED
          BY <2>1, <4>1, <5>1, <5>2
      <4>3. CASE i = p
        <5>1. r[i] = t
          BY <1>1, <3>1, <4>3
        <5>2. s[j - 1] # t
          BY <1>2, <1>7, <4>1
        <5> QED
          BY <2>1, <4>1, <5>1, <5>2
      <4>4. CASE i > p
        <5>1. i - 1 \in 1 .. Len(s) /\ r[i] = s[i - 1] /\ i - 1 # j - 1
          BY <1>1, <1>2, <2>1, <3>1, <4>4
        <5>2. s[i - 1] # s[j - 1]
          BY <1>2, <1>7, <4>1, <5>1
        <5> QED
          BY <2>1, <4>1, <5>1, <5>2
      <4> QED
        BY <3>1, <4>2, <4>3, <4>4
    <3> QED
      BY <3>1, <3>2, <3>3, <3>4
  <2>2. \A i, j \in 1 .. Len(r) : r[i] = r[j] => i = j
    <3>1. ASSUME NEW i \in 1 .. Len(r), NEW j \in 1 .. Len(r), r[i] = r[j]
          PROVE  i = j
      <4>1. i < j \/ i = j \/ j < i
        BY <1>1, <1>2
      <4> QED
        BY <2>1, <3>1, <4>1
    <3> QED
      BY <3>1
  <2> QED
    BY <1>3, <2>2
<1> QED
  BY <1>4, <1>5, <1>6, <1>7 DEF r

-----------------------------------------------------------------------------
(* Division with remainder: there is one quotient and one remainder. *)
LEMMA Division ==
  ASSUME NEW i \in Nat, NEW s \in Nat, s > 0
  PROVE  /\ i \div s \in Nat /\ i % s \in Nat /\ i % s < s
         /\ i = s * (i \div s) + (i % s)
OBVIOUS

LEMMA OneQuotient ==
  ASSUME NEW s \in Nat, s > 0, NEW q \in Nat, NEW p \in Nat,
         NEW r \in Nat, NEW t \in Nat, r < s, t < s, s * q + r = s * p + t
  PROVE  q = p /\ r = t
<1>1. ASSUME NEW x \in Nat, NEW y \in Nat, x < y
      PROVE  s * x + s <= s * y
  <2>1. PICK d \in Nat : y = x + 1 + d
    <3>1. y - x - 1 \in Nat /\ y = x + 1 + (y - x - 1)
      BY <1>1
    <3> QED
      BY <3>1
  <2>2. s * (x + 1 + d) = s * x + s + s * d
    OBVIOUS
  <2>3. s * d \in Nat /\ s * x \in Nat
    OBVIOUS
  <2> QED
    BY <2>1, <2>2, <2>3
<1>2. s * q \in Nat /\ s * p \in Nat
  OBVIOUS
<1>3. ~ (q < p)
  BY <1>1, <1>2
<1>4. ~ (p < q)
  BY <1>1, <1>2
<1>5. q = p
  BY <1>3, <1>4
<1> QED
  BY <1>2, <1>5

LEMMA Quotient ==
  ASSUME NEW s \in Nat, s > 0, NEW q \in Nat, NEW r \in Nat, r < s
  PROVE  (s * q + r) \div s = q /\ (s * q + r) % s = r
<1> DEFINE i == s * q + r
<1>1. i \in Nat /\ i = s * q + r
  OBVIOUS
<1> HIDE DEF i
<1> DEFINE d == i \div s
           m == i % s
<1>2. d \in Nat /\ m \in Nat /\ m < s /\ i = s * d + m
  BY <1>1, Division
<1> HIDE DEF d, m
<1>3. s * d + m = s * q + r
  BY <1>1, <1>2
<1>4. d = q /\ m = r
  BY <1>2, <1>3, OneQuotient
<1> QED
  BY <1>4 DEF d, m, i
=============================================================================
