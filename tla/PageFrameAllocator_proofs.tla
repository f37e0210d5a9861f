--------------------- MODULE PageFrameAllocator_proofs ---------------------
(***************************************************************************)
(* Theorems about the physical memory manager, for any machine, memory map *)
(* and size of requests.                                                   *)
(***************************************************************************)
EXTENDS PageFrameAllocator, FiniteSetTheorems, NaturalsInduction, TLAPS

(***************************************************************************)
(* Elements of lists.                                                      *)
(***************************************************************************)
\* The positions are numbered in ascending order.
LEMMA SublistChoice ==
  ASSUME NEW n \in Nat, NEW P \in SUBSET (1 .. n)
  PROVE  LET rank(i) == Cardinality({j \in P : j <= i})
         IN  /\ Cardinality(P) \in Nat
             /\ \A i \in P : rank(i) \in 1 .. Cardinality(P)
             /\ \A i, j \in P : rank(i) = rank(j) => i = j
             /\ \A i, j \in P : i < j => rank(i) < rank(j)
             /\ \A k \in 1 .. Cardinality(P) : \E i \in P : rank(i) = k
<1> DEFINE below(i) == {j \in P : j <= i}
           rank(i) == Cardinality(below(i))
<1>1. IsFiniteSet(P) /\ Cardinality(P) \in Nat
  <2>1. IsFiniteSet(1 .. n)
    BY FS_Interval
  <2>2. IsFiniteSet(P)
    BY <2>1, FS_Subset
  <2> QED
    BY <2>2, FS_CardinalityType
<1>2. \A i \in P : /\ below(i) \in SUBSET P /\ i \in below(i)
                   /\ IsFiniteSet(below(i)) /\ rank(i) \in Nat /\ rank(i) <= Cardinality(P)
  <2> TAKE i \in P
  <2>1. below(i) \in SUBSET P /\ i \in Int
    OBVIOUS
  <2>2. i \in below(i)
    BY <2>1
  <2>3. IsFiniteSet(below(i)) /\ rank(i) <= Cardinality(P)
    BY <1>1, <2>1, FS_Subset
  <2>4. rank(i) \in Nat
    BY <2>3, FS_CardinalityType
  <2> QED
    BY <2>1, <2>2, <2>3, <2>4
<1>3. \A i \in P : rank(i) # 0
  BY <1>2, FS_EmptySet
<1>4. \A i, j \in P : i < j => rank(i) < rank(j)
  <2> SUFFICES ASSUME NEW i \in P, NEW j \in P, i < j PROVE rank(i) < rank(j)
    OBVIOUS
  <2>0. P \subseteq Int /\ i \in Int /\ j \in Int
    OBVIOUS
  <2>1. below(i) \in SUBSET below(j) /\ j \in below(j) /\ j \notin below(i)
    <3>1. \A k \in P : k <= i => k <= j
      BY <2>0
    <3>2. below(i) \subseteq below(j)
      BY <3>1
    <3>3. j \in below(j) /\ j \notin below(i)
      BY <2>0
    <3> QED
      BY <3>2, <3>3
  <2>2. rank(i) <= rank(j) /\ (rank(j) = rank(i) => below(j) = below(i))
    BY <1>2, <2>1, FS_Subset
  <2> QED
    BY <1>2, <2>1, <2>2
<1> HIDE DEF below
<1>5. \A i, j \in P : rank(i) = rank(j) => i = j
  BY <1>2, <1>4
<1> DEFINE f == [i \in P |-> rank(i)]
<1>6. f \in Injection(P, 1 .. Cardinality(P))
  BY <1>1, <1>2, <1>3, <1>5 DEF Injection, IsInjective
<1>7. IsFiniteSet(1 .. Cardinality(P)) /\ Cardinality(1 .. Cardinality(P)) = Cardinality(P)
  BY <1>1, FS_Interval
<1>8. f \in Surjection(P, 1 .. Cardinality(P))
  BY <1>6, <1>7, FS_Injection
<1>9. \A k \in 1 .. Cardinality(P) : \E i \in P : rank(i) = k
  BY <1>8 DEF Surjection
<1> QED
  BY <1>1, <1>2, <1>3, <1>4, <1>5, <1>9 DEF below

\* Its entries come in list order.
LEMMA SublistOrder ==
  ASSUME NEW S, NEW list \in Seq(S), NEW P \in SUBSET DOMAIN list
  PROVE  LET sub == Sublist(list, P)
         IN  /\ sub \in Seq(S)
             /\ \E pos \in [DOMAIN sub -> P] :
                  /\ \A k \in DOMAIN sub : sub[k] = list[pos[k]]
                  /\ \A k, m \in DOMAIN sub : k < m => pos[k] < pos[m]
                  /\ \A i \in P : \E k \in DOMAIN sub : pos[k] = i
<1> DEFINE n == Cardinality(P)
           rank(i) == Cardinality({j \in P : j <= i})
           at(k) == CHOOSE i \in P : rank(i) = k
           sub == [k \in 1 .. n |-> list[at(k)]]
           pos == [k \in 1 .. n |-> at(k)]
<1>1. Len(list) \in Nat /\ DOMAIN list = 1 .. Len(list)
  OBVIOUS
<1>2. /\ n \in Nat
      /\ \A i \in P : rank(i) \in 1 .. n
      /\ \A i, j \in P : rank(i) = rank(j) => i = j
      /\ \A i, j \in P : i < j => rank(i) < rank(j)
      /\ \A k \in 1 .. n : \E i \in P : rank(i) = k
  BY <1>1, SublistChoice
<1> HIDE DEF n, rank
<1>3. \A k \in 1 .. n : at(k) \in P /\ rank(at(k)) = k
  BY <1>2
<1>4. \A i \in P : at(rank(i)) = i
  BY <1>2, <1>3
<1> HIDE DEF at
<1>5. sub \in Seq(S) /\ DOMAIN sub = 1 .. n
  BY <1>1, <1>2, <1>3
<1>6. \A k, m \in 1 .. n : k < m => at(k) < at(m)
  BY <1>1, <1>2, <1>3
<1>7. sub = Sublist(list, P)
  BY DEF Sublist, at, rank, n
<1>8. pos \in [DOMAIN sub -> P]
  BY <1>3, <1>5
<1>9. /\ \A k \in DOMAIN sub : sub[k] = list[pos[k]]
      /\ \A k, m \in DOMAIN sub : k < m => pos[k] < pos[m]
      /\ \A i \in P : \E k \in DOMAIN sub : pos[k] = i
  BY <1>2, <1>4, <1>5, <1>6
<1> HIDE DEF sub, pos
<1> QED
  BY <1>5, <1>7, <1>8, <1>9

\* A set of naturals that is not empty has a least element.
LEMMA MinNat ==
  ASSUME NEW A \in SUBSET Nat, A # {}
  PROVE  Min(A) \in A /\ \A a \in A : Min(A) <= a
<1>1. PICK m \in A : \A a \in A : ~(<<a, m>> \in OpToRel(<, Nat))
  BY WFMin, NatLessThanWellFounded, Zenon
<1>2. ASSUME NEW a \in Nat, NEW b \in Nat, a < b PROVE <<a, b>> \in OpToRel(<, Nat)
  <2>1. <<a, b>> \in Nat \X Nat /\ <<a, b>>[1] < <<a, b>>[2]
    BY <1>2
  <2> QED
    BY <2>1, Zenon DEF OpToRel
<1>3. ASSUME NEW a \in A PROVE ~(a < m)
  BY <1>1, <1>2, Zenon
<1>4. \A a \in A : m <= a
  BY <1>3
<1> QED
  BY <1>4 DEF Min

\* The elements of two lists one after the other.
LEMMA ConcatElements ==
  ASSUME NEW S, NEW s \in Seq(S), NEW r \in Seq(S)
  PROVE  /\ s \o r \in Seq(S) /\ Len(s \o r) = Len(s) + Len(r)
         /\ \A k \in 1 .. Len(s) + Len(r) : (s \o r)[k] = IF k <= Len(s) THEN s[k] ELSE r[k - Len(s)]
OBVIOUS

\* The elements after an insertion.
LEMMA InsertAtElements ==
  ASSUME NEW S, NEW s \in Seq(S), NEW e \in S, NEW i \in 1 .. Len(s)
  PROVE  /\ InsertAt(s, i, e) \in Seq(S) /\ DOMAIN InsertAt(s, i, e) = 1 .. Len(s) + 1
         /\ \A k \in 1 .. Len(s) + 1 :
              InsertAt(s, i, e)[k] = IF k < i THEN s[k] ELSE IF k = i THEN e ELSE s[k - 1]
BY DEF InsertAt

\* The elements after a removal.
LEMMA RemoveAtElements ==
  ASSUME NEW S, NEW s \in Seq(S), NEW i \in 1 .. Len(s)
  PROVE  /\ RemoveAt(s, i) \in Seq(S) /\ DOMAIN RemoveAt(s, i) = 1 .. Len(s) - 1
         /\ \A k \in 1 .. Len(s) - 1 : RemoveAt(s, i)[k] = IF k < i THEN s[k] ELSE s[k + 1]
<1> DEFINE a == SubSeq(s, 1, i - 1)
           b == SubSeq(s, i + 1, Len(s))
<1>1. a \in Seq(S) /\ Len(a) = i - 1 /\ \A k \in 1 .. i - 1 : a[k] = s[k]
  OBVIOUS
<1>2. b \in Seq(S) /\ Len(b) = Len(s) - i /\ \A k \in 1 .. Len(s) - i : b[k] = s[k + i]
  OBVIOUS
<1>3. RemoveAt(s, i) = a \o b
  BY DEF RemoveAt
<1> HIDE DEF a, b
<1>4. /\ a \o b \in Seq(S) /\ Len(a \o b) = Len(s) - 1
      /\ \A k \in 1 .. Len(s) - 1 : (a \o b)[k] = IF k < i THEN a[k] ELSE b[k - (i - 1)]
  <2>1. /\ a \o b \in Seq(S) /\ Len(a \o b) = Len(a) + Len(b)
        /\ \A k \in 1 .. Len(a) + Len(b) : (a \o b)[k] = IF k <= Len(a) THEN a[k] ELSE b[k - Len(a)]
    BY <1>1, <1>2, ConcatElements
  <2>2. Len(a) + Len(b) = Len(s) - 1 /\ \A k \in Int : k <= Len(a) <=> k < i
    BY <1>1, <1>2
  <2> QED
    BY <1>1, <2>1, <2>2
<1>5. ASSUME NEW k \in 1 .. Len(s) - 1 PROVE (a \o b)[k] = IF k < i THEN s[k] ELSE s[k + 1]
  <2>1. CASE k < i
    BY <1>1, <1>4, <2>1
  <2>2. CASE ~(k < i)
    <3>1. k - (i - 1) \in 1 .. Len(s) - i /\ (k - (i - 1)) + i = k + 1
      BY <2>2
    <3> QED
      BY <1>2, <1>4, <2>2, <3>1
  <2> QED
    BY <2>1, <2>2
<1>6. PICK c : c = RemoveAt(s, i)
  OBVIOUS
<1>7. c \in Seq(S) /\ Len(c) = Len(s) - 1
  BY <1>3, <1>4, <1>6
<1>8. DOMAIN c = 1 .. Len(s) - 1
  BY <1>7
<1>9. \A k \in 1 .. Len(s) - 1 : c[k] = IF k < i THEN s[k] ELSE s[k + 1]
  BY <1>3, <1>5, <1>6
<1> QED
  BY <1>6, <1>7, <1>8, <1>9

(***************************************************************************)
(* Operations on a list of blocks: each keeps it sorted and fused, and     *)
(* adds or removes exactly the frames that it should.                      *)
(***************************************************************************)
Ranges == {b \in [start : Nat, end : Nat] : b.start < b.end}

\* SortedAndFused, stated for any two blocks rather than for neighbours.
Sorted(list) ==
  /\ list \in Seq(Ranges)
  /\ \A i, j \in DOMAIN list : i < j => list[i].end < list[j].start

Within(f, b) == b.start <= f /\ f < b.end
Holds(list, f) == \E i \in DOMAIN list : Within(f, list[i])

\* r neither overlaps nor touches a block of the list.
Apart(list, r) == \A i \in DOMAIN list : list[i].end < r.start \/ r.end < list[i].start

\* What Sorted says of the blocks of a list.
LEMMA SortedElements ==
  ASSUME NEW list, Sorted(list)
  PROVE  /\ Len(list) \in Nat /\ DOMAIN list = 1 .. Len(list)
         /\ \A i \in 1 .. Len(list) : /\ list[i] \in Ranges
                                      /\ list[i].start \in Nat /\ list[i].end \in Nat
                                      /\ list[i].start < list[i].end
         /\ \A i, j \in 1 .. Len(list) : i < j => list[i].end < list[j].start
<1>1. Len(list) \in Nat /\ DOMAIN list = 1 .. Len(list)
  BY DEF Sorted
<1>2. \A i \in 1 .. Len(list) : list[i] \in Ranges
  BY DEF Sorted
<1> QED
  BY <1>1, <1>2 DEF Sorted, Ranges

\* The fields of a block.
LEMMA BlockIsRange ==
  ASSUME NEW s \in Nat, NEW e \in Nat, s < e
  PROVE  Block(s, e) \in Ranges /\ Block(s, e).start = s /\ Block(s, e).end = e
BY DEF Block, Ranges

\* insert() keeps the order and adds the frames of the block.
LEMMA InsertSorted ==
  ASSUME NEW list, Sorted(list), NEW r \in Ranges, Apart(list, r)
  PROVE  /\ Sorted(insert(list, r))
         /\ \A f \in Int : Holds(insert(list, r), f) <=> Holds(list, f) \/ Within(f, r)
<1> DEFINE n == Len(list)
           new == insert(list, r)
           above == {i \in DOMAIN list : list[i].start > r.start}
<1>1. /\ n \in Nat /\ DOMAIN list = 1 .. n /\ list \in Seq(Ranges)
      /\ \A i \in 1 .. n : list[i].start \in Nat /\ list[i].end \in Nat /\ list[i].start < list[i].end
      /\ \A i, j \in 1 .. n : i < j => list[i].end < list[j].start
  BY SortedElements DEF Sorted
<1>2. r.start \in Nat /\ r.end \in Nat /\ r.start < r.end
  BY DEF Ranges
<1>3. \A i \in 1 .. n : list[i].end < r.start \/ r.end < list[i].start
  BY <1>1 DEF Apart
<1>4. PICK m \in 1 .. n + 1 :
        /\ \A i \in 1 .. n : i < m => list[i].end < r.start
        /\ \A i \in 1 .. n : i >= m => r.end < list[i].start
        /\ new \in Seq(Ranges) /\ DOMAIN new = 1 .. n + 1
        /\ \A k \in 1 .. n + 1 : new[k] = IF k < m THEN list[k] ELSE IF k = m THEN r ELSE list[k - 1]
  <2>1. CASE above = {}
    <3>1. new = Append(list, r)
      BY <2>1 DEF insert
    <3>2. /\ new \in Seq(Ranges) /\ DOMAIN new = 1 .. n + 1
          /\ \A k \in 1 .. n + 1 : new[k] = IF k < n + 1 THEN list[k] ELSE r
      BY <1>1, <3>1
    <3>3. \A i \in 1 .. n : list[i].end < r.start
      BY <1>1, <1>2, <1>3, <2>1
    <3> HIDE DEF new, n
    <3> QED
      BY <1>1, <3>2, <3>3
  <2>2. CASE above # {}
    <3> DEFINE m == Min(above)
    <3>1. m \in above /\ \A i \in above : m <= i
      <4>1. above \in SUBSET Nat
        BY <1>1
      <4> QED
        BY <2>2, <4>1, MinNat
    <3>2. m \in 1 .. n /\ list[m].start > r.start
      BY <1>1, <3>1
    <3>3. new = InsertAt(list, m, r)
      BY <2>2 DEF insert
    <3> HIDE DEF m, new
    <3>4. \A i \in 1 .. n : i < m => list[i].start <= r.start
      <4>1. \A i \in 1 .. n : i < m => i \notin above
        BY <1>1, <3>1, <3>2
      <4> QED
        BY <1>1, <1>2, <4>1
    <3>5. /\ new \in Seq(Ranges) /\ DOMAIN new = 1 .. n + 1
          /\ \A k \in 1 .. n + 1 : new[k] = IF k < m THEN list[k] ELSE IF k = m THEN r ELSE list[k - 1]
      <4> HIDE DEF above
      <4>1. m \in 1 .. Len(list)
        BY <3>2
      <4>2. list \in Seq(Ranges) /\ r \in Ranges
        BY <1>1
      <4>3. /\ InsertAt(list, m, r) \in Seq(Ranges) /\ DOMAIN InsertAt(list, m, r) = 1 .. Len(list) + 1
            /\ \A k \in 1 .. Len(list) + 1 :
                 InsertAt(list, m, r)[k] = IF k < m THEN list[k] ELSE IF k = m THEN r ELSE list[k - 1]
        BY <4>1, <4>2, InsertAtElements
      <4> QED
        BY <3>3, <4>3
    <3> HIDE DEF above
    <3>6. \A i \in 1 .. n : i < m => list[i].end < r.start
      BY <1>1, <1>2, <1>3, <3>4
    <3>7. \A i \in 1 .. n : i >= m => r.end < list[i].start
      BY <1>1, <1>2, <1>3, <3>2
    <3>8. m \in 1 .. n + 1
      BY <1>1, <3>2
    <3> QED
      BY <3>5, <3>6, <3>7, <3>8
  <2> QED
    BY <2>1, <2>2
<1> HIDE DEF new, above, n
<1>5. \A i, j \in 1 .. n + 1 : i < j => new[i].end < new[j].start
  <2> SUFFICES ASSUME NEW i \in 1 .. n + 1, NEW j \in 1 .. n + 1, i < j
               PROVE  new[i].end < new[j].start
    OBVIOUS
  <2>1. CASE j < m
    BY <1>1, <1>4, <2>1
  <2>2. CASE j = m
    BY <1>1, <1>4, <2>2
  <2>0. j > m => j - 1 \in 1 .. n /\ new[j] = list[j - 1]
    BY <1>1, <1>4
  <2>3. CASE j > m /\ i = m
    BY <1>1, <1>4, <2>0, <2>3
  <2>4. CASE j > m /\ i > m
    <3>1. i - 1 \in 1 .. n /\ new[i] = list[i - 1] /\ i - 1 < j - 1
      BY <1>1, <1>4, <2>4
    <3> QED
      BY <1>1, <2>0, <2>4, <3>1
  <2>5. CASE j > m /\ i < m
    BY <1>1, <1>2, <1>4, <2>5
  <2> QED
    BY <1>1, <2>1, <2>2, <2>3, <2>4, <2>5
<1>6. ASSUME NEW f \in Int PROVE Holds(new, f) <=> Holds(list, f) \/ Within(f, r)
  <2>1. ASSUME Holds(new, f) PROVE Holds(list, f) \/ Within(f, r)
    <3>1. PICK k \in 1 .. n + 1 : Within(f, new[k])
      BY <1>4, <2>1 DEF Holds
    <3>2. CASE k < m
      BY <1>1, <1>4, <3>1, <3>2 DEF Holds
    <3>3. CASE k = m
      BY <1>4, <3>1, <3>3
    <3>4. CASE k > m
      <4>1. k - 1 \in 1 .. n /\ new[k] = list[k - 1]
        BY <1>1, <1>4, <3>4
      <4> QED
        BY <1>1, <3>1, <4>1 DEF Holds
    <3> QED
      BY <3>2, <3>3, <3>4
  <2>2. ASSUME Within(f, r) PROVE Holds(new, f)
    BY <1>4, <2>2 DEF Holds
  <2>3. ASSUME Holds(list, f) PROVE Holds(new, f)
    <3>1. PICK k \in 1 .. n : Within(f, list[k])
      BY <1>1, <2>3 DEF Holds
    <3>2. CASE k < m
      BY <1>1, <1>4, <3>1, <3>2 DEF Holds
    <3>3. CASE k >= m
      <4>1. k + 1 \in 1 .. n + 1 /\ new[k + 1] = list[k]
        BY <1>1, <1>4, <3>3
      <4> QED
        BY <1>4, <3>1, <4>1 DEF Holds
    <3> QED
      BY <3>2, <3>3
  <2> QED
    BY <2>1, <2>2, <2>3
<1> QED
  BY <1>4, <1>5, <1>6 DEF Sorted, new

\* Removing a block keeps the order and takes the frames of that block.
LEMMA RemoveSorted ==
  ASSUME NEW list, Sorted(list), NEW m \in DOMAIN list
  PROVE  /\ Sorted(RemoveAt(list, m))
         /\ \A f \in Int : Holds(RemoveAt(list, m), f) <=> Holds(list, f) /\ ~Within(f, list[m])
         /\ \A k \in DOMAIN RemoveAt(list, m) :
              \E i \in DOMAIN list : i # m /\ RemoveAt(list, m)[k] = list[i]
<1> DEFINE n == Len(list)
           new == RemoveAt(list, m)
<1>1. /\ n \in Nat /\ DOMAIN list = 1 .. n /\ list \in Seq(Ranges)
      /\ \A i \in 1 .. n : list[i].start \in Nat /\ list[i].end \in Nat /\ list[i].start < list[i].end
      /\ \A i, j \in 1 .. n : i < j => list[i].end < list[j].start
  BY SortedElements DEF Sorted
<1>2. /\ new \in Seq(Ranges) /\ DOMAIN new = 1 .. n - 1
      /\ \A k \in 1 .. n - 1 : new[k] = IF k < m THEN list[k] ELSE list[k + 1]
  <2>1. m \in 1 .. Len(list)
    BY <1>1
  <2> QED
    BY <1>1, <2>1, RemoveAtElements
<1> HIDE DEF new, n
<1>3. \A i, j \in 1 .. n - 1 : i < j => new[i].end < new[j].start
  <2> SUFFICES ASSUME NEW i \in 1 .. n - 1, NEW j \in 1 .. n - 1, i < j
               PROVE  new[i].end < new[j].start
    OBVIOUS
  <2>0. ASSUME NEW k \in 1 .. n - 1
        PROVE  \E l \in 1 .. n : new[k] = list[l] /\ l = (IF k < m THEN k ELSE k + 1)
    <3>1. n \in Nat
      BY <1>1
    <3>2. k \in 1 .. n /\ k + 1 \in 1 .. n
      BY <3>1
    <3>3. new[k] = IF k < m THEN list[k] ELSE list[k + 1]
      BY <1>2
    <3>4. CASE k < m
      BY <3>2, <3>3, <3>4
    <3>5. CASE ~(k < m)
      BY <3>2, <3>3, <3>5
    <3> QED
      BY <3>4, <3>5
  <2>1. PICK k \in 1 .. n : new[i] = list[k] /\ k = (IF i < m THEN i ELSE i + 1)
    BY <2>0
  <2>2. PICK l \in 1 .. n : new[j] = list[l] /\ l = (IF j < m THEN j ELSE j + 1)
    BY <2>0
  <2>3. k < l
    BY <1>1, <2>1, <2>2
  <2> QED
    BY <1>1, <2>1, <2>2, <2>3
<1>4. ASSUME NEW k \in DOMAIN new PROVE \E i \in DOMAIN list : i # m /\ new[k] = list[i]
  <2>1. CASE k < m
    BY <1>1, <1>2, <2>1
  <2>2. CASE k >= m
    <3>1. k + 1 \in DOMAIN list /\ k + 1 # m /\ new[k] = list[k + 1]
      BY <1>1, <1>2, <2>2
    <3> QED
      BY <3>1
  <2> QED
    BY <1>1, <1>2, <2>1, <2>2
<1>5. ASSUME NEW i \in DOMAIN list, i # m PROVE \E k \in DOMAIN new : new[k] = list[i]
  <2>1. CASE i < m
    BY <1>1, <1>2, <2>1
  <2>2. CASE i > m
    <3>1. i - 1 \in DOMAIN new /\ new[i - 1] = list[i]
      BY <1>1, <1>2, <2>2
    <3> QED
      BY <3>1
  <2> QED
    BY <1>1, <1>5, <2>1, <2>2
<1>6. ASSUME NEW f \in Int, NEW i \in DOMAIN list, Within(f, list[i]), Within(f, list[m]) PROVE i = m
  BY <1>1, <1>6 DEF Within
<1>7. ASSUME NEW f \in Int PROVE Holds(new, f) <=> Holds(list, f) /\ ~Within(f, list[m])
  <2>1. ASSUME Holds(new, f) PROVE Holds(list, f) /\ ~Within(f, list[m])
    BY <1>4, <1>6, <2>1 DEF Holds
  <2>2. ASSUME Holds(list, f), ~Within(f, list[m]) PROVE Holds(new, f)
    BY <1>5, <2>2 DEF Holds
  <2> QED
    BY <2>1, <2>2
<1> QED
  BY <1>2, <1>3, <1>4, <1>7 DEF Sorted, new

\* A block that grows without reaching its neighbours.
LEMMA GrowSorted ==
  ASSUME NEW list, Sorted(list), NEW m \in DOMAIN list, NEW b \in Ranges,
         b.start <= list[m].start, list[m].end <= b.end,
         \A i \in DOMAIN list : i < m => list[i].end < b.start,
         \A i \in DOMAIN list : i > m => b.end < list[i].start
  PROVE  /\ Sorted(ReplaceAt(list, m, b))
         /\ \A f \in Int : Holds(ReplaceAt(list, m, b), f) <=> Holds(list, f) \/ Within(f, b)
<1> DEFINE n == Len(list)
           new == ReplaceAt(list, m, b)
<1>1. /\ n \in Nat /\ DOMAIN list = 1 .. n /\ list \in Seq(Ranges)
      /\ \A i \in 1 .. n : list[i].start \in Nat /\ list[i].end \in Nat /\ list[i].start < list[i].end
      /\ \A i, j \in 1 .. n : i < j => list[i].end < list[j].start
  BY SortedElements DEF Sorted
<1>2. b.start \in Nat /\ b.end \in Nat /\ b.start < b.end
  BY DEF Ranges
<1>3. /\ new \in Seq(Ranges) /\ DOMAIN new = 1 .. n
      /\ \A k \in 1 .. n : new[k] = IF k = m THEN b ELSE list[k]
  BY <1>1 DEF ReplaceAt
<1> HIDE DEF new, n
<1>4. \A i, j \in 1 .. n : i < j => new[i].end < new[j].start
  <2> SUFFICES ASSUME NEW i \in 1 .. n, NEW j \in 1 .. n, i < j PROVE new[i].end < new[j].start
    OBVIOUS
  <2>1. CASE i = m
    BY <1>1, <1>3, <2>1, SMTT(30)
  <2>2. CASE j = m
    BY <1>1, <1>3, <2>2, SMTT(30)
  <2>3. CASE i # m /\ j # m
    BY <1>1, <1>3, <2>3
  <2> QED
    BY <2>1, <2>2, <2>3
<1>5. ASSUME NEW f \in Int PROVE Holds(new, f) <=> Holds(list, f) \/ Within(f, b)
  <2>1. Within(f, list[m]) => Within(f, b)
    BY <1>1, <1>2 DEF Within
  <2>2. Holds(new, f) => Holds(list, f) \/ Within(f, b)
    BY <1>1, <1>3 DEF Holds
  <2>3. Within(f, b) => Holds(new, f)
    BY <1>1, <1>3 DEF Holds
  <2>4. Holds(list, f) => Holds(new, f) \/ Within(f, list[m])
    BY <1>1, <1>3 DEF Holds
  <2> QED
    BY <2>1, <2>2, <2>3, <2>4
<1> QED
  BY <1>3, <1>4, <1>5 DEF Sorted, new

\* free_block() keeps the list sorted and fused and adds the frames of the block.
LEMMA FreeSorted ==
  ASSUME NEW list, Sorted(list), NEW r \in Ranges,
         \A i \in DOMAIN list : list[i].end <= r.start \/ r.end <= list[i].start
  PROVE  /\ Sorted(free_block(list, r))
         /\ \A f \in Int : Holds(free_block(list, r), f) <=> Holds(list, f) \/ Within(f, r)
<1> DEFINE n == Len(list)
           new == free_block(list, r)
           stop == {i \in DOMAIN list : r.end = list[i].start \/ list[i].end >= r.start}
           m == Min(stop)
           Good == /\ Sorted(new)
                   /\ \A f \in Int : Holds(new, f) <=> Holds(list, f) \/ Within(f, r)
<1>1. /\ n \in Nat /\ DOMAIN list = 1 .. n /\ list \in Seq(Ranges)
      /\ \A i \in 1 .. n : list[i].start \in Nat /\ list[i].end \in Nat /\ list[i].start < list[i].end
      /\ \A i, j \in 1 .. n : i < j => list[i].end < list[j].start
  BY SortedElements DEF Sorted
<1>2. r.start \in Nat /\ r.end \in Nat /\ r.start < r.end
  BY DEF Ranges
<1>3. \A i \in 1 .. n : list[i].end <= r.start \/ r.end <= list[i].start
  BY <1>1
<1>4. ASSUME new = insert(list, r), Apart(list, r) PROVE Good
  BY <1>4, InsertSorted
<1>5. CASE stop = {}
  <2>1. new = insert(list, r)
    BY <1>5 DEF free_block
  <2>2. \A i \in 1 .. n : list[i].end < r.start
    BY <1>1, <1>2, <1>5
  <2> QED
    BY <1>1, <1>4, <2>1, <2>2 DEF Apart
<1>6. CASE stop # {}
  <2>1. m \in stop /\ \A i \in stop : m <= i
    <3>1. stop \in SUBSET Nat
      BY <1>1
    <3> QED
      BY <1>6, <3>1, MinNat
  <2>2. m \in 1 .. n /\ (r.end = list[m].start \/ list[m].end >= r.start)
    BY <1>1, <2>1
  <2>3. \A i \in 1 .. n : i < m => list[i].end < r.start
    <3> HIDE DEF m
    <3>1. \A i \in 1 .. n : i < m => i \notin stop
      BY <1>1, <2>1, <2>2
    <3> QED
      BY <1>1, <1>2, <3>1
  <2>4. ASSUME r.end = list[m].start PROVE Good
    <3> DEFINE b == Block(r.start, list[m].end)
    <3>1. new = ReplaceAt(list, m, b)
      BY <1>6, <2>4 DEF free_block
    <3>2. b \in Ranges /\ b.start = r.start /\ b.end = list[m].end
      <4> HIDE DEF m
      <4>1. r.start < list[m].end /\ list[m].end \in Nat
        BY <1>1, <1>2, <2>2, <2>4
      <4> QED
        BY <1>2, <4>1, BlockIsRange
    <3> HIDE DEF b, m, new, stop, n
    <3>3. /\ b.start <= list[m].start /\ list[m].end <= b.end
          /\ \A i \in DOMAIN list : i < m => list[i].end < b.start
          /\ \A i \in DOMAIN list : i > m => b.end < list[i].start
      BY <1>1, <1>2, <2>2, <2>3, <2>4, <3>2
    <3>4. Sorted(new) /\ \A f \in Int : Holds(new, f) <=> Holds(list, f) \/ Within(f, b)
      BY <1>1, <2>2, <3>1, <3>2, <3>3, GrowSorted
    <3>5. \A f \in Int : Within(f, b) <=> Within(f, r) \/ Within(f, list[m])
      BY <1>1, <1>2, <2>2, <2>4, <3>2 DEF Within
    <3>6. \A f \in Int : Within(f, list[m]) => Holds(list, f)
      BY <1>1, <2>2 DEF Holds
    <3> QED
      BY <3>4, <3>5, <3>6
  <2>5. ASSUME r.end # list[m].start, list[m].end # r.start PROVE Good
    <3>1. new = insert(list, r)
      BY <2>5 DEF free_block
    <3> HIDE DEF m, new, stop, n
    <3>2. r.end < list[m].start
      BY <1>1, <1>2, <1>3, <2>2, <2>5
    <3>3. \A i \in 1 .. n : i > m => r.end < list[i].start
      BY <1>1, <1>2, <2>2, <3>2
    <3>4. Apart(list, r)
      BY <1>1, <2>2, <2>3, <3>2, <3>3 DEF Apart
    <3> QED
      BY <1>4, <3>1, <3>4
  <2>6. ASSUME r.end # list[m].start, list[m].end = r.start PROVE Good
    <3>1. \A i \in 1 .. n : i > m => r.end <= list[i].start
      <4> HIDE DEF m, new, stop, n
      <4> QED
        BY <1>1, <1>2, <1>3, <2>2, <2>6
    <3>2. CASE ~(m < n /\ r.end = list[m + 1].start)
      <4> DEFINE b == Block(list[m].start, r.end)
      <4>1. new = ReplaceAt(list, m, b)
        BY <1>6, <2>6, <3>2 DEF free_block
      <4>2. b \in Ranges /\ b.start = list[m].start /\ b.end = r.end
        <5> HIDE DEF m
        <5>1. list[m].start < r.end /\ list[m].start \in Nat
          BY <1>1, <1>2, <2>2, <2>6
        <5> QED
          BY <1>2, <5>1, BlockIsRange
      <4> HIDE DEF b, m, new, stop, n
      <4>3. \A i \in 1 .. n : i > m => r.end < list[i].start
        <5>1. m < n => m + 1 \in 1 .. n /\ r.end < list[m + 1].start
          BY <1>1, <1>2, <2>2, <3>1, <3>2
        <5> QED
          BY <1>1, <1>2, <2>2, <5>1, SMTT(30)
      <4>4. /\ b.start <= list[m].start /\ list[m].end <= b.end
            /\ \A i \in DOMAIN list : i < m => list[i].end < b.start
            /\ \A i \in DOMAIN list : i > m => b.end < list[i].start
        BY <1>1, <1>2, <2>2, <2>6, <4>2, <4>3
      <4>5. Sorted(new) /\ \A f \in Int : Holds(new, f) <=> Holds(list, f) \/ Within(f, b)
        BY <1>1, <2>2, <4>1, <4>2, <4>4, GrowSorted
      <4>6. \A f \in Int : Within(f, b) <=> Within(f, r) \/ Within(f, list[m])
        BY <1>1, <1>2, <2>2, <2>6, <4>2 DEF Within
      <4>7. \A f \in Int : Within(f, list[m]) => Holds(list, f)
        BY <1>1, <2>2 DEF Holds
      <4> QED
        BY <4>5, <4>6, <4>7
    <3>3. CASE m < n /\ r.end = list[m + 1].start
      <4> DEFINE b == Block(list[m].start, list[m + 1].end)
                 rest == RemoveAt(list, m + 1)
      <4>1. new = ReplaceAt(rest, m, b)
        BY <1>6, <2>6, <3>3 DEF free_block
      <4>0. m + 1 \in 1 .. n
        <5> HIDE DEF m
        <5> QED
          BY <1>1, <2>2, <3>3
      <4>2. b \in Ranges /\ b.start = list[m].start /\ b.end = list[m + 1].end
        <5> HIDE DEF m, rest
        <5>1. /\ list[m].start \in Nat /\ list[m + 1].end \in Nat
              /\ list[m].start < list[m + 1].end
          BY <1>1, <1>2, <2>2, <2>6, <3>3, <4>0
        <5> QED
          BY <5>1, BlockIsRange
      <4> HIDE DEF b, m, new, stop
      <4>3. /\ Sorted(rest)
            /\ \A f \in Int : Holds(rest, f) <=> Holds(list, f) /\ ~Within(f, list[m + 1])
        BY <1>1, <4>0, RemoveSorted
      <4>4. /\ DOMAIN rest = 1 .. n - 1
            /\ \A k \in 1 .. n - 1 : rest[k] = IF k < m + 1 THEN list[k] ELSE list[k + 1]
        BY <1>1, <4>0, RemoveAtElements
      <4> HIDE DEF rest, n
      <4>5. m \in DOMAIN rest /\ rest[m] = list[m]
        BY <1>1, <2>2, <3>3, <4>4
      <4>6. \A i \in DOMAIN rest : i < m => rest[i].end < b.start
        BY <1>1, <2>2, <4>2, <4>4
      <4>7. ASSUME NEW i \in DOMAIN rest, i > m PROVE b.end < rest[i].start
        <5>1. i + 1 \in 1 .. n /\ rest[i] = list[i + 1] /\ i + 1 > m + 1
          BY <1>1, <2>2, <4>4, <4>7
        <5> QED
          BY <1>1, <4>0, <4>2, <5>1
      <4>8. b.start <= rest[m].start /\ rest[m].end <= b.end
        BY <1>1, <2>2, <3>3, <4>0, <4>2, <4>5
      <4>9. Sorted(new) /\ \A f \in Int : Holds(new, f) <=> Holds(rest, f) \/ Within(f, b)
        BY <4>1, <4>2, <4>3, <4>5, <4>6, <4>7, <4>8, GrowSorted
      <4>10. \A f \in Int : Within(f, b) <=>
               Within(f, r) \/ Within(f, list[m]) \/ Within(f, list[m + 1])
        BY <1>1, <1>2, <2>2, <2>6, <3>3, <4>0, <4>2 DEF Within
      <4>11. \A f \in Int : Within(f, list[m]) \/ Within(f, list[m + 1]) => Holds(list, f)
        BY <1>1, <2>2, <4>0 DEF Holds
      <4> QED
        BY <4>3, <4>9, <4>10, <4>11
    <3> QED
      BY <3>2, <3>3
  <2> QED
    BY <2>4, <2>5, <2>6
<1> QED
  BY <1>5, <1>6

\* alloc_block() takes the first frames of the first block that is large
\* enough, and no other frame.
LEMMA AllocSorted ==
  ASSUME NEW list, Sorted(list), NEW c \in Nat \ {0}, Fitting(list, c) # {}
  PROVE  /\ Min(Fitting(list, c)) \in DOMAIN list
         /\ list[Min(Fitting(list, c))].start + c <= list[Min(Fitting(list, c))].end
         /\ \A i \in Fitting(list, c) : Min(Fitting(list, c)) <= i
         /\ Sorted(alloc_block(list, c))
         /\ \A f \in Int : Holds(alloc_block(list, c), f) <=>
              /\ Holds(list, f)
              /\ ~(/\ list[Min(Fitting(list, c))].start <= f
                   /\ f < list[Min(Fitting(list, c))].start + c)
<1> DEFINE n == Len(list)
           m == Min(Fitting(list, c))
           new == alloc_block(list, c)
           rest == RemoveAt(list, m)
           b == Block(list[m].start + c, list[m].end)
<1>1. /\ n \in Nat /\ DOMAIN list = 1 .. n /\ list \in Seq(Ranges)
      /\ \A i \in 1 .. n : list[i].start \in Nat /\ list[i].end \in Nat /\ list[i].start < list[i].end
      /\ \A i, j \in 1 .. n : i < j => list[i].end < list[j].start
  BY SortedElements DEF Sorted
<1>2. m \in Fitting(list, c) /\ \A i \in Fitting(list, c) : m <= i
  <2>1. Fitting(list, c) \in SUBSET Nat
    BY <1>1 DEF Fitting
  <2> QED
    BY <2>1, MinNat
<1>3. new = IF b.start < b.end THEN insert(rest, b) ELSE rest
  BY DEF alloc_block
<1> HIDE DEF m, new
<1>4. m \in 1 .. n /\ list[m].start + c <= list[m].end
  BY <1>1, <1>2 DEF Fitting
<1>5. b.start = list[m].start + c /\ b.end = list[m].end
  BY DEF Block
<1>6. b.start < b.end => b \in Ranges
  BY <1>1, <1>4, <1>5, BlockIsRange
<1>7. /\ Sorted(rest)
      /\ \A f \in Int : Holds(rest, f) <=> Holds(list, f) /\ ~Within(f, list[m])
      /\ \A k \in DOMAIN rest : \E i \in DOMAIN list : i # m /\ rest[k] = list[i]
  BY <1>1, <1>4, RemoveSorted
<1> HIDE DEF b, rest, n
<1>8. Sorted(new) /\ \A f \in Int : Holds(new, f) <=>
        Holds(list, f) /\ ~(list[m].start <= f /\ f < list[m].start + c)
  <2>1. CASE b.start < b.end
    <3>1. Apart(rest, b)
      <4> SUFFICES ASSUME NEW k \in DOMAIN rest PROVE rest[k].end < b.start \/ b.end < rest[k].start
        BY DEF Apart
      <4>1. PICK i \in 1 .. n : i # m /\ rest[k] = list[i]
        BY <1>1, <1>7
      <4>2. i < m \/ m < i
        BY <1>1, <1>4, <4>1
      <4> QED
        BY <1>1, <1>4, <1>5, <4>1, <4>2
    <3>2. Sorted(new) /\ \A f \in Int : Holds(new, f) <=> Holds(rest, f) \/ Within(f, b)
      BY <1>3, <1>6, <1>7, <2>1, <3>1, InsertSorted
    <3>3. \A f \in Int : Within(f, b) <=>
            Within(f, list[m]) /\ ~(list[m].start <= f /\ f < list[m].start + c)
      BY <1>1, <1>4, <1>5 DEF Within
    <3>4. \A f \in Int : list[m].start <= f /\ f < list[m].start + c => Within(f, list[m])
      BY <1>1, <1>4 DEF Within
    <3>5. \A f \in Int : Within(f, list[m]) => Holds(list, f)
      BY <1>1, <1>4 DEF Holds
    <3> QED
      BY <1>7, <3>2, <3>3, <3>4, <3>5
  <2>2. CASE ~(b.start < b.end)
    <3>1. list[m].start + c = list[m].end
      <4>1. list[m].start + c \in Nat /\ list[m].end \in Nat
        BY <1>1, <1>4
      <4>2. ~(list[m].start + c < list[m].end)
        BY <1>5, <2>2
      <4> QED
        BY <1>4, <4>1, <4>2
    <3> QED
      BY <1>3, <1>7, <2>2, <3>1 DEF Within
  <2> QED
    BY <2>1, <2>2
<1> QED
  BY <1>1, <1>2, <1>4, <1>8 DEF m, new

\* Part k of a list of n split blocks belongs to block (k + 1) div 2.
LEMMA PartIndex ==
  ASSUME NEW n \in Nat, NEW k \in 1 .. 2 * n
  PROVE  \E i \in 1 .. n : /\ i = (k + 1) \div 2
                           /\ \/ k % 2 = 1 /\ k = 2 * i - 1
                              \/ k % 2 = 0 /\ k = 2 * i
OBVIOUS

\* reserve_block() keeps the order, adds no frame, and leaves frames of the
\* reserved range only in blocks it does not examine.
LEMMA ReserveSorted ==
  ASSUME NEW list, Sorted(list), NEW r, IsRange(r)
  PROVE  /\ Sorted(reserve_block(list, r))
         /\ \A f \in Int : Holds(reserve_block(list, r), f) =>
              \E i \in DOMAIN list : /\ Within(f, list[i])
                                     /\ i \in Examined(list, r) => ~Within(f, r)
<1> DEFINE n == Len(list)
           parts == [k \in 1 .. 2 * n |-> Part(list, r, k)]
           P == {k \in DOMAIN parts : parts[k].start < parts[k].end}
           new == Sublist(parts, P)
           T == [start : Nat, end : Nat]
<1>1. /\ n \in Nat /\ DOMAIN list = 1 .. n
      /\ \A i \in 1 .. n : /\ list[i].start \in Nat /\ list[i].end \in Nat
                           /\ list[i].start < list[i].end /\ list[i] \in T
      /\ \A i, j \in 1 .. n : i < j => list[i].end < list[j].start
  BY SortedElements DEF Ranges
<1>2. r.start \in Nat /\ r.end \in Nat /\ r.start < r.end
  BY DEF IsRange
<1>3. new = reserve_block(list, r)
  BY DEF reserve_block
<1>4. \A k \in 1 .. 2 * n : parts[k] = Part(list, r, k)
  OBVIOUS
<1>5. ASSUME NEW k \in 1 .. 2 * n, NEW i \in 1 .. n, i = (k + 1) \div 2,
             (k % 2 = 1 /\ k = 2 * i - 1) \/ (k % 2 = 0 /\ k = 2 * i)
      PROVE  /\ parts[k] \in T
             /\ parts[k].start < parts[k].end =>
                  /\ list[i].start <= parts[k].start /\ parts[k].end <= list[i].end
                  /\ i \in Examined(list, r) =>
                       \/ k = 2 * i - 1 /\ parts[k].end <= r.start
                       \/ k = 2 * i /\ r.end <= parts[k].start
                  /\ i \notin Examined(list, r) => k = 2 * i - 1
  <2> HIDE DEF parts
  <2>1. CASE i \in Examined(list, r) /\ k % 2 = 1
    <3>1. parts[k] = Below(list[i], r)
      BY <1>4, <1>5, <2>1 DEF Part
    <3> QED
      BY <1>1, <1>2, <1>5, <2>1, <3>1, SMTT(30) DEF Below, Block
  <2>2. CASE i \in Examined(list, r) /\ k % 2 = 0
    <3>1. parts[k] = Above(list[i], r)
      <4>1. k % 2 # 1
        BY <2>2
      <4> QED
        BY <1>4, <1>5, <2>2, <4>1 DEF Part
    <3> QED
      BY <1>1, <1>2, <1>5, <2>2, <3>1 DEF Above, Block
  <2>3. CASE i \notin Examined(list, r) /\ k % 2 = 1
    <3>1. parts[k] = list[i]
      BY <1>4, <1>5, <2>3 DEF Part
    <3> QED
      BY <1>1, <1>5, <2>3, <3>1
  <2>4. CASE i \notin Examined(list, r) /\ k % 2 = 0
    <3>1. parts[k] = Block(list[i].end, list[i].end)
      <4>1. k % 2 # 1
        BY <2>4
      <4> QED
        BY <1>4, <1>5, <2>4, <4>1 DEF Part
    <3> QED
      BY <1>1, <3>1 DEF Block
  <2> QED
    BY <1>5, <2>1, <2>2, <2>3, <2>4
<1>6. parts \in Seq(T) /\ P \in SUBSET DOMAIN parts /\ DOMAIN parts = 1 .. 2 * n
  <2>1. \A k \in 1 .. 2 * n : parts[k] \in T
    BY <1>1, <1>5, PartIndex
  <2>2. 2 * n \in Nat
    BY <1>1
  <2> QED
    BY <2>1, <2>2
<1>7. \A k \in P : k \in 1 .. 2 * n /\ parts[k].start < parts[k].end
  BY <1>6
<1> HIDE DEF parts, P, n
<1>8. PICK pos \in [DOMAIN new -> P] :
        /\ \A k \in DOMAIN new : new[k] = parts[pos[k]]
        /\ \A k, m \in DOMAIN new : k < m => pos[k] < pos[m]
  BY <1>6, SublistOrder
<1>9. new \in Seq(T)
  BY <1>6, SublistOrder
<1>10. \A k \in DOMAIN new : pos[k] \in 1 .. 2 * n /\ new[k].start < new[k].end /\ new[k] \in T
  <2> HIDE DEF new, T
  <2> TAKE k \in DOMAIN new
  <2>1. pos[k] \in P /\ new[k] = parts[pos[k]]
    BY <1>8
  <2>2. new[k] \in T
    BY <1>9
  <2> QED
    BY <1>7, <2>1, <2>2
<1> HIDE DEF new
<1>11. new \in Seq(Ranges)
  <2>1. \A k \in 1 .. Len(new) : new[k] \in Ranges
    BY <1>9, <1>10 DEF Ranges
  <2>2. Len(new) \in Nat /\ DOMAIN new = 1 .. Len(new) /\ new = [k \in 1 .. Len(new) |-> new[k]]
    BY <1>9
  <2> QED
    BY <2>1, <2>2
<1>12. ASSUME NEW k \in DOMAIN new, NEW m \in DOMAIN new, k < m PROVE new[k].end < new[m].start
  <2>1. PICK i \in 1 .. n : /\ i = (pos[k] + 1) \div 2
                            /\ \/ pos[k] % 2 = 1 /\ pos[k] = 2 * i - 1
                               \/ pos[k] % 2 = 0 /\ pos[k] = 2 * i
    BY <1>1, <1>10, PartIndex
  <2>2. PICK j \in 1 .. n : /\ j = (pos[m] + 1) \div 2
                            /\ \/ pos[m] % 2 = 1 /\ pos[m] = 2 * j - 1
                               \/ pos[m] % 2 = 0 /\ pos[m] = 2 * j
    BY <1>1, <1>10, PartIndex
  <2>3. /\ new[k].end <= list[i].end /\ list[j].start <= new[m].start
        /\ i \in Examined(list, r) => \/ pos[k] = 2 * i - 1 /\ new[k].end <= r.start
                                      \/ pos[k] = 2 * i
        /\ j \in Examined(list, r) => \/ pos[m] = 2 * j - 1
                                      \/ pos[m] = 2 * j /\ r.end <= new[m].start
        /\ j \notin Examined(list, r) => pos[m] = 2 * j - 1
    BY <1>5, <1>8, <1>10, <1>12, <2>1, <2>2
  <2>4. new[k].end \in Nat /\ new[m].start \in Nat /\ pos[k] < pos[m]
    BY <1>8, <1>10, <1>12
  <2>5. CASE i < j
    BY <1>1, <2>3, <2>4, <2>5
  <2>6. CASE i = j
    <3>1. pos[k] = 2 * i - 1 /\ pos[m] = 2 * i
      BY <1>1, <2>1, <2>2, <2>4, <2>6
    <3>2. new[k].end <= r.start /\ r.end <= new[m].start
      BY <1>1, <2>3, <2>6, <3>1
    <3> QED
      BY <1>2, <2>4, <3>2
  <2>7. ~(j < i)
    <3>1. i \in Int /\ j \in Int
      OBVIOUS
    <3>2. pos[k] = 2 * i - 1 \/ pos[k] = 2 * i
      BY <2>1
    <3>3. pos[m] = 2 * j - 1 \/ pos[m] = 2 * j
      BY <2>2
    <3> QED
      BY <2>4, <3>1, <3>2, <3>3
  <2> QED
    BY <1>1, <2>5, <2>6, <2>7
<1>13. ASSUME NEW f \in Int, Holds(new, f)
       PROVE  \E i \in DOMAIN list : /\ Within(f, list[i])
                                     /\ i \in Examined(list, r) => ~Within(f, r)
  <2>1. PICK k \in DOMAIN new : Within(f, new[k])
    BY <1>13 DEF Holds
  <2>2. PICK i \in 1 .. n : /\ i = (pos[k] + 1) \div 2
                            /\ \/ pos[k] % 2 = 1 /\ pos[k] = 2 * i - 1
                               \/ pos[k] % 2 = 0 /\ pos[k] = 2 * i
    BY <1>1, <1>10, PartIndex
  <2>3. /\ list[i].start <= new[k].start /\ new[k].end <= list[i].end
        /\ i \in Examined(list, r) => new[k].end <= r.start \/ r.end <= new[k].start
    BY <1>5, <1>8, <1>10, <2>2
  <2>4. new[k].start \in Nat /\ new[k].end \in Nat
    BY <1>10
  <2>5. Within(f, list[i]) /\ (i \in Examined(list, r) => ~Within(f, r))
    BY <1>1, <1>2, <2>1, <2>3, <2>4, SMTT(30) DEF Within
  <2> QED
    BY <1>1, <2>5
<1> QED
  BY <1>3, <1>11, <1>12, <1>13 DEF Sorted

\* Contiguous free frames lie in one block.
LEMMA RunInOneBlock ==
  ASSUME NEW list, Sorted(list), NEW a \in Int, NEW e \in Int, a < e,
         \A f \in Int : a <= f /\ f < e => Holds(list, f)
  PROVE  \E j \in DOMAIN list : list[j].start <= a /\ e <= list[j].end
<1> DEFINE n == Len(list)
<1>1. /\ n \in Nat /\ DOMAIN list = 1 .. n
      /\ \A i \in 1 .. n : list[i].start \in Nat /\ list[i].end \in Nat /\ list[i].start < list[i].end
      /\ \A i, j \in 1 .. n : i < j => list[i].end < list[j].start
  BY SortedElements
<1> HIDE DEF n
<1>2. PICK j \in 1 .. n : list[j].start <= a /\ a < list[j].end
  BY <1>1 DEF Holds, Within
<1>3. ASSUME list[j].end < e PROVE FALSE
  <2>1. PICK l \in 1 .. n : list[l].start <= list[j].end /\ list[j].end < list[l].end
    <3>1. list[j].end \in Int /\ a <= list[j].end
      BY <1>1, <1>2
    <3>2. Holds(list, list[j].end)
      BY <1>3, <3>1
    <3> QED
      BY <1>1, <3>2 DEF Holds, Within
  <2>2. l < j \/ l = j \/ j < l
    BY <1>1
  <2> QED
    BY <1>1, <1>2, <2>1, <2>2
<1>4. e <= list[j].end
  BY <1>1, <1>2, <1>3
<1> QED
  BY <1>1, <1>2, <1>4

\* A range that is free as a whole is examined by reserve_block(): it lies in
\* one block, and the block before that one is not unlinked.
LEMMA FreeRangeExamined ==
  ASSUME NEW list, Sorted(list), NEW r, IsRange(r), \A f \in Int : Within(f, r) => Holds(list, f),
         NEW f \in Int, NEW i \in DOMAIN list, Within(f, list[i]), Within(f, r)
  PROVE  i \in Examined(list, r)
<1> DEFINE n == Len(list)
<1>1. /\ n \in Nat /\ DOMAIN list = 1 .. n
      /\ \A k \in 1 .. n : list[k].start \in Nat /\ list[k].end \in Nat /\ list[k].start < list[k].end
      /\ \A k, j \in 1 .. n : k < j => list[k].end < list[j].start
  BY SortedElements
<1> HIDE DEF n
<1>2. r.start \in Nat /\ r.end \in Nat /\ r.start < r.end
  BY DEF IsRange
<1>3. PICK j \in 1 .. n : list[j].start <= r.start /\ r.end <= list[j].end
  <2>1. \A g \in Int : r.start <= g /\ g < r.end => Holds(list, g)
    BY DEF Within
  <2>2. r.start \in Int /\ r.end \in Int
    BY <1>2
  <2>3. \E j \in DOMAIN list : list[j].start <= r.start /\ r.end <= list[j].end
    BY <1>2, <2>1, <2>2, RunInOneBlock
  <2> QED
    BY <1>1, <2>3
<1>4. i \in 1 .. n /\ i = j
  <2>1. i \in 1 .. n /\ (i < j \/ i = j \/ j < i)
    BY <1>1
  <2> QED
    BY <1>1, <1>2, <1>3, <2>1 DEF Within
<1> DEFINE others == {k \in 1 .. i - 1 : ~Covered(list[k], r)}
<1>5. i - 1 \in others \cup {0} /\ \A k \in others \cup {0} : k <= i - 1 /\ k \in Int
  <2>1. CASE i = 1
    BY <2>1
  <2>2. CASE i # 1
    <3>1. i - 1 \in 1 .. i - 1 /\ i - 1 \in 1 .. n /\ i - 1 < i
      BY <1>1, <1>4, <2>2
    <3>2. ~(r.start <= list[i - 1].start)
      BY <1>1, <1>2, <1>3, <1>4, <3>1, SMTT(30)
    <3> QED
      BY <1>1, <1>4, <3>1, <3>2 DEF Covered
  <2> QED
    BY <2>1, <2>2
<1>6. Max(others \cup {0}) = i - 1
  <2> HIDE DEF others
  <2> QED
    BY <1>1, <1>4, <1>5 DEF Max
<1>7. (i - 1 - Max(others \cup {0})) % 2 = 0
  BY <1>1, <1>4, <1>6
<1> QED
  BY <1>7 DEF Examined

-----------------------------------------------------------------------------
(***************************************************************************)
(* The inductive invariant.                                                *)
(***************************************************************************)
LEMMA RangeFrames ==
  /\ \A b \in Ranges : \A f : f \in FramesOf(b) <=> f \in Int /\ Within(f, b)
  /\ Blocks \subseteq Ranges
<1>1. Frames \subseteq Nat
  BY RangesAssumption DEF RangesAssumption
<1>2. Blocks \subseteq Ranges
  BY <1>1 DEF Blocks, Ranges
<1>3. ASSUME NEW b \in Ranges, NEW f PROVE f \in FramesOf(b) <=> f \in Int /\ Within(f, b)
  <2>1. b.start \in Nat /\ b.end \in Nat
    BY DEF Ranges
  <2> QED
    BY <2>1 DEF FramesOf, Within
<1> QED
  BY <1>2, <1>3

\* The frames of a list are the numbers inside its blocks.
LEMMA ListFrames ==
  ASSUME NEW list, Sorted(list)
  PROVE  \A f : f \in FramesIn(ToSet(list)) <=> f \in Int /\ Holds(list, f)
<1>1. list \in Seq(Ranges) /\ DOMAIN list = 1 .. Len(list) /\ \A i \in DOMAIN list : list[i] \in Ranges
  BY DEF Sorted
<1>2. ToSet(list) = {list[i] : i \in DOMAIN list}
  BY <1>1 DEF ToSet
<1> QED
  BY <1>1, <1>2, RangeFrames DEF FramesIn, Holds

\* A list whose frames exist is a list of Blocks.
LEMMA ListTyped ==
  ASSUME NEW list, Sorted(list), FramesIn(ToSet(list)) \subseteq Frames
  PROVE  list \in Seq(Blocks)
<1>1. Len(list) \in Nat /\ DOMAIN list = 1 .. Len(list) /\ list = [i \in 1 .. Len(list) |-> list[i]]
  BY DEF Sorted
<1>2. ASSUME NEW i \in 1 .. Len(list) PROVE list[i] \in Blocks
  <2>1. list[i] \in Ranges
    BY SortedElements
  <2>2. list[i].start \in Nat /\ list[i].end \in Nat /\ list[i].start < list[i].end
    BY <2>1 DEF Ranges
  <2>3. Within(list[i].start, list[i])
    BY <2>2 DEF Within
  <2>4. list[i].start \in Frames
    BY <1>1, <2>2, <2>3, ListFrames DEF Holds
  <2> QED
    BY <2>1, <2>2, <2>4 DEF Ranges, Blocks
<1> QED
  BY <1>1, <1>2

NothingTakenYet == stage = "scan" => grants = {} /\ withheld = {}

\* SortedAndFused speaks of neighbours; what a removal leaves side by side
\* needs any two blocks.  FramesConserved holds the image out of the free list
\* only if nothing was granted before it was reserved.
IInv ==
  /\ TypeOK
  /\ Sorted(freeList)
  /\ NothingTakenYet
  /\ FramesConserved

\* Nothing has been inserted yet.
LEMMA InvInit == Init => IInv
<1> SUFFICES ASSUME Init PROVE IInv
  OBVIOUS
<1>1. /\ memoryMap \in MemoryMaps /\ scanned = 0 /\ stage = "scan" /\ freeList = <<>>
      /\ physLimit = 0 /\ grants = {} /\ withheld = {} /\ panic = "none"
  BY DEF Init
<1>2. Len(memoryMap) \in Nat
  BY <1>1, MemoryMapsAssumption DEF MemoryMapsAssumption
<1>3. TypeOK
  BY <1>1, <1>2 DEF TypeOK
<1>4. Sorted(freeList)
  BY <1>1 DEF Sorted
<1>5. FreeFrames = {} /\ GrantedFrames = {} /\ Available = {}
  <2>1. ToSet(freeList) = {}
    BY <1>1 DEF ToSet
  <2>2. {memoryMap[i] : i \in 1 .. scanned} = {}
    BY <1>1
  <2> QED
    BY <1>1, <2>1, <2>2 DEF FreeFrames, GrantedFrames, Available, FramesIn
<1>6. FramesConserved
  BY <1>1, <1>5 DEF FramesConserved, KernelImageKept
<1> QED
  BY <1>1, <1>3, <1>4, <1>6 DEF IInv, NothingTakenYet

\* What the memory map promises.
LEMMA AvailableExists ==
  ASSUME TypeOK
  PROVE  Available \subseteq Frames /\ memoryMap \in Seq(Blocks) /\ scanned \in 0 .. Len(memoryMap)
         /\ Len(memoryMap) \in Nat /\ DOMAIN memoryMap = 1 .. Len(memoryMap)
<1>1. memoryMap \in Seq(Blocks) /\ FramesIn(ToSet(memoryMap)) \subseteq Frames
  BY MemoryMapsAssumption DEF MemoryMapsAssumption, TypeOK
<1>2. Len(memoryMap) \in Nat /\ DOMAIN memoryMap = 1 .. Len(memoryMap)
      /\ scanned \in 0 .. Len(memoryMap)
  BY <1>1 DEF TypeOK
<1>3. {memoryMap[i] : i \in 1 .. scanned} \subseteq ToSet(memoryMap)
  BY <1>2 DEF ToSet
<1>4. Available \subseteq Frames
  BY <1>1, <1>3 DEF Available, FramesIn
<1> QED
  BY <1>1, <1>2, <1>4

\* A range whose frames are not free overlaps no block of the list.
LEMMA NotFreeNoOverlap ==
  ASSUME NEW list, Sorted(list), NEW r \in Ranges, FramesIn(ToSet(list)) \cap FramesOf(r) = {}
  PROVE  \A i \in DOMAIN list : list[i].end <= r.start \/ r.end <= list[i].start
<1> SUFFICES ASSUME NEW i \in DOMAIN list, ~(list[i].end <= r.start), ~(r.end <= list[i].start)
             PROVE  FALSE
  OBVIOUS
<1>1. list[i].start \in Nat /\ list[i].end \in Nat /\ list[i].start < list[i].end
  BY SortedElements
<1>2. r.start \in Nat /\ r.end \in Nat /\ r.start < r.end
  BY DEF Ranges
<1>3. PICK f \in Int : Within(f, list[i]) /\ Within(f, r)
  <2>1. CASE list[i].start <= r.start
    BY <1>1, <1>2, <2>1 DEF Within
  <2>2. CASE r.start <= list[i].start
    BY <1>1, <1>2, <2>2 DEF Within
  <2> QED
    BY <1>1, <1>2, <2>1, <2>2
<1>4. f \in FramesIn(ToSet(list)) /\ f \in FramesOf(r)
  BY <1>3, ListFrames, RangeFrames DEF Holds
<1> QED
  BY <1>4

\* Freeing adds exactly the freed frames to the free ones.
LEMMA FreeAdds ==
  ASSUME NEW list, Sorted(list), NEW r \in Ranges, FramesIn(ToSet(list)) \cap FramesOf(r) = {}
  PROVE  /\ Sorted(free_block(list, r))
         /\ FramesIn(ToSet(free_block(list, r))) = FramesIn(ToSet(list)) \cup FramesOf(r)
<1>1. \A i \in DOMAIN list : list[i].end <= r.start \/ r.end <= list[i].start
  BY NotFreeNoOverlap
<1>2. /\ Sorted(free_block(list, r))
      /\ \A f \in Int : Holds(free_block(list, r), f) <=> Holds(list, f) \/ Within(f, r)
  BY <1>1, FreeSorted
<1>3. \A f : f \in FramesIn(ToSet(free_block(list, r))) <=> f \in Int /\ Holds(free_block(list, r), f)
  BY <1>2, ListFrames
<1>4. \A f : f \in FramesIn(ToSet(list)) <=> f \in Int /\ Holds(list, f)
  BY ListFrames
<1>5. \A f : f \in FramesOf(r) <=> f \in Int /\ Within(f, r)
  BY RangeFrames
<1> QED
  BY <1>2, <1>3, <1>4, <1>5

\* The effect of each action on the free frames: inserting a region, ...
LEMMA InsertRegionEffect ==
  ASSUME IInv, insert_region
  PROVE  \E New \in SUBSET Frames :
           /\ 0 \notin New /\ New \cap Available = {}
           /\ Sorted(freeList') /\ FreeFrames' = FreeFrames \cup New
           /\ Available' = Available \cup New
           /\ physLimit' \in Nat /\ physLimit' >= physLimit /\ \A f \in New : f < physLimit'
           /\ scanned' \in 0 .. Len(memoryMap)
           /\ stage = "scan" /\ UNCHANGED <<memoryMap, stage, grants, withheld, panic>>
<1> DEFINE region == memoryMap[scanned + 1]
           cut == WithoutFirstFrame(region)
           New == FramesOf(region) \ {0}
           F == FreeFrames
<1>1. /\ stage = "scan" /\ scanned < Len(memoryMap) /\ scanned' = scanned + 1
      /\ UNCHANGED <<memoryMap, stage, grants, withheld, panic>>
  BY DEF insert_region
<1>2. /\ memoryMap \in Seq(Blocks) /\ scanned \in 0 .. Len(memoryMap) /\ Len(memoryMap) \in Nat
      /\ DOMAIN memoryMap = 1 .. Len(memoryMap) /\ physLimit \in Nat
  BY AvailableExists DEF IInv, TypeOK
<1>3. scanned + 1 \in DOMAIN memoryMap /\ region \in Blocks /\ scanned' \in 0 .. Len(memoryMap)
  BY <1>1, <1>2
<1>4. /\ region \in Ranges /\ region.start \in Nat /\ region.end \in Nat /\ region.start < region.end
  BY <1>3, RangeFrames DEF Ranges
<1>5. New \subseteq Frames
  <2>1. memoryMap \in MemoryMaps /\ region \in ToSet(memoryMap)
    BY <1>3 DEF IInv, TypeOK, ToSet
  <2>2. FramesIn(ToSet(memoryMap)) \subseteq Frames
    BY <2>1, MemoryMapsAssumption DEF MemoryMapsAssumption
  <2> QED
    BY <2>1, <2>2 DEF FramesIn
<1>6. New \cap Available = {}
  <2> SUFFICES ASSUME NEW f \in New, f \in Available PROVE FALSE
    OBVIOUS
  <2>1. PICK i \in 1 .. scanned : f \in FramesOf(memoryMap[i])
    BY DEF Available, FramesIn
  <2>2. i # scanned + 1 /\ i \in DOMAIN memoryMap
    BY <1>2, <1>3
  <2>3. FramesOf(memoryMap[i]) \cap FramesOf(memoryMap[scanned + 1]) = {}
    BY <1>3, <2>2, MemoryMapsAssumption DEF MemoryMapsAssumption, IInv, TypeOK
  <2> QED
    BY <2>1, <2>3
<1>7. Available' = Available \cup New
  <2> HIDE DEF region
  <2>1. 1 .. scanned' = (1 .. scanned) \cup {scanned + 1}
    BY <1>1, <1>2
  <2>2. {memoryMap'[i] : i \in 1 .. scanned'} = {memoryMap[i] : i \in 1 .. scanned} \cup {region}
    BY <1>1, <2>1 DEF region
  <2> QED
    BY <2>2 DEF Available, FramesIn
<1>8. F \cap New = {} /\ Sorted(freeList)
  BY <1>6 DEF IInv, FramesConserved
<1>9. CASE region.start = 0 /\ region.end <= 1
  <2>1. freeList' = freeList /\ physLimit' = physLimit
    BY <1>9 DEF insert_region
  <2>2. New = {}
    BY <1>4, <1>9 DEF FramesOf
  <2> HIDE DEF New, region
  <2>3. FreeFrames' = FreeFrames \cup New /\ Sorted(freeList')
    BY <1>8, <2>1, <2>2 DEF FreeFrames
  <2>4. physLimit' \in Nat /\ physLimit' >= physLimit
    BY <1>2, <2>1
  <2>5. 0 \notin New /\ \A f \in New : f < physLimit'
    BY <2>2
  <2> QED
    BY <1>1, <1>3, <1>5, <1>6, <1>7, <2>3, <2>4, <2>5
<1>10. CASE ~(region.start = 0 /\ region.end <= 1)
  <2>1. physLimit' = RaisedLimit(cut.end) /\ freeList' = free_block(freeList, cut)
    BY <1>10 DEF insert_region
  <2>2. cut \in Ranges /\ cut.end = region.end /\ cut.start = (IF region.start = 0 THEN 1 ELSE region.start)
    BY <1>4, <1>10, BlockIsRange DEF WithoutFirstFrame
  <2>3. FramesOf(cut) = New
    BY <1>4, <1>10, <2>2 DEF FramesOf
  <2>4. physLimit' \in Nat /\ physLimit' >= physLimit /\ region.end <= physLimit'
    BY <1>2, <1>4, <2>1, <2>2 DEF RaisedLimit
  <2>5. \A f \in New : f < physLimit'
    BY <1>4, <2>4 DEF FramesOf
  <2>0. 0 \notin New
    OBVIOUS
  <2> HIDE DEF New, region, cut
  <2>6. Sorted(freeList') /\ FramesIn(ToSet(freeList')) = F \cup New
    BY <1>8, <2>1, <2>2, <2>3, FreeAdds DEF FreeFrames
  <2>7. FreeFrames' = FreeFrames \cup New
    BY <2>6 DEF FreeFrames
  <2> QED
    BY <1>1, <1>3, <1>5, <1>6, <1>7, <2>0, <2>4, <2>5, <2>6, <2>7
<1> QED
  BY <1>9, <1>10

\* ... reserving the kernel image or the ramdisk, ...
LEMMA ReserveEffect ==
  ASSUME IInv, NEW r, IsRange(r), NEW from, NEW to, reserve(r, from, to)
  PROVE  /\ Sorted(freeList') /\ FreeFrames' \subseteq FreeFrames
         /\ withheld' = withheld \cup (FreeFrames \ FreeFrames')
         /\ panic' = "none" /\ FramesOf(r) \subseteq FreeFrames => FramesOf(r) \cap FreeFrames' = {}
         /\ panic' \in {"none", "reserve"} /\ panic = "none" /\ stage = from /\ stage' = to
         /\ UNCHANGED <<memoryMap, scanned, physLimit, grants>>
<1>1. /\ panic = "none" /\ stage = from /\ stage' = to
      /\ UNCHANGED <<memoryMap, scanned, physLimit, grants>>
  BY DEF reserve
<1>2. Sorted(freeList)
  BY DEF IInv
<1>3. CASE ReservePanics(freeList, r)
  <2>1. panic' = "reserve" /\ freeList' = freeList /\ withheld' = withheld
    BY <1>3 DEF reserve
  <2>2. FreeFrames' = FreeFrames
    BY <2>1 DEF FreeFrames
  <2> QED
    BY <1>1, <1>2, <2>1, <2>2
<1>4. CASE ~ReservePanics(freeList, r)
  <2>1. /\ freeList' = reserve_block(freeList, r) /\ panic' = panic
        /\ withheld' = withheld \cup (FreeFrames \ FramesIn(ToSet(freeList')))
    BY <1>4 DEF reserve
  <2>2. FreeFrames' = FramesIn(ToSet(freeList')) /\ FreeFrames = FramesIn(ToSet(freeList))
    BY DEF FreeFrames
  <2>3. /\ Sorted(freeList')
        /\ \A f \in Int : Holds(freeList', f) =>
             \E i \in DOMAIN freeList : /\ Within(f, freeList[i])
                                        /\ i \in Examined(freeList, r) => ~Within(f, r)
    BY <1>2, <2>1, ReserveSorted
  <2>4. \A f : f \in FreeFrames' <=> f \in Int /\ Holds(freeList', f)
    BY <2>2, <2>3, ListFrames
  <2>5. \A f : f \in FreeFrames <=> f \in Int /\ Holds(freeList, f)
    BY <1>2, <2>2, ListFrames
  <2>6. FreeFrames' \subseteq FreeFrames
    BY <2>3, <2>4, <2>5 DEF Holds
  <2>7. ASSUME FramesOf(r) \subseteq FreeFrames PROVE FramesOf(r) \cap FreeFrames' = {}
    <3>1. \A f : f \in FramesOf(r) <=> f \in Int /\ Within(f, r)
      BY DEF IsRange, FramesOf, Within
    <3>2. \A f \in Int : Within(f, r) => Holds(freeList, f)
      BY <2>5, <2>7, <3>1
    <3>3. \A f \in Int, i \in DOMAIN freeList :
            Within(f, freeList[i]) /\ Within(f, r) => i \in Examined(freeList, r)
      BY <1>2, <3>2, FreeRangeExamined
    <3> QED
      BY <2>3, <2>4, <3>1, <3>3
  <2> QED
    BY <1>1, <2>1, <2>2, <2>3, <2>6, <2>7
<1> QED
  BY <1>3, <1>4

\* ... granting frames, ...
LEMMA AllocEffect ==
  ASSUME IInv, NEW c \in 1 .. MaxRequest, alloc(c)
  PROVE  /\ UNCHANGED <<memoryMap, scanned, stage, physLimit, withheld>>
         /\ panic = "none" /\ stage \in {"heap", "initrd"}
         /\ \/ panic' = "oom" /\ UNCHANGED <<freeList, grants>> /\ Fitting(freeList, c) = {}
            \/ \E first \in Frames :
                 /\ Fitting(freeList, c) # {} /\ first = freeList[Min(Fitting(freeList, c))].start
                 /\ panic' = "none" /\ Sorted(freeList')
                 /\ grants' = grants \cup {Block(first, first + c)}
                 /\ FramesOf(Block(first, first + c)) = first .. first + c - 1
                 /\ first .. first + c - 1 \subseteq FreeFrames
                 /\ FreeFrames' = FreeFrames \ (first .. first + c - 1)
<1>1. /\ UNCHANGED <<memoryMap, scanned, stage, physLimit, withheld>>
      /\ panic = "none" /\ stage \in {"heap", "initrd"}
  BY DEF alloc, Running
<1>2. CASE Fitting(freeList, c) = {}
  BY <1>1, <1>2 DEF alloc
<1>3. CASE Fitting(freeList, c) # {}
  <2> DEFINE m == Min(Fitting(freeList, c))
             first == freeList[m].start
  <2>1. /\ freeList' = alloc_block(freeList, c) /\ panic' = panic
        /\ grants' = grants \cup {Block(first, first + c)}
    BY <1>3 DEF alloc
  <2>2. Sorted(freeList) /\ freeList \in Seq(Blocks) /\ c \in Nat \ {0}
    BY RangesAssumption DEF IInv, TypeOK, RangesAssumption
  <2>3. /\ m \in DOMAIN freeList /\ freeList[m].start + c <= freeList[m].end
        /\ Sorted(freeList')
        /\ \A f \in Int : Holds(freeList', f) <=>
             Holds(freeList, f) /\ ~(first <= f /\ f < first + c)
    BY <1>3, <2>1, <2>2, AllocSorted
  <2>4. FreeFrames' = FramesIn(ToSet(freeList')) /\ FreeFrames = FramesIn(ToSet(freeList))
    BY DEF FreeFrames
  <2> HIDE DEF m
  <2>5. freeList[m] \in Blocks
    BY <2>2, <2>3
  <2>6. first \in Frames /\ first \in Nat /\ freeList[m].end \in Nat
    BY <2>5, RangesAssumption DEF Blocks, RangesAssumption
  <2>7. \A f : f \in FreeFrames' <=> f \in Int /\ Holds(freeList', f)
    BY <2>3, <2>4, ListFrames
  <2>8. \A f : f \in FreeFrames <=> f \in Int /\ Holds(freeList, f)
    BY <2>2, <2>4, ListFrames
  <2>9. \A f : f \in first .. first + c - 1 <=> f \in Int /\ first <= f /\ f < first + c
    BY <2>2, <2>6
  <2>10. first .. first + c - 1 \subseteq FreeFrames
    <3>1. \A f \in Int : first <= f /\ f < first + c => Within(f, freeList[m])
      BY <2>2, <2>3, <2>6 DEF Within
    <3> QED
      BY <2>3, <2>8, <2>9, <3>1 DEF Holds
  <2>11. FreeFrames' = FreeFrames \ (first .. first + c - 1)
    BY <2>3, <2>7, <2>8, <2>9
  <2>12. FramesOf(Block(first, first + c)) = first .. first + c - 1
    <3>1. Block(first, first + c).start = first /\ Block(first, first + c).end = first + c
      BY <2>2, <2>6, BlockIsRange
    <3> HIDE DEF first
    <3>2. PICK b : b = Block(first, first + c)
      OBVIOUS
    <3>3. FramesOf(b) = first .. first + c - 1
      BY <2>2, <2>6, <3>1, <3>2 DEF FramesOf
    <3> QED
      BY <3>2, <3>3
  <2> QED
    BY <1>1, <1>3, <2>1, <2>3, <2>6, <2>10, <2>11, <2>12 DEF m
<1> QED
  BY <1>2, <1>3

\* A grant's frames exist, are not free, and belong to no other grant.
LEMMA GrantFacts ==
  ASSUME IInv
  PROVE  /\ \A g \in grants : /\ g \in Ranges /\ g \in Blocks
                              /\ g.start \in Nat /\ g.end \in Nat /\ g.start < g.end
                              /\ FramesOf(g) \subseteq GrantedFrames
         /\ \A f : f \in GrantedFrames <=> \E g \in grants : f \in FramesOf(g)
         /\ \A g, h \in grants : g # h => FramesOf(g) \cap FramesOf(h) = {}
         /\ GrantedFrames \cap FreeFrames = {} /\ GrantedFrames \subseteq Frames
<1>1. \A f : f \in GrantedFrames <=> \E g \in grants : f \in FramesOf(g)
  BY DEF GrantedFrames, FramesIn
<1>2. /\ grants \subseteq Blocks /\ \A g, h \in grants : g # h => FramesOf(g) \cap FramesOf(h) = {}
      /\ GrantedFrames \cap FreeFrames = {} /\ GrantedFrames \subseteq Available
  BY DEF IInv, TypeOK, FramesConserved
<1>3. Available \subseteq Frames
  BY AvailableExists DEF IInv
<1>4. \A g \in grants : /\ g \in Ranges /\ g.start \in Nat /\ g.end \in Nat /\ g.start < g.end
  BY <1>2, RangeFrames DEF Ranges
<1> QED
  BY <1>1, <1>2, <1>3, <1>4

\* ... taking a whole grant back, ...
LEMMA FreeGrantEffect ==
  ASSUME IInv, NEW r \in grants, free_grant(r)
  PROVE  /\ UNCHANGED <<memoryMap, scanned, stage, physLimit, withheld, panic>>
         /\ stage # "scan" /\ Sorted(freeList') /\ grants' = grants \ {r}
         /\ FramesOf(r) \subseteq GrantedFrames
         /\ FreeFrames' = FreeFrames \cup FramesOf(r)
         /\ GrantedFrames' = GrantedFrames \ FramesOf(r)
<1>1. /\ UNCHANGED <<memoryMap, scanned, stage, physLimit, withheld, panic>>
      /\ freeList' = free_block(freeList, r) /\ grants' = grants \ {r} /\ stage # "scan"
  BY DEF free_grant, Running
<1>2. /\ r \in Ranges /\ FramesOf(r) \subseteq GrantedFrames /\ FramesOf(r) \cap FreeFrames = {}
      /\ \A f : f \in GrantedFrames <=> \E g \in grants : f \in FramesOf(g)
      /\ \A g, h \in grants : g # h => FramesOf(g) \cap FramesOf(h) = {}
  BY GrantFacts
<1>3. Sorted(freeList') /\ FramesIn(ToSet(freeList')) = FreeFrames \cup FramesOf(r)
  BY <1>1, <1>2, FreeAdds DEF IInv, FreeFrames
<1>4. FreeFrames' = FreeFrames \cup FramesOf(r)
  BY <1>3 DEF FreeFrames
<1>5. \A f : f \in GrantedFrames' <=> \E g \in grants' : f \in FramesOf(g)
  BY DEF GrantedFrames, FramesIn
<1>6. GrantedFrames' = GrantedFrames \ FramesOf(r)
  BY <1>1, <1>2, <1>5
<1> QED
  BY <1>1, <1>2, <1>3, <1>4, <1>6

\* ... and one frame of it.
LEMMA FreeFrameEffect ==
  ASSUME IInv, NEW r \in grants, NEW f \in FramesOf(r), free_frame(r, f)
  PROVE  /\ UNCHANGED <<memoryMap, scanned, stage, physLimit, withheld, panic>>
         /\ stage # "scan" /\ Sorted(freeList')
         /\ grants' \subseteq Blocks
         /\ \A g, h \in grants' : g # h => FramesOf(g) \cap FramesOf(h) = {}
         /\ f \in GrantedFrames
         /\ FreeFrames' = FreeFrames \cup {f}
         /\ GrantedFrames' = GrantedFrames \ {f}
<1> DEFINE one == Block(f, f + 1)
           low == Block(r.start, f)
           high == Block(f + 1, r.end)
           pieces == Split(r, f)
<1>1. /\ UNCHANGED <<memoryMap, scanned, stage, physLimit, withheld, panic>>
      /\ freeList' = free_block(freeList, one) /\ grants' = (grants \ {r}) \cup pieces
      /\ stage # "scan"
  BY DEF free_frame, Running
<1>2. /\ r \in Ranges /\ FramesOf(r) \subseteq GrantedFrames /\ FramesOf(r) \cap FreeFrames = {}
      /\ r.start \in Nat /\ r.end \in Nat /\ r.start < r.end /\ r \in Blocks
      /\ \A x : x \in GrantedFrames <=> \E g \in grants : x \in FramesOf(g)
      /\ \A g, h \in grants : g # h => FramesOf(g) \cap FramesOf(h) = {}
      /\ GrantedFrames \subseteq Frames
  BY GrantFacts
<1>3. f \in Nat /\ r.start <= f /\ f < r.end
  BY <1>2 DEF FramesOf
<1>4. /\ one \in Ranges /\ one.start = f /\ one.end = f + 1
      /\ low = [start |-> r.start, end |-> f] /\ high = [start |-> f + 1, end |-> r.end]
      /\ pieces = {q \in {low, high} : q.start < q.end}
  BY <1>3, BlockIsRange DEF Block, Split
<1> HIDE DEF one, low, high, pieces
<1>5. FramesOf(one) = {f}
  BY <1>3, <1>4 DEF FramesOf
<1>6. FramesIn(ToSet(freeList)) \cap FramesOf(one) = {}
  BY <1>2, <1>5 DEF FreeFrames
<1>7. Sorted(freeList') /\ FreeFrames' = FreeFrames \cup {f}
  <2>1. Sorted(freeList') /\ FramesIn(ToSet(freeList')) = FramesIn(ToSet(freeList)) \cup {f}
    BY <1>1, <1>4, <1>5, <1>6, FreeAdds DEF IInv
  <2> QED
    BY <2>1 DEF FreeFrames
<1>8. ASSUME NEW q \in pieces
      PROVE  q \in Blocks /\ FramesOf(q) \subseteq FramesOf(r) \ {f}
  <2>1. CASE q = low
    <3>1. q.start = r.start /\ q.end = f /\ r.start < f
      BY <1>4, <1>8, <2>1
    <3>2. q \in Blocks
      BY <1>2, <1>3, <1>4, <2>1, <3>1 DEF Blocks
    <3> QED
      BY <1>2, <1>3, <3>1, <3>2 DEF FramesOf
  <2>2. CASE q = high
    <3>1. q.start = f + 1 /\ q.end = r.end /\ f + 1 < r.end
      BY <1>4, <1>8, <2>2
    <3>2. f + 1 \in FramesOf(r)
      BY <1>2, <1>3, <3>1 DEF FramesOf
    <3>3. q \in Blocks
      BY <1>2, <1>3, <1>4, <2>2, <3>1, <3>2 DEF Blocks
    <3> QED
      BY <1>2, <1>3, <3>1, <3>3 DEF FramesOf
  <2> QED
    BY <1>4, <1>8, <2>1, <2>2
<1>9. ASSUME NEW x \in FramesOf(r), x # f PROVE \E q \in pieces : x \in FramesOf(q)
  <2>1. x \in Nat /\ r.start <= x /\ x < r.end
    BY <1>2 DEF FramesOf
  <2>2. CASE x < f
    <3>1. low.start = r.start /\ low.end = f
      BY <1>4
    <3>2. low \in pieces
      BY <1>2, <1>3, <1>4, <2>1, <2>2, <3>1
    <3>3. x \in FramesOf(low)
      BY <1>2, <1>3, <2>1, <2>2, <3>1 DEF FramesOf
    <3> QED
      BY <3>2, <3>3
  <2>3. CASE x > f
    <3>1. high.start = f + 1 /\ high.end = r.end
      BY <1>4
    <3>2. high \in pieces
      BY <1>2, <1>3, <1>4, <2>1, <2>3, <3>1
    <3>3. x \in FramesOf(high)
      BY <1>2, <1>3, <2>1, <2>3, <3>1 DEF FramesOf
    <3> QED
      BY <3>2, <3>3
  <2> QED
    BY <1>3, <1>9, <2>1, <2>2, <2>3
<1>10. \A g, h \in pieces : g # h => FramesOf(g) \cap FramesOf(h) = {}
  <2>1. FramesOf(low) \cap FramesOf(high) = {}
    <3>1. low.start = r.start /\ low.end = f /\ high.start = f + 1 /\ high.end = r.end
      BY <1>4
    <3> QED
      BY <1>2, <1>3, <3>1 DEF FramesOf
  <2> QED
    BY <1>4, <2>1
<1>11. \A x : x \in GrantedFrames' <=> \E g \in grants' : x \in FramesOf(g)
  BY DEF GrantedFrames, FramesIn
<1>12. GrantedFrames' = GrantedFrames \ {f}
  BY <1>1, <1>2, <1>8, <1>9, <1>11
<1>13. \A g, h \in grants' : g # h => FramesOf(g) \cap FramesOf(h) = {}
  BY <1>1, <1>2, <1>8, <1>10
<1>14. grants' \subseteq Blocks
  BY <1>1, <1>8, GrantFacts
<1> QED
  BY <1>1, <1>2, <1>7, <1>12, <1>13, <1>14

\* What is left to show of a step once its effect on the frames is known.
LEMMA InvFromEffect ==
  ASSUME IInv, memoryMap' = memoryMap, scanned' \in 0 .. Len(memoryMap),
         stage' \in {"scan", "heap", "initrd"}, physLimit' \in Nat, grants' \subseteq Blocks,
         panic' \in {"none", "oom", "reserve"}, Sorted(freeList'), Available' \subseteq Frames,
         NothingTakenYet', FramesConserved'
  PROVE  IInv'
<1>1. FreeFrames' \subseteq Frames /\ withheld' \subseteq Frames
  BY DEF FramesConserved
<1>2. FramesIn(ToSet(freeList')) \subseteq Frames
  BY <1>1 DEF FreeFrames
<1>3. freeList' \in Seq(Blocks)
  BY <1>2, ListTyped
<1>4. TypeOK'
  BY <1>1, <1>3 DEF IInv, TypeOK
<1> QED
  BY <1>4 DEF IInv, Sorted

\* Whoever holds them, the same frames are available as before.
LEMMA SameAvailable ==
  ASSUME memoryMap' = memoryMap, scanned' = scanned PROVE Available' = Available
BY DEF Available

\* Each action keeps the invariant: inserting a region, ...
LEMMA InsertRegionKeepsInv == IInv /\ insert_region => IInv'
<1> SUFFICES ASSUME IInv, insert_region PROVE IInv'
  OBVIOUS
<1>1. PICK New \in SUBSET Frames :
        /\ New \cap Available = {} /\ Sorted(freeList') /\ FreeFrames' = FreeFrames \cup New
        /\ Available' = Available \cup New
        /\ physLimit' \in Nat /\ physLimit' >= physLimit /\ \A f \in New : f < physLimit'
        /\ scanned' \in 0 .. Len(memoryMap)
        /\ stage = "scan" /\ UNCHANGED <<memoryMap, stage, grants, withheld, panic>>
  BY InsertRegionEffect
<1>2. GrantedFrames' = GrantedFrames
  BY <1>1 DEF GrantedFrames
<1>3. Available \subseteq Frames /\ FramesConserved /\ NothingTakenYet /\ TypeOK
  BY AvailableExists DEF IInv
<1>4. \A f \in Available' : f < physLimit'
  <2>1. Available \subseteq Nat /\ physLimit \in Nat /\ \A f \in Available : f < physLimit
    BY <1>3, RangesAssumption DEF RangesAssumption, FramesConserved, TypeOK
  <2> QED
    BY <1>1, <2>1
<1>5. FramesConserved'
  BY <1>1, <1>2, <1>3, <1>4 DEF FramesConserved, KernelImageKept
<1> QED
  BY <1>1, <1>3, <1>5, InvFromEffect DEF NothingTakenYet, TypeOK

\* ... reserving, ...
LEMMA ReserveKeepsInv == IInv /\ (reserve_kernel_image \/ reserve_initrd) => IInv'
<1> SUFFICES ASSUME IInv, reserve_kernel_image \/ reserve_initrd PROVE IInv'
  OBVIOUS
<1>1. /\ Available \subseteq Frames /\ FramesConserved /\ NothingTakenYet /\ TypeOK
      /\ memoryMap \in Seq(Blocks) /\ DOMAIN memoryMap = 1 .. Len(memoryMap)
  BY AvailableExists DEF IInv
<1>2. PICK r, from, to :
        /\ IsRange(r) /\ reserve(r, from, to)
        /\ \/ /\ r = KernelImage /\ from = "scan" /\ to = "heap" /\ scanned = Len(memoryMap)
           \/ from = "heap" /\ to = "initrd"
  BY RangesAssumption DEF reserve_kernel_image, reserve_initrd, RangesAssumption
<1>3. /\ Sorted(freeList') /\ FreeFrames' \subseteq FreeFrames
      /\ withheld' = withheld \cup (FreeFrames \ FreeFrames')
      /\ panic' = "none" /\ FramesOf(r) \subseteq FreeFrames => FramesOf(r) \cap FreeFrames' = {}
      /\ panic' \in {"none", "reserve"} /\ panic = "none" /\ stage = from /\ stage' = to
      /\ UNCHANGED <<memoryMap, scanned, physLimit, grants>>
  BY <1>2, ReserveEffect
<1>4. Available' = Available /\ GrantedFrames' = GrantedFrames
  BY <1>3 DEF Available, GrantedFrames
<1>5. KernelImageKept'
  <2>1. CASE r = KernelImage /\ from = "scan" /\ scanned = Len(memoryMap)
    <3>1. grants = {} /\ withheld = {} /\ GrantedFrames = {}
      BY <1>1, <1>3, <2>1 DEF NothingTakenYet, GrantedFrames, FramesIn
    <3>2. Available = FreeFrames
      BY <1>1, <3>1 DEF FramesConserved
    <3>3. {memoryMap[i] : i \in 1 .. scanned} = ToSet(memoryMap)
      BY <1>1, <2>1 DEF ToSet
    <3>4. FramesOf(KernelImage) \subseteq Available
      BY <1>1, <3>3, MemoryMapsAssumption DEF MemoryMapsAssumption, Available, TypeOK
    <3> QED
      BY <1>3, <1>4, <2>1, <3>1, <3>2, <3>4 DEF KernelImageKept
  <2>2. CASE from = "heap"
    BY <1>1, <1>3, <1>4, <2>2 DEF KernelImageKept, FramesConserved
  <2> QED
    BY <1>2, <2>1, <2>2
<1>6. FramesConserved'
  BY <1>1, <1>3, <1>4, <1>5 DEF FramesConserved
<1>7. stage' \in {"heap", "initrd"}
  BY <1>2, <1>3
<1>8. /\ memoryMap' = memoryMap /\ scanned' \in 0 .. Len(memoryMap) /\ physLimit' \in Nat
      /\ grants' \subseteq Blocks /\ Available' \subseteq Frames /\ NothingTakenYet'
      /\ stage' \in {"scan", "heap", "initrd"} /\ panic' \in {"none", "oom", "reserve"}
  BY <1>1, <1>3, <1>4, <1>7 DEF TypeOK, NothingTakenYet
<1> QED
  BY <1>3, <1>6, <1>8, InvFromEffect

\* ... granting, ...
LEMMA AllocKeepsInv == \A c \in 1 .. MaxRequest : IInv /\ alloc(c) => IInv'
<1> SUFFICES ASSUME NEW c \in 1 .. MaxRequest, IInv, alloc(c) PROVE IInv'
  OBVIOUS
<1>1. Available \subseteq Frames /\ FramesConserved /\ NothingTakenYet /\ TypeOK /\ Sorted(freeList)
  BY AvailableExists DEF IInv
<1>2. /\ UNCHANGED <<memoryMap, scanned, stage, physLimit, withheld>>
      /\ panic = "none" /\ stage \in {"heap", "initrd"}
      /\ \/ panic' = "oom" /\ UNCHANGED <<freeList, grants>>
         \/ \E first \in Frames :
              /\ panic' = "none" /\ Sorted(freeList')
              /\ grants' = grants \cup {Block(first, first + c)}
              /\ FramesOf(Block(first, first + c)) = first .. first + c - 1
              /\ first .. first + c - 1 \subseteq FreeFrames
              /\ FreeFrames' = FreeFrames \ (first .. first + c - 1)
  BY AllocEffect
<1>3. Available' = Available
  BY <1>2, SameAvailable
<1>4. NothingTakenYet' /\ physLimit' \in Nat /\ scanned' \in 0 .. Len(memoryMap)
      /\ panic' \in {"none", "oom", "reserve"} /\ stage' \in {"scan", "heap", "initrd"}
  BY <1>1, <1>2 DEF NothingTakenYet, TypeOK
<1>5. CASE panic' = "oom" /\ UNCHANGED <<freeList, grants>>
  <2>1. FreeFrames' = FreeFrames /\ GrantedFrames' = GrantedFrames
    BY <1>5 DEF FreeFrames, GrantedFrames
  <2>2. FramesConserved'
    BY <1>1, <1>2, <1>3, <1>5, <2>1 DEF FramesConserved, KernelImageKept
  <2> QED
    BY <1>1, <1>2, <1>3, <1>4, <1>5, <2>2, InvFromEffect DEF TypeOK
<1>6. ASSUME NEW first \in Frames, Sorted(freeList'),
             grants' = grants \cup {Block(first, first + c)},
             FramesOf(Block(first, first + c)) = first .. first + c - 1,
             first .. first + c - 1 \subseteq FreeFrames,
             FreeFrames' = FreeFrames \ (first .. first + c - 1)
      PROVE  IInv'
  <2> DEFINE X == first .. first + c - 1
             new == Block(first, first + c)
  <2>1. new \in Blocks
    <3>1. first \in Nat /\ c \in Nat \ {0}
      BY RangesAssumption DEF RangesAssumption
    <3> QED
      BY <3>1 DEF Blocks, Block
  <2>2. FramesOf(new) = X /\ X \subseteq FreeFrames /\ FreeFrames' = FreeFrames \ X
        /\ grants' = grants \cup {new}
    BY <1>6
  <2> HIDE DEF X, new
  <2>3. \A f : f \in GrantedFrames <=> \E g \in grants : f \in FramesOf(g)
    BY DEF GrantedFrames, FramesIn
  <2>4. GrantedFrames' = GrantedFrames \cup X
    BY <2>2 DEF GrantedFrames, FramesIn
  <2>5. \A g, h \in grants' : g # h => FramesOf(g) \cap FramesOf(h) = {}
    BY <1>1, <2>2, <2>3 DEF FramesConserved
  <2>6. FramesConserved'
    BY <1>1, <1>2, <1>3, <2>2, <2>4, <2>5 DEF FramesConserved, KernelImageKept
  <2>7. grants' \subseteq Blocks
    BY <1>1, <2>1, <2>2 DEF TypeOK
  <2> QED
    BY <1>1, <1>2, <1>3, <1>4, <1>6, <2>6, <2>7, InvFromEffect
<1> QED
  BY <1>2, <1>5, <1>6

\* ... taking back a grant, ...
LEMMA FreeGrantKeepsInv == \A r \in grants : IInv /\ free_grant(r) => IInv'
<1> SUFFICES ASSUME NEW r \in grants, IInv, free_grant(r) PROVE IInv'
  OBVIOUS
<1>1. Available \subseteq Frames /\ FramesConserved /\ TypeOK
  BY AvailableExists DEF IInv
<1>2. /\ UNCHANGED <<memoryMap, scanned, stage, physLimit, withheld, panic>>
      /\ stage # "scan" /\ Sorted(freeList') /\ grants' = grants \ {r}
      /\ FramesOf(r) \subseteq GrantedFrames
      /\ FreeFrames' = FreeFrames \cup FramesOf(r)
      /\ GrantedFrames' = GrantedFrames \ FramesOf(r)
  BY FreeGrantEffect
<1>3. Available' = Available
  BY <1>2, SameAvailable
<1>4. FramesConserved'
  BY <1>1, <1>2, <1>3 DEF FramesConserved, KernelImageKept
<1>5. /\ scanned' \in 0 .. Len(memoryMap) /\ stage' \in {"scan", "heap", "initrd"}
      /\ physLimit' \in Nat /\ grants' \subseteq Blocks /\ panic' \in {"none", "oom", "reserve"}
      /\ NothingTakenYet'
  BY <1>1, <1>2 DEF TypeOK, NothingTakenYet
<1> QED
  BY <1>1, <1>2, <1>3, <1>4, <1>5, InvFromEffect

\* ... taking back one frame, ...
LEMMA FreeFrameKeepsInv == \A r \in grants : \A f \in FramesOf(r) : IInv /\ free_frame(r, f) => IInv'
<1> SUFFICES ASSUME NEW r \in grants, NEW f \in FramesOf(r), IInv, free_frame(r, f) PROVE IInv'
  OBVIOUS
<1>1. Available \subseteq Frames /\ FramesConserved /\ TypeOK
  BY AvailableExists DEF IInv
<1>2. /\ UNCHANGED <<memoryMap, scanned, stage, physLimit, withheld, panic>>
      /\ stage # "scan" /\ Sorted(freeList')
      /\ grants' \subseteq Blocks
      /\ \A g, h \in grants' : g # h => FramesOf(g) \cap FramesOf(h) = {}
      /\ f \in GrantedFrames
      /\ FreeFrames' = FreeFrames \cup {f}
      /\ GrantedFrames' = GrantedFrames \ {f}
  BY FreeFrameEffect
<1>3. Available' = Available
  BY <1>2, SameAvailable
<1>4. FramesConserved'
  BY <1>1, <1>2, <1>3 DEF FramesConserved, KernelImageKept
<1>5. /\ scanned' \in 0 .. Len(memoryMap) /\ stage' \in {"scan", "heap", "initrd"}
      /\ physLimit' \in Nat /\ panic' \in {"none", "oom", "reserve"} /\ NothingTakenYet'
  BY <1>1, <1>2 DEF TypeOK, NothingTakenYet
<1> QED
  BY <1>1, <1>2, <1>3, <1>4, <1>5, InvFromEffect

\* ... and a step that changes nothing.
LEMMA StutterKeepsInv == IInv /\ UNCHANGED vars => IInv'
BY DEF IInv, TypeOK, Sorted, NothingTakenYet, FramesConserved, Available, FreeFrames, GrantedFrames,
       KernelImageKept, vars

\* Every step, by the lemmas above.
LEMMA NextKeepsInv == IInv /\ [Next]_vars => IInv'
BY InsertRegionKeepsInv, ReserveKeepsInv, AllocKeepsInv, FreeGrantKeepsInv, FreeFrameKeepsInv,
   StutterKeepsInv DEF Next

(***************************************************************************)
(* IInv holds in every reachable state, whatever the memory map, the       *)
(* ranges reserved and the requests: the list operations of physical.rs    *)
(* keep the list sorted and fused because boot reserves and allocates only *)
(* after the map was scanned, and because what is freed was granted.       *)
(***************************************************************************)
THEOREM Inductive == Spec => []IInv
BY InvInit, NextKeepsInv, PTL DEF Spec

(***************************************************************************)
(* SortedAndFused, which free() promises (physical.rs:182).                *)
(***************************************************************************)
THEOREM ListStaysFused == Spec => []SortedAndFused
<1>1. IInv => SortedAndFused
  <2> SUFFICES ASSUME IInv PROVE SortedAndFused
    OBVIOUS
  <2>1. TypeOK /\ Sorted(freeList)
    BY DEF IInv
  <2>2. Len(freeList) \in Nat /\ DOMAIN freeList = 1 .. Len(freeList)
    BY <2>1, SortedElements
  <2>3. \A i, j \in DOMAIN freeList : i < j => freeList[i].end < freeList[j].start
    BY <2>1 DEF Sorted
  <2> QED
    BY <2>1, <2>2, <2>3 DEF SortedAndFused
<1> QED
  BY <1>1, Inductive, PTL

(***************************************************************************)
(* FramesConserved: alloc(), free() and reserve() lose no frame, hand none *)
(* out twice and leave the kernel image alone (physical.rs:39-52).         *)
(***************************************************************************)
THEOREM NoFrameLost == Spec => []FramesConserved
<1>1. IInv => FramesConserved
  BY DEF IInv
<1> QED
  BY <1>1, Inductive, PTL

\* First fit on a sorted and fused list is the lowest free run: a run lies in
\* one block, which then fits, and the first block that fits starts lowest.
LEMMA FirstFitIsLowest ==
  ASSUME IInv, NEW c \in Nat \ {0}
  PROVE  /\ Fitting(freeList, c) = {} => FreeRuns(c) = {}
         /\ Fitting(freeList, c) # {} =>
              /\ FreeRuns(c) # {}
              /\ Min(FreeRuns(c)) = freeList[Min(Fitting(freeList, c))].start
<1> DEFINE n == Len(freeList)
           m == Min(Fitting(freeList, c))
           low == Min(FreeRuns(c))
<1>1. Sorted(freeList)
  BY DEF IInv
<1>2. /\ n \in Nat /\ DOMAIN freeList = 1 .. n
      /\ \A i \in 1 .. n : /\ freeList[i].start \in Nat /\ freeList[i].end \in Nat
                           /\ freeList[i].start < freeList[i].end
      /\ \A i, j \in 1 .. n : i < j => freeList[i].end < freeList[j].start
  BY <1>1, SortedElements DEF Sorted
<1>3. \A f : f \in FreeFrames <=> f \in Int /\ Holds(freeList, f)
  BY <1>1, ListFrames DEF FreeFrames
<1>4. \A f \in FreeRuns(c) : f \in Nat /\ \A h \in Int : f <= h /\ h < f + c => Holds(freeList, h)
  <2> SUFFICES ASSUME NEW f \in FreeRuns(c)
               PROVE  f \in Nat /\ \A h \in Int : f <= h /\ h < f + c => Holds(freeList, h)
    OBVIOUS
  <2>1. f \in FreeFrames /\ f .. (f + c - 1) \subseteq FreeFrames
    BY DEF FreeRuns
  <2>2. f \in Int /\ Holds(freeList, f)
    BY <1>3, <2>1
  <2>3. f \in Nat
    BY <1>2, <2>2 DEF Holds, Within
  <2>4. \A h \in Int : f <= h /\ h < f + c => h \in f .. (f + c - 1)
    BY <2>3
  <2> QED
    BY <1>3, <2>1, <2>3, <2>4
<1>5. ASSUME NEW f \in FreeRuns(c)
      PROVE  \E j \in Fitting(freeList, c) : freeList[j].start <= f
  <2>1. f \in Int /\ f + c \in Int /\ f < f + c
    BY <1>4
  <2>2. \A h \in Int : f <= h /\ h < f + c => Holds(freeList, h)
    BY <1>4
  <2>3. PICK j \in DOMAIN freeList : freeList[j].start <= f /\ f + c <= freeList[j].end
    BY <1>1, <2>1, <2>2, RunInOneBlock
  <2>4. freeList[j].end - freeList[j].start >= c
    BY <1>2, <2>1, <2>3
  <2> QED
    BY <2>3, <2>4 DEF Fitting
<1>6. CASE Fitting(freeList, c) # {}
  <2>1. /\ m \in 1 .. n /\ freeList[m].start + c <= freeList[m].end
        /\ \A i \in Fitting(freeList, c) : m <= i
    BY <1>1, <1>2, <1>6, AllocSorted
  <2> HIDE DEF m, n
  <2> DEFINE s == freeList[m].start
  <2>2. s \in Nat
    BY <1>2, <2>1
  <2>3. \A h \in s .. (s + c - 1) : h \in Int /\ Within(h, freeList[m])
    BY <1>2, <2>1, <2>2 DEF Within
  <2>4. s .. (s + c - 1) \subseteq FreeFrames
    BY <1>2, <1>3, <2>1, <2>3 DEF Holds
  <2>5. s \in s .. (s + c - 1)
    BY <2>2
  <2>6. s \in FreeRuns(c)
    BY <2>4, <2>5 DEF FreeRuns
  <2>7. ASSUME NEW f \in FreeRuns(c) PROVE s <= f
    <3>1. PICK j \in Fitting(freeList, c) : freeList[j].start <= f
      BY <1>5
    <3>2. j \in 1 .. n /\ m <= j /\ f \in Nat
      BY <1>2, <1>4, <2>1 DEF Fitting
    <3>3. freeList[m].start <= freeList[j].start
      BY <1>2, <2>1, <3>2
    <3> QED
      BY <1>2, <2>2, <3>1, <3>2, <3>3
  <2>8. FreeRuns(c) \in SUBSET Nat /\ FreeRuns(c) # {}
    BY <1>4, <2>6
  <2>9. low \in FreeRuns(c) /\ \A f \in FreeRuns(c) : low <= f
    BY <2>8, MinNat
  <2> HIDE DEF low, s
  <2>10. low \in Nat /\ low <= s /\ s <= low
    BY <2>6, <2>7, <2>8, <2>9
  <2>11. low = s
    BY <2>2, <2>10
  <2> QED
    BY <1>6, <2>8, <2>11 DEF low, s, m
<1>7. Fitting(freeList, c) = {} => FreeRuns(c) = {}
  BY <1>5
<1> QED
  BY <1>6, <1>7

(***************************************************************************)
(* AllocGrantsLowestRun: alloc() fails only when no run of free frames is  *)
(* long enough and otherwise takes the lowest (physical.rs:148-179).       *)
(***************************************************************************)
THEOREM LowestRunGranted == Spec => AllocGrantsLowestRun
<1> DEFINE A == \A n \in 1 .. MaxRequest : alloc(n) =>
                  IF FreeRuns(n) = {}
                  THEN panic' = "oom"
                  ELSE /\ panic' = "none"
                       /\ grants' \ grants = {Block(Min(FreeRuns(n)), Min(FreeRuns(n)) + n)}
                       /\ FreeFrames' = FreeFrames \ (Min(FreeRuns(n)) .. Min(FreeRuns(n)) + n - 1)
<1>1. ASSUME IInv, NEW c \in 1 .. MaxRequest, alloc(c)
      PROVE  IF FreeRuns(c) = {}
             THEN panic' = "oom"
             ELSE /\ panic' = "none"
                  /\ grants' \ grants = {Block(Min(FreeRuns(c)), Min(FreeRuns(c)) + c)}
                  /\ FreeFrames' = FreeFrames \ (Min(FreeRuns(c)) .. Min(FreeRuns(c)) + c - 1)
  <2>1. c \in Nat \ {0}
    BY RangesAssumption DEF RangesAssumption
  <2>2. /\ Fitting(freeList, c) = {} => FreeRuns(c) = {}
        /\ Fitting(freeList, c) # {} =>
             FreeRuns(c) # {} /\ Min(FreeRuns(c)) = freeList[Min(Fitting(freeList, c))].start
    BY <1>1, <2>1, FirstFitIsLowest
  <2>3. \/ panic' = "oom" /\ Fitting(freeList, c) = {}
        \/ \E first \in Frames :
             /\ Fitting(freeList, c) # {} /\ first = freeList[Min(Fitting(freeList, c))].start
             /\ panic' = "none" /\ grants' = grants \cup {Block(first, first + c)}
             /\ FramesOf(Block(first, first + c)) = first .. first + c - 1
             /\ first .. first + c - 1 \subseteq FreeFrames
             /\ FreeFrames' = FreeFrames \ (first .. first + c - 1)
    BY <1>1, AllocEffect
  <2>4. CASE panic' = "oom" /\ Fitting(freeList, c) = {}
    BY <2>2, <2>4
  <2>5. ASSUME NEW first \in Frames, Fitting(freeList, c) # {},
               first = freeList[Min(Fitting(freeList, c))].start,
               panic' = "none", grants' = grants \cup {Block(first, first + c)},
               FramesOf(Block(first, first + c)) = first .. first + c - 1,
               first .. first + c - 1 \subseteq FreeFrames,
               FreeFrames' = FreeFrames \ (first .. first + c - 1)
        PROVE  /\ FreeRuns(c) # {} /\ panic' = "none"
               /\ grants' \ grants = {Block(Min(FreeRuns(c)), Min(FreeRuns(c)) + c)}
               /\ FreeFrames' = FreeFrames \ (Min(FreeRuns(c)) .. Min(FreeRuns(c)) + c - 1)
    <3>1. FreeRuns(c) # {} /\ Min(FreeRuns(c)) = first
      BY <2>2, <2>5
    <3>2. \A g \in grants : FramesOf(g) \subseteq GrantedFrames
      BY <1>1, GrantFacts
    <3>3. GrantedFrames \cap FreeFrames = {}
      BY <1>1, GrantFacts
    <3>4. first \in first .. first + c - 1
      BY <2>1, RangesAssumption DEF RangesAssumption
    <3>5. Block(first, first + c) \notin grants
      BY <2>5, <3>2, <3>3, <3>4
    <3>6. grants' \ grants = {Block(first, first + c)}
      BY <2>5, <3>5
    <3> QED
      BY <2>5, <3>1, <3>6
  <2> QED
    BY <2>3, <2>4, <2>5
<1>2. IInv /\ [Next]_vars => [A]_vars
  BY <1>1
<1> QED
  BY <1>2, Inductive, PTL DEF Spec, AllocGrantsLowestRun

-----------------------------------------------------------------------------
(***************************************************************************)
(* The refinement of FramePool.  Each operation is one of the contract's   *)
(* or changes no class: a frame that insert() adds was in none of them,    *)
(* because FramesConserved says what they hold together.                   *)
(***************************************************************************)
LEMMA PoolClasses ==
  ASSUME IInv
  PROVE  /\ Available = FreeFrames \cup GrantedFrames \cup withheld /\ Available \subseteq Frames
         /\ FreeFrames \cap GrantedFrames = {}
BY AvailableExists DEF IInv, FramesConserved

\* insert() is AddRegion.
LEMMA InsertRegionRefines == IInv /\ insert_region => Pool!AddRegion
<1> SUFFICES ASSUME IInv, insert_region PROVE Pool!AddRegion
  OBVIOUS
<1>1. PICK New \in SUBSET Frames :
        /\ 0 \notin New /\ New \cap Available = {} /\ FreeFrames' = FreeFrames \cup New
        /\ UNCHANGED <<grants, withheld>>
  BY InsertRegionEffect
<1>2. GrantedFrames' = GrantedFrames
  BY <1>1 DEF GrantedFrames
<1> QED
  BY <1>1, <1>2, PoolClasses DEF Pool!AddRegion, Pool!Unknown

\* reserve() is Withhold, for any range.
LEMMA ReserveRefines == IInv /\ (reserve_kernel_image \/ reserve_initrd) => Pool!Withhold
<1> SUFFICES ASSUME IInv, reserve_kernel_image \/ reserve_initrd PROVE Pool!Withhold
  OBVIOUS
<1>1. PICK r, from, to : IsRange(r) /\ reserve(r, from, to)
  BY RangesAssumption DEF reserve_kernel_image, reserve_initrd, RangesAssumption
<1>2. /\ FreeFrames' \subseteq FreeFrames /\ withheld' = withheld \cup (FreeFrames \ FreeFrames')
      /\ grants' = grants
  BY <1>1, ReserveEffect
<1>3. GrantedFrames' = GrantedFrames
  BY <1>2 DEF GrantedFrames
<1> QED
  BY <1>2, <1>3 DEF Pool!Withhold

\* alloc() is Grant when it finds a block; when it panics no class changes.
LEMMA AllocRefines ==
  \A c \in 1 .. MaxRequest : IInv /\ alloc(c) => Pool!Grant \/ UNCHANGED Pool!poolVars
<1> SUFFICES ASSUME NEW c \in 1 .. MaxRequest, IInv, alloc(c)
             PROVE  Pool!Grant \/ UNCHANGED Pool!poolVars
  OBVIOUS
<1>1. withheld' = withheld
  BY AllocEffect
<1>2. \/ UNCHANGED <<freeList, grants>>
      \/ \E first \in Frames :
           /\ grants' = grants \cup {Block(first, first + c)}
           /\ FramesOf(Block(first, first + c)) = first .. first + c - 1
           /\ first .. first + c - 1 \subseteq FreeFrames
           /\ FreeFrames' = FreeFrames \ (first .. first + c - 1)
  BY AllocEffect
<1>3. CASE UNCHANGED <<freeList, grants>>
  BY <1>1, <1>3 DEF Pool!poolVars, FreeFrames, GrantedFrames
<1>4. ASSUME NEW first \in Frames, grants' = grants \cup {Block(first, first + c)},
             FramesOf(Block(first, first + c)) = first .. first + c - 1,
             first .. first + c - 1 \subseteq FreeFrames,
             FreeFrames' = FreeFrames \ (first .. first + c - 1)
      PROVE  Pool!Grant
  <2> DEFINE X == first .. first + c - 1
             new == Block(first, first + c)
  <2>1. \A f, h \in X : f .. h \subseteq X
    BY RangesAssumption DEF RangesAssumption
  <2>2. FramesOf(new) = X /\ X \subseteq FreeFrames /\ FreeFrames' = FreeFrames \ X
        /\ grants' = grants \cup {new}
    BY <1>4
  <2> HIDE DEF X, new
  <2>3. GrantedFrames' = GrantedFrames \cup X
    BY <2>2 DEF GrantedFrames, FramesIn
  <2>4. FreeFrames \ FreeFrames' = X
    BY <2>2
  <2> QED
    BY <1>1, <2>1, <2>2, <2>3, <2>4 DEF Pool!Grant, Pool!IsRun
<1> QED
  BY <1>2, <1>3, <1>4

\* free(), of a whole grant or of one frame of it, is GiveBack.
LEMMA FreeRefines ==
  \A r \in grants :
    /\ IInv /\ free_grant(r) => Pool!GiveBack
    /\ \A f \in FramesOf(r) : IInv /\ free_frame(r, f) => Pool!GiveBack
<1>1. ASSUME NEW G \in SUBSET GrantedFrames, IInv, FreeFrames' = FreeFrames \cup G,
             GrantedFrames' = GrantedFrames \ G, withheld' = withheld
      PROVE  Pool!GiveBack
  BY <1>1, PoolClasses DEF Pool!GiveBack
<1>2. ASSUME NEW r \in grants, IInv, free_grant(r) PROVE Pool!GiveBack
  <2>1. /\ FramesOf(r) \subseteq GrantedFrames /\ FreeFrames' = FreeFrames \cup FramesOf(r)
        /\ GrantedFrames' = GrantedFrames \ FramesOf(r) /\ withheld' = withheld
    BY <1>2, FreeGrantEffect
  <2> QED
    BY <1>1, <1>2, <2>1
<1>3. ASSUME NEW r \in grants, NEW f \in FramesOf(r), IInv, free_frame(r, f) PROVE Pool!GiveBack
  <2>1. /\ {f} \subseteq GrantedFrames /\ FreeFrames' = FreeFrames \cup {f}
        /\ GrantedFrames' = GrantedFrames \ {f} /\ withheld' = withheld
    BY <1>3, FreeFrameEffect
  <2> QED
    BY <1>1, <1>3, <2>1
<1> QED
  BY <1>2, <1>3

(***************************************************************************)
(* ImplementsFramePool: the list allocator of physical.rs keeps the        *)
(* contract of FramePool, whatever the memory map, the two reserved ranges *)
(* (one may lie anywhere) and the order of allocations and frees.          *)
(***************************************************************************)
THEOREM Refinement == Spec => ImplementsFramePool
<1>1. Init => Pool!PoolInit
  BY DEF Init, Pool!PoolInit, FreeFrames, GrantedFrames, FramesIn, ToSet
<1>2. IInv /\ [Next]_vars => [Pool!PoolNext]_(Pool!poolVars)
  <2>1. UNCHANGED vars => UNCHANGED Pool!poolVars
    BY DEF vars, Pool!poolVars, FreeFrames, GrantedFrames
  <2> QED
    BY <2>1, InsertRegionRefines, ReserveRefines, AllocRefines, FreeRefines DEF Next, Pool!PoolNext
<1> QED
  BY <1>1, <1>2, Inductive, PTL DEF Spec, ImplementsFramePool, Pool!PoolSpec

\* A step of the contract keeps every frame in at most one class.
LEMMA ClassesStep ==
  ASSUME Pool!PoolTypeOK, Pool!ClassesDisjoint, [Pool!PoolNext]_(Pool!poolVars)
  PROVE  Pool!PoolTypeOK' /\ Pool!ClassesDisjoint'
<1> USE DEF Pool!PoolTypeOK, Pool!ClassesDisjoint
<1>1. CASE Pool!AddRegion
  BY <1>1 DEF Pool!AddRegion, Pool!Unknown
<1>2. CASE Pool!Grant
  BY <1>2 DEF Pool!Grant
<1>3. CASE Pool!GiveBack
  BY <1>3 DEF Pool!GiveBack
<1>4. CASE Pool!Withhold
  BY <1>4 DEF Pool!Withhold
<1>5. CASE UNCHANGED Pool!poolVars
  BY <1>5 DEF Pool!poolVars
<1> QED
  BY <1>1, <1>2, <1>3, <1>4, <1>5 DEF Pool!PoolNext

(***************************************************************************)
(* In every execution of the contract of insert(), alloc(), free() and     *)
(* reserve() (physical.rs:17-52), and so of the allocator, no frame is in  *)
(* two of the classes free, granted and withheld.                          *)
(***************************************************************************)
THEOREM PoolClassesDisjoint == Pool!PoolSpec => [](Pool!PoolTypeOK /\ Pool!ClassesDisjoint)
<1>1. Pool!PoolInit => Pool!PoolTypeOK /\ Pool!ClassesDisjoint
  BY DEF Pool!PoolInit, Pool!PoolTypeOK, Pool!ClassesDisjoint
<1>2. Pool!PoolTypeOK /\ Pool!ClassesDisjoint /\ [Pool!PoolNext]_(Pool!poolVars)
        => (Pool!PoolTypeOK /\ Pool!ClassesDisjoint)'
  BY ClassesStep
<1> QED
  BY <1>1, <1>2, PTL DEF Pool!PoolSpec

(***************************************************************************)
(* A frame that reserve() took off the list is never free or granted       *)
(* again: only reserve() touches the withheld frames, and no operation     *)
(* gives them back (physical.rs:49-52).  It follows from the contract      *)
(* alone and reaches the allocator through the refinement.                 *)
(***************************************************************************)
THEOREM WithheldForGood ==
  Spec => [][/\ withheld \subseteq withheld'
             /\ withheld \cap (FreeFrames' \cup GrantedFrames') = {}]_<<FreeFrames, GrantedFrames, withheld>>
<1> DEFINE A == /\ withheld \subseteq withheld'
                /\ withheld \cap (FreeFrames' \cup GrantedFrames') = {}
<1>1. Pool!PoolTypeOK /\ Pool!ClassesDisjoint /\ [Pool!PoolNext]_(Pool!poolVars)
        => [A]_<<FreeFrames, GrantedFrames, withheld>>
  <2> SUFFICES ASSUME Pool!PoolTypeOK, Pool!ClassesDisjoint, Pool!PoolNext PROVE A
    BY DEF Pool!poolVars
  <2>1. withheld \subseteq withheld'
    BY DEF Pool!PoolNext, Pool!AddRegion, Pool!Grant, Pool!GiveBack, Pool!Withhold
  <2>2. Pool!ClassesDisjoint'
    BY ClassesStep
  <2> QED
    BY <2>1, <2>2 DEF Pool!ClassesDisjoint
<1> QED
  BY <1>1, Refinement, PoolClassesDisjoint, PTL DEF ImplementsFramePool, Pool!PoolSpec

-----------------------------------------------------------------------------
(***************************************************************************)
(* What the processes get from this memory: AddressSpaces, the contract of *)
(* virtual.rs, for any number of processes, pages and frames.              *)
(* PrivateFrames is not inductive: a new process starts with what the      *)
(* kernel maps, so the kernel may map no private page.                     *)
(***************************************************************************)
CONSTANTS Procs, Kernel, Pages, Shared, Memory, Devices, NoFrame
VARIABLES trans, alive

Spaces == INSTANCE AddressSpaces

\* The kernel process maps no page that belongs to programs.
KernelStaysOut == \A x \in Spaces!Private : trans[Kernel][x] = NoFrame

SpacesInv == Spaces!TypeOK /\ KernelStaysOut /\ Spaces!PrivateFrames /\ Spaces!KernelPagesShared

\* Nothing is mapped at first.
LEMMA SpacesInit == ASSUME Spaces!AddressSpacesAssumption PROVE Spaces!Init => SpacesInv
BY DEF Spaces!AddressSpacesAssumption, Spaces!Init, SpacesInv, Spaces!TypeOK, KernelStaysOut,
       Spaces!PrivateFrames,
       Spaces!KernelPagesShared, Spaces!Nothing, Spaces!Mapped, Spaces!MappedIn, Spaces!Private

\* The kernel maps pages while no process sees them.
LEMMA MapKernelKeepsSpaces ==
  ASSUME Spaces!AddressSpacesAssumption PROVE SpacesInv /\ Spaces!MapKernel => SpacesInv'
<1> SUFFICES ASSUME SpacesInv, Spaces!MapKernel PROVE SpacesInv'
  OBVIOUS
<1>1. Spaces!TypeOK'
  BY DEF SpacesInv, Spaces!TypeOK, Spaces!MapKernel
<1>2. \A p \in Procs : trans'[p] = trans[p]
  BY DEF Spaces!AddressSpacesAssumption, SpacesInv, Spaces!TypeOK, Spaces!MapKernel
<1>3. KernelStaysOut'
  BY DEF Spaces!MapKernel, KernelStaysOut, Spaces!MappedIn, Spaces!Private
<1>4. Spaces!PrivateFrames'
  BY <1>2 DEF SpacesInv, Spaces!PrivateFrames, Spaces!Mapped, Spaces!MappedIn, Spaces!Private
<1>5. Spaces!KernelPagesShared'
  BY DEF Spaces!AddressSpacesAssumption, Spaces!MapKernel, Spaces!KernelPagesShared
<1> QED
  BY <1>1, <1>3, <1>4, <1>5 DEF SpacesInv

\* A new process starts with the kernel's pages and none of its own.
LEMMA CreateKeepsSpaces ==
  ASSUME Spaces!AddressSpacesAssumption, NEW p \in Procs, SpacesInv, Spaces!Create(p) PROVE SpacesInv'
<1>1. Spaces!TypeOK'
  BY DEF SpacesInv, Spaces!TypeOK, Spaces!Create
<1>2. /\ trans'[p] = trans[Kernel] /\ trans'[Kernel] = trans[Kernel]
      /\ \A q \in Procs \ {p} : trans'[q] = trans[q]
  BY DEF Spaces!AddressSpacesAssumption, SpacesInv, Spaces!TypeOK, Spaces!Create
<1>3. KernelStaysOut'
  BY <1>2 DEF SpacesInv, KernelStaysOut, Spaces!Private
<1>4. Spaces!PrivateFrames'
  BY <1>2 DEF SpacesInv, KernelStaysOut, Spaces!PrivateFrames, Spaces!Mapped, Spaces!MappedIn, Spaces!Private
<1>5. Spaces!KernelPagesShared'
  BY <1>2 DEF SpacesInv, Spaces!Create, Spaces!KernelPagesShared
<1> QED
  BY <1>1, <1>3, <1>4, <1>5 DEF SpacesInv

\* New pages get frames no process uses, and no two of them the same one.
LEMMA MapKeepsSpaces ==
  ASSUME Spaces!AddressSpacesAssumption, NEW p \in Procs, SpacesInv, Spaces!Map(p) PROVE SpacesInv'
<1>1. Spaces!TypeOK'
  BY DEF SpacesInv, Spaces!TypeOK, Spaces!Map
<1>2. \A q \in (Procs \cup {Kernel}) \ {p} : trans'[q] = trans[q]
  BY DEF Spaces!AddressSpacesAssumption, SpacesInv, Spaces!TypeOK, Spaces!Map
<1> DEFINE Added == Spaces!Differing(trans[p], trans'[p])
<1>3. /\ \A x \in Pages \ Added : trans'[p][x] = trans[p][x]
      /\ \A x \in Added : x \in Pages /\ x \in Spaces!Private /\ trans'[p][x] \notin Spaces!InUse
      /\ \A x, y \in Added : trans'[p][x] = trans'[p][y] => x = y
  BY DEF Spaces!Map, Spaces!Extends, Spaces!Differing
<1> HIDE DEF Added
<1>4. KernelStaysOut'
  BY <1>2 DEF Spaces!AddressSpacesAssumption, SpacesInv, KernelStaysOut, Spaces!Private
<1>5. Spaces!PrivateFrames'
  <2> SUFFICES ASSUME NEW q \in Procs, NEW r \in Procs,
                      NEW x \in Spaces!Mapped(q)', NEW y \in Spaces!Mapped(r)',
                      trans'[q][x] = trans'[r][y]
               PROVE  q = r /\ x = y
    BY DEF Spaces!PrivateFrames
  <2>1. x \in Pages /\ y \in Pages /\ x \in Spaces!Private /\ y \in Spaces!Private
    BY DEF Spaces!Mapped, Spaces!MappedIn, Spaces!Private
  <2>2. CASE q = p /\ x \in Added /\ r = p /\ y \in Added
    BY <2>2, <1>3
  <2>3. CASE q = p /\ x \in Added /\ ~(r = p /\ y \in Added)
    <3>1. trans'[r][y] = trans[r][y]
      BY <2>3, <2>1, <1>2, <1>3
    <3>2. trans[r][y] \in Spaces!InUse
      BY <3>1, <2>1 DEF Spaces!InUse, Spaces!FramesIn, Spaces!Mapped, Spaces!MappedIn
    <3> QED
      BY <3>1, <3>2, <2>3, <1>3
  <2>4. CASE ~(q = p /\ x \in Added) /\ r = p /\ y \in Added
    <3>1. trans'[q][x] = trans[q][x]
      BY <2>4, <2>1, <1>2, <1>3
    <3>2. trans[q][x] \in Spaces!InUse
      BY <3>1, <2>1 DEF Spaces!InUse, Spaces!FramesIn, Spaces!Mapped, Spaces!MappedIn
    <3> QED
      BY <3>1, <3>2, <2>4, <1>3
  <2>5. CASE ~(q = p /\ x \in Added) /\ ~(r = p /\ y \in Added)
    <3>1. trans'[q][x] = trans[q][x] /\ trans'[r][y] = trans[r][y]
      BY <2>5, <2>1, <1>2, <1>3
    <3>2. x \in Spaces!Mapped(q) /\ y \in Spaces!Mapped(r)
      BY <3>1, <2>1 DEF Spaces!Mapped, Spaces!MappedIn
    <3>3. trans[q][x] = trans[r][y]
      BY <3>1
    <3> QED
      BY <3>2, <3>3 DEF SpacesInv, Spaces!PrivateFrames
  <2> QED
    BY <2>2, <2>3, <2>4, <2>5
<1>6. Spaces!KernelPagesShared'
  <2>1. \A x \in Shared : trans'[p][x] = trans[p][x]
    BY <1>3 DEF Spaces!AddressSpacesAssumption, Spaces!Private
  <2> QED
    BY <2>1, <1>2 DEF Spaces!AddressSpacesAssumption, SpacesInv, Spaces!Map, Spaces!KernelPagesShared
<1> QED
  BY <1>1, <1>4, <1>5, <1>6 DEF SpacesInv

\* Dropping processes takes their mappings and leaves the others alone.
LEMMA DropKeepsSpaces ==
  ASSUME Spaces!AddressSpacesAssumption, NEW ps \in SUBSET Procs, SpacesInv, Spaces!Drop(ps) PROVE SpacesInv'
<1>1. Spaces!TypeOK'
  BY DEF SpacesInv, Spaces!TypeOK, Spaces!Drop, Spaces!Nothing
<1>2. /\ trans'[Kernel] = trans[Kernel]
      /\ \A q \in ps : trans'[q] = Spaces!Nothing
      /\ \A q \in Procs \ ps : trans'[q] = trans[q]
  BY DEF Spaces!AddressSpacesAssumption, SpacesInv, Spaces!TypeOK, Spaces!Drop
<1>3. KernelStaysOut'
  BY <1>2 DEF SpacesInv, KernelStaysOut, Spaces!Private
<1>4. \A q \in ps : Spaces!Mapped(q)' = {}
  BY <1>2 DEF Spaces!Mapped, Spaces!MappedIn, Spaces!Nothing, Spaces!Private
<1>5. Spaces!PrivateFrames'
  BY <1>2, <1>4 DEF SpacesInv, Spaces!PrivateFrames, Spaces!Mapped, Spaces!MappedIn, Spaces!Private
<1>6. Spaces!KernelPagesShared'
  BY <1>2 DEF SpacesInv, Spaces!Drop, Spaces!KernelPagesShared
<1> QED
  BY <1>1, <1>3, <1>5, <1>6 DEF SpacesInv

\* A step that changes nothing.
LEMMA StutterKeepsSpaces == SpacesInv /\ UNCHANGED Spaces!vars => SpacesInv'
BY DEF SpacesInv, Spaces!TypeOK, KernelStaysOut, Spaces!PrivateFrames, Spaces!KernelPagesShared,
       Spaces!Mapped, Spaces!MappedIn, Spaces!Private, Spaces!vars

\* The strengthened invariant holds in every reachable state.
THEOREM AddressSpacesInvariant ==
  ASSUME Spaces!AddressSpacesAssumption PROVE Spaces!Spec => []SpacesInv
<1>1. SpacesInv /\ [Spaces!Next]_(Spaces!vars) => SpacesInv'
  BY MapKernelKeepsSpaces, CreateKeepsSpaces, MapKeepsSpaces, DropKeepsSpaces, StutterKeepsSpaces
     DEF Spaces!Next
<1> QED
  BY <1>1, SpacesInit, PTL DEF Spaces!Spec

\* Address spaces are functions from pages to frames of memory or devices.
THEOREM AddressSpacesTypes ==
  ASSUME Spaces!AddressSpacesAssumption PROVE Spaces!Spec => []Spaces!TypeOK
<1>1. SpacesInv => Spaces!TypeOK
  BY DEF SpacesInv
<1> QED
  BY <1>1, AddressSpacesInvariant, PTL

\* Whatever processes map and give back, no frame is ever behind two private
\* pages, of one process or of two.
THEOREM ProcessesAreIsolated ==
  ASSUME Spaces!AddressSpacesAssumption PROVE Spaces!Spec => []Spaces!PrivateFrames
<1>1. SpacesInv => Spaces!PrivateFrames
  BY DEF SpacesInv
<1> QED
  BY <1>1, AddressSpacesInvariant, PTL

\* The kernel can run in every address space: its pages are the same in all.
THEOREM KernelIsEverywhere ==
  ASSUME Spaces!AddressSpacesAssumption PROVE Spaces!Spec => []Spaces!KernelPagesShared
<1>1. SpacesInv => Spaces!KernelPagesShared
  BY DEF SpacesInv
<1> QED
  BY <1>1, AddressSpacesInvariant, PTL
=============================================================================
