-------------------------- MODULE Scheduler_proofs --------------------------
(***************************************************************************)
(* Theorems about Scheduler, for any threads, boot order and sleep times.  *)
(***************************************************************************)
EXTENDS Scheduler, FiniteSetTheorems, TLAPS

(***************************************************************************)
(* Elements of lists.                                                      *)
(***************************************************************************)
\* What every proof below uses of the elements of a sequence.
LEMMA SeqElements ==
  ASSUME NEW S, NEW s \in Seq(S)
  PROVE  /\ Len(s) \in Nat /\ DOMAIN s = 1 .. Len(s)
         /\ \A i \in 1 .. Len(s) : s[i] \in S
         /\ ToSet(s) = {s[i] : i \in 1 .. Len(s)}
         /\ ToSet(s) \subseteq S
         /\ s = <<>> <=> Len(s) = 0
         /\ s = <<>> <=> ToSet(s) = {}
<1>1. Len(s) \in Nat /\ DOMAIN s = 1 .. Len(s) /\ \A i \in 1 .. Len(s) : s[i] \in S
  OBVIOUS
<1>2. ToSet(s) = {s[i] : i \in 1 .. Len(s)}
  BY <1>1 DEF ToSet
<1>3. s = <<>> <=> Len(s) = 0
  OBVIOUS
<1>4. s = <<>> <=> ToSet(s) = {}
  BY <1>1, <1>2, <1>3
<1> QED
  BY <1>1, <1>2, <1>3, <1>4

\* The positions are numbered in ascending order.
LEMMA SublistChoice ==
  ASSUME NEW n \in Nat, NEW P \in SUBSET (1 .. n)
  PROVE  LET rank(i) == Cardinality({j \in P : j <= i})
         IN  /\ Cardinality(P) \in Nat
             /\ \A i \in P : rank(i) \in 1 .. Cardinality(P)
             /\ \A i, j \in P : rank(i) = rank(j) => i = j
             /\ \A i, j \in P : i < j => rank(i) < rank(j)
             /\ \A k \in 1 .. Cardinality(P) : \E i \in P : rank(i) = k
<1> DEFINE below(i) == {j \in P : j <= i}
           rank(i) == Cardinality(below(i))
<1>1. IsFiniteSet(P) /\ Cardinality(P) \in Nat
  <2>1. IsFiniteSet(1 .. n)
    BY FS_Interval
  <2>2. IsFiniteSet(P)
    BY <2>1, FS_Subset
  <2> QED
    BY <2>2, FS_CardinalityType
<1>2. \A i \in P : /\ below(i) \in SUBSET P /\ i \in below(i)
                   /\ IsFiniteSet(below(i)) /\ rank(i) \in Nat /\ rank(i) <= Cardinality(P)
  <2> TAKE i \in P
  <2>1. below(i) \in SUBSET P /\ i \in Int
    OBVIOUS
  <2>2. i \in below(i)
    BY <2>1
  <2>3. IsFiniteSet(below(i)) /\ rank(i) <= Cardinality(P)
    BY <1>1, <2>1, FS_Subset
  <2>4. rank(i) \in Nat
    BY <2>3, FS_CardinalityType
  <2> QED
    BY <2>1, <2>2, <2>3, <2>4
<1>3. \A i \in P : rank(i) # 0
  BY <1>2, FS_EmptySet
<1>4. \A i, j \in P : i < j => rank(i) < rank(j)
  <2> SUFFICES ASSUME NEW i \in P, NEW j \in P, i < j PROVE rank(i) < rank(j)
    OBVIOUS
  <2>0. P \subseteq Int /\ i \in Int /\ j \in Int
    OBVIOUS
  <2>1. below(i) \in SUBSET below(j) /\ j \in below(j) /\ j \notin below(i)
    <3>1. \A k \in P : k <= i => k <= j
      BY <2>0
    <3>2. below(i) \subseteq below(j)
      BY <3>1
    <3>3. j \in below(j) /\ j \notin below(i)
      BY <2>0
    <3> QED
      BY <3>2, <3>3
  <2>2. rank(i) <= rank(j) /\ (rank(j) = rank(i) => below(j) = below(i))
    BY <1>2, <2>1, FS_Subset
  <2> QED
    BY <1>2, <2>1, <2>2
<1> HIDE DEF below
<1>5. \A i, j \in P : rank(i) = rank(j) => i = j
  BY <1>2, <1>4
<1> DEFINE f == [i \in P |-> rank(i)]
<1>6. f \in Injection(P, 1 .. Cardinality(P))
  BY <1>1, <1>2, <1>3, <1>5 DEF Injection, IsInjective
<1>7. IsFiniteSet(1 .. Cardinality(P)) /\ Cardinality(1 .. Cardinality(P)) = Cardinality(P)
  BY <1>1, FS_Interval
<1>8. f \in Surjection(P, 1 .. Cardinality(P))
  BY <1>6, <1>7, FS_Injection
<1>9. \A k \in 1 .. Cardinality(P) : \E i \in P : rank(i) = k
  BY <1>8 DEF Surjection
<1> QED
  BY <1>1, <1>2, <1>3, <1>4, <1>5, <1>9 DEF below

\* A sublist has exactly the entries at the positions, each once.
LEMMA SublistElements ==
  ASSUME NEW S, NEW list \in Seq(S), NEW P \in SUBSET DOMAIN list
  PROVE  LET sub == Sublist(list, P)
         IN  /\ sub \in Seq(S)
             /\ \A k \in DOMAIN sub : \E i \in P : sub[k] = list[i]
             /\ \A i \in P : \E k \in DOMAIN sub : sub[k] = list[i]
             /\ \A k, m \in DOMAIN sub : \A i \in P :
                  (\A j \in P : list[j] = list[i] => j = i) /\ sub[k] = list[i] /\ sub[m] = list[i]
                    => k = m
<1> DEFINE n == Cardinality(P)
           rank(i) == Cardinality({j \in P : j <= i})
           at(k) == CHOOSE i \in P : rank(i) = k
           sub == [k \in 1 .. n |-> list[at(k)]]
<1>1. Len(list) \in Nat /\ DOMAIN list = 1 .. Len(list)
  OBVIOUS
<1>2. /\ n \in Nat
      /\ \A i \in P : rank(i) \in 1 .. n
      /\ \A i, j \in P : rank(i) = rank(j) => i = j
      /\ \A k \in 1 .. n : \E i \in P : rank(i) = k
  BY <1>1, SublistChoice
<1> HIDE DEF n, rank
<1>3. \A k \in 1 .. n : at(k) \in P /\ rank(at(k)) = k
  BY <1>2
<1>4. \A i \in P : at(rank(i)) = i
  BY <1>2, <1>3
<1> HIDE DEF at
<1>5. sub \in Seq(S) /\ DOMAIN sub = 1 .. n
  BY <1>1, <1>2, <1>3
<1>6. \A k \in DOMAIN sub : sub[k] = list[at(k)]
  OBVIOUS
<1>7. sub = Sublist(list, P)
  BY DEF Sublist, at, rank, n
<1> HIDE DEF sub
<1>8. \A i \in P : rank(i) \in DOMAIN sub /\ sub[rank(i)] = list[i]
  BY <1>2, <1>4, <1>5, <1>6
<1>9. ASSUME NEW k \in DOMAIN sub, NEW m \in DOMAIN sub, NEW i \in P,
             \A j \in P : list[j] = list[i] => j = i, sub[k] = list[i], sub[m] = list[i]
      PROVE  k = m
  BY <1>3, <1>5, <1>6, <1>9
<1> QED
  BY <1>3, <1>5, <1>6, <1>7, <1>8, <1>9

(***************************************************************************)
(* Sequences without repetition.                                           *)
(***************************************************************************)
\* Two sequences of distinct elements that share none, one after the other.
LEMMA ConcatDistinct ==
  ASSUME NEW S, NEW s \in Seq(S), NEW r \in Seq(S)
  PROVE  /\ s \o r \in Seq(S)
         /\ ToSet(s \o r) = ToSet(s) \cup ToSet(r)
         /\ IsInjective(s) /\ IsInjective(r) /\ ToSet(s) \cap ToSet(r) = {} => IsInjective(s \o r)
<1> DEFINE c == s \o r
<1>1. /\ c \in Seq(S) /\ Len(c) = Len(s) + Len(r)
      /\ \A i \in 1 .. Len(c) : c[i] = IF i <= Len(s) THEN s[i] ELSE r[i - Len(s)]
  OBVIOUS
<1>2. /\ Len(s) \in Nat /\ Len(r) \in Nat
      /\ DOMAIN s = 1 .. Len(s) /\ DOMAIN r = 1 .. Len(r) /\ DOMAIN c = 1 .. Len(c)
  BY <1>1
<1> HIDE DEF c
<1>3. ASSUME NEW x PROVE x \in ToSet(c) <=> x \in ToSet(s) \cup ToSet(r)
  <2>1. ASSUME x \in ToSet(c) PROVE x \in ToSet(s) \cup ToSet(r)
    <3>1. PICK i \in 1 .. Len(c) : x = c[i]
      BY <1>2, <2>1 DEF ToSet
    <3>2. CASE i <= Len(s)
      BY <1>1, <1>2, <3>1, <3>2, SMTT(30) DEF ToSet
    <3>3. CASE ~(i <= Len(s))
      <4>1. i - Len(s) \in 1 .. Len(r) /\ x = r[i - Len(s)]
        BY <1>1, <1>2, <3>1, <3>3
      <4> QED
        BY <4>1, <1>2 DEF ToSet
    <3> QED
      BY <3>2, <3>3
  <2>2. ASSUME x \in ToSet(s) PROVE x \in ToSet(c)
    <3>1. PICK i \in 1 .. Len(s) : x = s[i]
      BY <1>2, <2>2 DEF ToSet
    <3>2. i \in 1 .. Len(c) /\ c[i] = x
      BY <1>1, <1>2, <3>1
    <3> QED
      BY <1>2, <3>2 DEF ToSet
  <2>3. ASSUME x \in ToSet(r) PROVE x \in ToSet(c)
    <3>1. PICK i \in 1 .. Len(r) : x = r[i]
      BY <1>2, <2>3 DEF ToSet
    <3> DEFINE k == i + Len(s)
    <3>2. k \in 1 .. Len(c) /\ ~(k <= Len(s)) /\ k - Len(s) = i
      BY <1>1, <1>2, <3>1
    <3> HIDE DEF k
    <3>3. c[k] = x
      BY <1>1, <3>1, <3>2
    <3> QED
      BY <1>2, <3>2, <3>3 DEF ToSet
  <2> QED
    BY <2>1, <2>2, <2>3
<1>4. ASSUME IsInjective(s), IsInjective(r), ToSet(s) \cap ToSet(r) = {} PROVE IsInjective(c)
  <2> SUFFICES ASSUME NEW i \in 1 .. Len(c), NEW j \in 1 .. Len(c), c[i] = c[j] PROVE i = j
    BY <1>2 DEF IsInjective
  <2>1. CASE i <= Len(s) /\ j <= Len(s)
    BY <1>1, <1>2, <1>4, <2>1 DEF IsInjective
  <2>2. CASE i > Len(s) /\ j > Len(s)
    <3>1. /\ i - Len(s) \in 1 .. Len(r) /\ j - Len(s) \in 1 .. Len(r)
          /\ r[i - Len(s)] = r[j - Len(s)]
      BY <1>1, <1>2, <2>2
    <3>2. i - Len(s) = j - Len(s)
      BY <1>2, <1>4, <3>1 DEF IsInjective
    <3> QED
      BY <1>2, <3>2
  <2>3. ASSUME NEW k \in 1 .. Len(c), NEW m \in 1 .. Len(c), k <= Len(s), m > Len(s), c[k] = c[m]
        PROVE  FALSE
    <3>1. k \in 1 .. Len(s) /\ m - Len(s) \in 1 .. Len(r) /\ s[k] = r[m - Len(s)]
      BY <1>1, <1>2, <2>3
    <3>2. s[k] \in ToSet(s) /\ s[k] \in ToSet(r)
      BY <1>2, <3>1 DEF ToSet
    <3> QED
      BY <1>4, <3>2
  <2> QED
    BY <1>1, <1>2, <2>1, <2>2, <2>3
<1> QED
  BY <1>1, <1>3, <1>4 DEF c

\* A queue of one thread.
LEMMA SingletonSeq ==
  ASSUME NEW S, NEW x \in S
  PROVE  <<x>> \in Seq(S) /\ ToSet(<<x>>) = {x} /\ IsInjective(<<x>>)
<1>1. <<x>> \in Seq(S) /\ DOMAIN <<x>> = {1} /\ <<x>>[1] = x
  OBVIOUS
<1> QED
  BY <1>1 DEF ToSet, IsInjective

\* push_front() and push() of an element that is not in the sequence.
LEMMA PushFrontDistinct ==
  ASSUME NEW S, NEW s \in Seq(S), NEW x \in S
  PROVE  /\ push_front(s, x) \in Seq(S)
         /\ ToSet(push_front(s, x)) = ToSet(s) \cup {x}
         /\ IsInjective(s) /\ x \notin ToSet(s) => IsInjective(push_front(s, x))
<1> DEFINE one == <<x>>
<1>1. one \in Seq(S) /\ ToSet(one) = {x} /\ IsInjective(one)
  BY SingletonSeq
<1>2. push_front(s, x) = one \o s
  BY DEF push_front
<1> HIDE DEF one
<1> QED
  BY <1>1, <1>2, ConcatDistinct

\* A thread that joins a queue it is not in.
LEMMA AppendDistinct ==
  ASSUME NEW S, NEW s \in Seq(S), NEW x \in S
  PROVE  /\ Append(s, x) \in Seq(S)
         /\ ToSet(Append(s, x)) = ToSet(s) \cup {x}
         /\ IsInjective(s) /\ x \notin ToSet(s) => IsInjective(Append(s, x))
<1> DEFINE one == <<x>>
<1>1. one \in Seq(S) /\ ToSet(one) = {x} /\ IsInjective(one)
  BY SingletonSeq
<1>2. Append(s, x) = s \o one
  OBVIOUS
<1> HIDE DEF one
<1> QED
  BY <1>1, <1>2, ConcatDistinct

\* A queue in the opposite order.
LEMMA ReverseDistinct ==
  ASSUME NEW S, NEW s \in Seq(S)
  PROVE  /\ Reverse(s) \in Seq(S) /\ ToSet(Reverse(s)) = ToSet(s)
         /\ IsInjective(s) => IsInjective(Reverse(s))
<1> DEFINE r == Reverse(s)
<1>1. /\ r \in Seq(S) /\ Len(r) = Len(s)
      /\ \A i \in 1 .. Len(s) : r[i] = s[Len(s) - i + 1]
  BY DEF Reverse
<1>2. Len(s) \in Nat /\ DOMAIN s = 1 .. Len(s) /\ DOMAIN r = 1 .. Len(s)
  BY <1>1
<1> HIDE DEF r
<1>3. \A i \in 1 .. Len(s) : Len(s) - i + 1 \in 1 .. Len(s) /\ s[i] = r[Len(s) - i + 1]
  <2> TAKE i \in 1 .. Len(s)
  <2>1. Len(s) - i + 1 \in 1 .. Len(s) /\ Len(s) - (Len(s) - i + 1) + 1 = i
    BY <1>2
  <2> QED
    BY <1>1, <2>1
<1>4. ToSet(r) = ToSet(s)
  <2>1. ASSUME NEW i \in 1 .. Len(s) PROVE r[i] \in ToSet(s) /\ s[i] \in ToSet(r)
    BY <1>1, <1>2, <1>3 DEF ToSet
  <2> QED
    BY <1>2, <2>1 DEF ToSet
<1>5. ASSUME IsInjective(s) PROVE IsInjective(r)
  <2> SUFFICES ASSUME NEW i \in 1 .. Len(s), NEW j \in 1 .. Len(s), r[i] = r[j] PROVE i = j
    BY <1>2 DEF IsInjective
  <2>1. s[Len(s) - i + 1] = s[Len(s) - j + 1]
    BY <1>1
  <2>2. Len(s) - i + 1 = Len(s) - j + 1
    BY <1>2, <1>3, <1>5, <2>1 DEF IsInjective
  <2> QED
    BY <1>2, <2>2
<1> QED
  BY <1>1, <1>4, <1>5 DEF r

\* push_front() of several elements.
LEMMA PushAllDistinct ==
  ASSUME NEW S, NEW s \in Seq(S), NEW ts \in Seq(S)
  PROVE  /\ pushAll_front(s, ts) \in Seq(S)
         /\ ToSet(pushAll_front(s, ts)) = ToSet(s) \cup ToSet(ts)
         /\ IsInjective(s) /\ IsInjective(ts) /\ ToSet(s) \cap ToSet(ts) = {} =>
              IsInjective(pushAll_front(s, ts))
<1>1. /\ Reverse(ts) \in Seq(S) /\ ToSet(Reverse(ts)) = ToSet(ts)
      /\ IsInjective(ts) => IsInjective(Reverse(ts))
  BY ReverseDistinct
<1> QED
  BY <1>1, ConcatDistinct DEF pushAll_front

\* pop_back()
LEMMA FrontDistinct ==
  ASSUME NEW S, NEW s \in Seq(S), s # <<>>
  PROVE  /\ Front(s) \in Seq(S) /\ Last(s) \in S /\ Last(s) \in ToSet(s)
         /\ ToSet(s) = ToSet(Front(s)) \cup {Last(s)}
         /\ IsInjective(s) => IsInjective(Front(s)) /\ Last(s) \notin ToSet(Front(s))
<1> DEFINE f == Front(s)
<1>1. Len(s) \in Nat \ {0} /\ DOMAIN s = 1 .. Len(s)
  OBVIOUS
<1>2. f \in Seq(S) /\ Len(f) = Len(s) - 1 /\ \A i \in 1 .. Len(s) - 1 : f[i] = s[i]
  BY <1>1 DEF Front
<1>3. DOMAIN f = 1 .. Len(s) - 1
  BY <1>1, <1>2
<1> HIDE DEF f
<1>4. Last(s) = s[Len(s)] /\ Last(s) \in S /\ Last(s) \in ToSet(s)
  BY <1>1 DEF Last, ToSet
<1>5. ToSet(s) = ToSet(f) \cup {Last(s)}
  BY <1>1, <1>2, <1>3, <1>4 DEF ToSet
<1>6. ASSUME IsInjective(s) PROVE IsInjective(f) /\ Last(s) \notin ToSet(f)
  BY <1>1, <1>2, <1>3, <1>4, <1>6 DEF IsInjective, ToSet
<1> QED
  BY <1>2, <1>4, <1>5, <1>6 DEF f

Entry == [thread : Threads, left : 0 .. MaxSleep]

\* The threads of a list of entries.
LEMMA ThreadsOfSeq ==
  ASSUME NEW list \in Seq(Entry)
  PROVE  /\ ThreadsOf(list) \in Seq(Threads) /\ DOMAIN ThreadsOf(list) = DOMAIN list
         /\ \A i \in DOMAIN list : ThreadsOf(list)[i] = list[i].thread /\ list[i] \in Entry
         /\ ToSet(ThreadsOf(list)) = {list[i].thread : i \in DOMAIN list}
<1>1. Len(list) \in Nat /\ DOMAIN list = 1 .. Len(list) /\ \A i \in DOMAIN list : list[i] \in Entry
  OBVIOUS
<1>2. DOMAIN ThreadsOf(list) = DOMAIN list /\ \A i \in DOMAIN list : ThreadsOf(list)[i] = list[i].thread
  BY DEF ThreadsOf
<1>3. ThreadsOf(list) \in Seq(Threads)
  BY <1>1 DEF ThreadsOf, Entry
<1> QED
  BY <1>1, <1>2, <1>3 DEF ToSet

\* Part of a list without duplicates has none.
LEMMA SublistDistinct ==
  ASSUME NEW list \in Seq(Entry), IsInjective(ThreadsOf(list)), NEW P \in SUBSET DOMAIN list
  PROVE  LET sub == Sublist(list, P)
         IN  /\ sub \in Seq(Entry)
             /\ IsInjective(ThreadsOf(sub))
             /\ ToSet(ThreadsOf(sub)) = {list[i].thread : i \in P}
<1> DEFINE sub == Sublist(list, P)
<1>1. /\ sub \in Seq(Entry)
      /\ \A k \in DOMAIN sub : \E i \in P : sub[k] = list[i]
      /\ \A i \in P : \E k \in DOMAIN sub : sub[k] = list[i]
      /\ \A k, m \in DOMAIN sub : \A i \in P :
           (\A j \in P : list[j] = list[i] => j = i) /\ sub[k] = list[i] /\ sub[m] = list[i] => k = m
  BY SublistElements
<1> HIDE DEF sub
<1>2. /\ DOMAIN ThreadsOf(sub) = DOMAIN sub
      /\ \A k \in DOMAIN sub : ThreadsOf(sub)[k] = sub[k].thread
      /\ ToSet(ThreadsOf(sub)) = {sub[k].thread : k \in DOMAIN sub}
  BY <1>1, ThreadsOfSeq
<1>3. /\ DOMAIN ThreadsOf(list) = DOMAIN list
      /\ \A i \in DOMAIN list : ThreadsOf(list)[i] = list[i].thread
  BY ThreadsOfSeq
<1>4. \A i, j \in P : list[i].thread = list[j].thread => i = j
  BY <1>3 DEF IsInjective
<1>5. ASSUME NEW k \in DOMAIN sub, NEW m \in DOMAIN sub, sub[k].thread = sub[m].thread PROVE k = m
  <2>1. PICK i \in P : sub[k] = list[i]
    BY <1>1
  <2>2. PICK j \in P : sub[m] = list[j]
    BY <1>1
  <2>3. i = j
    BY <1>4, <1>5, <2>1, <2>2
  <2>4. \A q \in P : list[q] = list[i] => q = i
    BY <1>4
  <2> QED
    BY <1>1, <2>1, <2>2, <2>3, <2>4
<1>6. IsInjective(ThreadsOf(sub))
  BY <1>2, <1>5 DEF IsInjective
<1>7. {sub[k].thread : k \in DOMAIN sub} = {list[i].thread : i \in P}
  <2>1. ASSUME NEW k \in DOMAIN sub PROVE \E i \in P : sub[k].thread = list[i].thread
    BY <1>1
  <2>2. ASSUME NEW i \in P PROVE \E k \in DOMAIN sub : sub[k].thread = list[i].thread
    BY <1>1
  <2> QED
    BY <2>1, <2>2
<1> QED
  BY <1>1, <1>2, <1>6, <1>7 DEF sub

\* check_sleep_list() moves the expired sleepers and keeps the others.
LEMMA SleepListSplit ==
  ASSUME NEW list \in Seq(Entry), IsInjective(ThreadsOf(list)), MaxSleep \in Nat
  PROVE  LET woken == ThreadsOf(Expired(list))
             rest == ThreadsOf(Asleep(list))
         IN  /\ woken \in Seq(Threads) /\ IsInjective(woken)
             /\ Asleep(list) \in Seq(Entry) /\ IsInjective(rest)
             /\ ToSet(woken) \cap ToSet(rest) = {}
             /\ ToSet(woken) \cup ToSet(rest) = ToSet(ThreadsOf(list))
<1> DEFINE P == {i \in DOMAIN list : list[i].left = 0}
           Q == {i \in DOMAIN list : list[i].left > 0}
<1>1. /\ Expired(list) \in Seq(Entry) /\ IsInjective(ThreadsOf(Expired(list)))
      /\ ToSet(ThreadsOf(Expired(list))) = {list[i].thread : i \in P}
  BY SublistDistinct DEF Expired
<1>2. /\ Asleep(list) \in Seq(Entry) /\ IsInjective(ThreadsOf(Asleep(list)))
      /\ ToSet(ThreadsOf(Asleep(list))) = {list[i].thread : i \in Q}
  BY SublistDistinct DEF Asleep
<1>3. /\ DOMAIN ThreadsOf(list) = DOMAIN list
      /\ \A i \in DOMAIN list : ThreadsOf(list)[i] = list[i].thread /\ list[i] \in Entry
      /\ ToSet(ThreadsOf(list)) = {list[i].thread : i \in DOMAIN list}
  BY ThreadsOfSeq
<1>4. P \cup Q = DOMAIN list /\ P \cap Q = {}
  <2>1. \A i \in DOMAIN list : list[i].left \in 0 .. MaxSleep
    BY <1>3 DEF Entry
  <2>2. \A i \in DOMAIN list : list[i].left = 0 <=> ~(list[i].left > 0)
    BY <2>1
  <2> QED
    BY <2>2
<1>5. \A i, j \in DOMAIN list : list[i].thread = list[j].thread => i = j
  BY <1>3 DEF IsInjective
<1>6. ThreadsOf(Expired(list)) \in Seq(Threads)
  BY <1>1, ThreadsOfSeq
<1> HIDE DEF P, Q
<1>7. {list[i].thread : i \in P} \cap {list[i].thread : i \in Q} = {}
  BY <1>4, <1>5
<1>8. {list[i].thread : i \in P} \cup {list[i].thread : i \in Q}
        = {list[i].thread : i \in DOMAIN list}
  BY <1>4
<1> QED
  BY <1>1, <1>2, <1>3, <1>6, <1>7, <1>8

\* Vec::swap_remove() takes out one element and leaves the first in place,
\* unless it is the one.
LEMMA SwapRemove ==
  ASSUME NEW S, NEW s \in Seq(S), IsInjective(s), NEW i \in DOMAIN s, i # 1
  PROVE  LET r == swap_remove(s, i)
         IN  /\ r \in Seq(S) /\ IsInjective(r) /\ r[1] = s[1]
             /\ ToSet(r) = ToSet(s) \ {s[i]}
<1> DEFINE n == Len(s)
           r == swap_remove(s, i)
<1>1. n \in Nat /\ n > 1 /\ i \in 1 .. n /\ DOMAIN s = 1 .. n
  OBVIOUS
<1>2. /\ r \in Seq(S) /\ Len(r) = n - 1
      /\ \A k \in 1 .. n - 1 : r[k] = IF k = i THEN s[n] ELSE s[k]
  <2>1. CASE i = n
    <3>1. Front(s) \in Seq(S) /\ Len(Front(s)) = n - 1 /\ \A k \in 1 .. n - 1 : Front(s)[k] = s[k]
      BY <1>1 DEF Front
    <3>2. r = Front(s)
      BY <2>1 DEF swap_remove
    <3>3. n \notin 1 .. n - 1
      BY <1>1
    <3> QED
      BY <2>1, <3>1, <3>2, <3>3
  <2>2. CASE i # n
    <3> DEFINE q == ReplaceAt(s, i, Last(s))
    <3>1. q \in Seq(S) /\ Len(q) = n /\ \A k \in 1 .. n : q[k] = IF k = i THEN s[n] ELSE s[k]
      BY <1>1 DEF ReplaceAt, Last
    <3>2. r = Front(q)
      BY <2>2 DEF swap_remove
    <3> HIDE DEF q
    <3> QED
      BY <1>1, <3>1, <3>2 DEF Front
  <2> QED
    BY <2>1, <2>2
<1>3. DOMAIN r = 1 .. n - 1
  BY <1>1, <1>2
<1> HIDE DEF r
<1> HIDE DEF n
<1>4. r[1] = s[1]
  BY <1>1, <1>2
<1>5. IsInjective(r)
  BY <1>1, <1>2, <1>3 DEF IsInjective
<1>6. ToSet(r) = ToSet(s) \ {s[i]}
  <2>1. ASSUME NEW k \in 1 .. n - 1 PROVE r[k] \in ToSet(s) \ {s[i]}
    BY <1>1, <1>2 DEF IsInjective, ToSet
  <2>2. ASSUME NEW k \in 1 .. n, k # i PROVE s[k] \in ToSet(r)
    <3>1. CASE k = n
      <4>1. i \in 1 .. n - 1
        BY <1>1, <2>2, <3>1
      <4>2. r[i] = s[k]
        BY <1>2, <3>1, <4>1
      <4> QED
        BY <1>3, <4>1, <4>2 DEF ToSet
    <3>2. CASE k # n
      <4>1. k \in 1 .. n - 1
        BY <1>1, <3>2
      <4>2. r[k] = s[k]
        BY <1>2, <2>2, <4>1
      <4> QED
        BY <1>3, <4>1, <4>2 DEF ToSet
    <3> QED
      BY <3>1, <3>2
  <2> QED
    BY <1>1, <1>3, <2>1, <2>2 DEF ToSet
<1> QED
  BY <1>2, <1>4, <1>5, <1>6 DEF r

-----------------------------------------------------------------------------
(***************************************************************************)
(* The inductive invariant.  That each thread is in one place follows from *)
(* three facts about whole lists, which each step keeps: no list repeats a *)
(* thread, no two lists share one, and together they hold the live threads *)
(* except the current one outside block().  While booting, no thread has   *)
(* run, and the first one dequeued will be the first one readied, a kernel *)
(* thread: start() leaves CR3 alone.  The CPU's part follows the thread    *)
(* whose stack it runs on through block(), where that is no longer the     *)
(* current thread, and where its process must outlive it.                  *)
(***************************************************************************)
Waiting == ToSet(readyQueue) \cup Sleepers \cup Joiners

ListsDisjoint ==
  /\ IsInjective(readyQueue)
  /\ IsInjective(ThreadsOf(sleepList))
  /\ \A u \in DOMAIN joinMap : IsInjective(joinMap[u])
  /\ \A u, v \in DOMAIN joinMap : u # v => ToSet(joinMap[u]) \cap ToSet(joinMap[v]) = {}
  /\ ToSet(readyQueue) \cap Sleepers = {}
  /\ ToSet(readyQueue) \cap Joiners = {}
  /\ Sleepers \cap Joiners = {}

ListsHoldTheLiving ==
  /\ Waiting = {t \in Alive : t # current \/ blocking = "poll"}
  /\ current # NoThread /\ blocking # "poll" => current \in Alive
  /\ current = NoThread => blocking = "no" /\ ~initialized

Booting ==
  /\ IsFiniteSet(Created)
  /\ current = NoThread =>
       /\ \A t \in Threads : phase[t] \in {"new", "entry"}
       /\ Sleepers = {} /\ Joiners = {}
       /\ readyQueue # <<>> => Last(readyQueue) = BootThreads[1]
       /\ loaded = KernelProcess

OnTheCpu ==
  /\ blocking # "no" =>
       /\ cpu \in Threads
       /\ loaded = process(cpu)
       /\ phase[cpu] # "new"
       /\ phase[cpu] = "exited" /\ cpu \in UserThreads => cpu \in exited
  /\ current # NoThread /\ blocking # "switch" =>
       /\ cpu = current
       /\ loaded = process(current)
       /\ phase[current] \in {"kind", "stack", "running", "launching", "cleaning"} => rsp0 = current

IInv ==
  /\ TypeOK
  /\ ListsDisjoint
  /\ ListsHoldTheLiving
  /\ ListsNameTheLiving
  /\ IsInjective(active)
  /\ Booting
  /\ OnTheCpu

\* No thread has been created.
LEMMA InitIInv == Init => IInv
<1> SUFFICES ASSUME Init PROVE IInv
  OBVIOUS
<1> DEFINE one == <<KernelProcess>>
<1>1. one \in Seq(UserThreads \cup {KernelProcess}) /\ ToSet(one) = {KernelProcess}
      /\ IsInjective(one) /\ one[1] = KernelProcess /\ active = one
  BY SingletonSeq DEF Init
<1> HIDE DEF one
<1>2. /\ ToSet(readyQueue) = {} /\ Sleepers = {} /\ Joiners = {}
      /\ DOMAIN readyQueue = {} /\ DOMAIN sleepList = {} /\ DOMAIN joinMap = {}
  BY DEF Init, ToSet, Sleepers, Joiners
<1>3. TypeOK
  <2>1. <<>> \in Seq(Threads) /\ <<>> \in Seq([thread : Threads, left : 0 .. MaxSleep])
    OBVIOUS
  <2>2. phase \in [Threads -> Phases]
    BY DEF Init, Phases
  <2> QED
    BY <1>1, <1>2, <2>1, <2>2 DEF Init, TypeOK
<1>4. Created = {} /\ Alive = {}
  BY DEF Init, Created, Alive
<1>5. ListsDisjoint
  BY <1>2 DEF ListsDisjoint, ThreadsOf, IsInjective
<1>6. ListsHoldTheLiving
  BY <1>2, <1>4 DEF Init, ListsHoldTheLiving, Waiting
<1>7. ListsNameTheLiving /\ IsInjective(active)
  <2>1. \A t \in Threads : phase[t] = "new"
    BY DEF Init
  <2> QED
    BY <1>1, <1>2, <2>1, SchedulerAssumption DEF Init, ListsNameTheLiving, SchedulerAssumption
<1>8. Booting
  BY <1>2, <1>4, FS_EmptySet DEF Init, Booting
<1>9. OnTheCpu
  BY DEF Init, OnTheCpu
<1> QED
  BY <1>3, <1>5, <1>6, <1>7, <1>8, <1>9 DEF IInv

\* The sets the invariant speaks of, from the lists.
LEMMA SetsOfLists ==
  ASSUME TypeOK
  PROVE  /\ ThreadsOf(sleepList) \in Seq(Threads) /\ Sleepers = ToSet(ThreadsOf(sleepList))
         /\ ToSet(readyQueue) \subseteq Threads /\ Sleepers \subseteq Threads
         /\ Joiners \subseteq Threads
         /\ \A x : x \in Joiners <=> \E u \in DOMAIN joinMap : x \in ToSet(joinMap[u])
         /\ readyQueue = <<>> <=> ToSet(readyQueue) = {}
<1>1. ThreadsOf(sleepList) \in Seq(Threads) /\ Sleepers = ToSet(ThreadsOf(sleepList))
  BY ThreadsOfSeq DEF TypeOK, Entry, Sleepers
<1>2. \A x : x \in Joiners <=> \E u \in DOMAIN joinMap : x \in ToSet(joinMap[u])
  BY DEF Joiners
<1>3. ToSet(readyQueue) \subseteq Threads /\ (readyQueue = <<>> <=> ToSet(readyQueue) = {})
  BY SeqElements DEF TypeOK
<1>4. Sleepers \subseteq Threads
  BY <1>1, SeqElements
<1>5. Joiners \subseteq Threads
  BY <1>2, SeqElements DEF TypeOK
<1> QED
  BY <1>1, <1>2, <1>3, <1>4, <1>5

\* A step that leaves the lists alone.
LEMMA SameLists ==
  ASSUME ListsDisjoint, UNCHANGED <<readyQueue, sleepList, joinMap>>
  PROVE  /\ ListsDisjoint' /\ Waiting' = Waiting
         /\ Sleepers' = Sleepers /\ Joiners' = Joiners
BY DEF ListsDisjoint, Waiting, Sleepers, Joiners

LivePhases == Phases \ {"new", "loading", "exited", "lost"}

\* The current thread goes from one phase of its life to another.
LEMMA PhaseStep ==
  ASSUME IInv, blocking = "no", current # NoThread,
         NEW ph \in LivePhases, phase' = [phase EXCEPT ![current] = ph],
         UNCHANGED <<current, readyQueue, sleepList, joinMap, blocking, cpu, loaded, active, panic>>
  PROVE  /\ ListsDisjoint' /\ ListsHoldTheLiving' /\ ListsNameTheLiving' /\ IsInjective(active)'
         /\ Booting'
         /\ phase' \in [Threads -> Phases] /\ phase'[current] = ph
<1>1. current \in Alive /\ current \in Threads /\ phase \in [Threads -> Phases]
  BY DEF IInv, TypeOK, ListsHoldTheLiving, Alive
<1>2. \A t \in Threads : phase'[t] = IF t = current THEN ph ELSE phase[t]
  BY <1>1
<1>3. phase' \in [Threads -> Phases]
  BY <1>1 DEF LivePhases
<1>4. Alive' = Alive /\ Created' = Created
  BY <1>1, <1>2 DEF Alive, Created, LivePhases
<1>5. ListsDisjoint' /\ Waiting' = Waiting
  BY SameLists DEF IInv
<1>6. ListsHoldTheLiving'
  BY <1>4, <1>5 DEF IInv, ListsHoldTheLiving
<1>7. ListsNameTheLiving'
  <2>1. \A t \in Threads : /\ phase[t] \in {"new", "loading", "exited"} <=> phase'[t] \in {"new", "loading", "exited"}
                           /\ phase[t] \in {"new", "exited"} <=> phase'[t] \in {"new", "exited"}
    BY <1>1, <1>2 DEF Alive, LivePhases
  <2> QED
    BY <2>1, SchedulerAssumption DEF IInv, ListsNameTheLiving, SchedulerAssumption
<1>8. Booting'
  BY <1>4 DEF IInv, Booting
<1> QED
  BY <1>1, <1>2, <1>3, <1>5, <1>6, <1>7, <1>8 DEF IInv

\* Steps that change only the phase of the current thread, or the process lists.
LEMMA StepsOfTheCurrent ==
  IInv /\ (set_init \/ kickoff_lock \/ kickoff_unlock \/ drop_exited_process) => IInv'
<1>1. ASSUME IInv, set_init PROVE IInv'
  <2>1. /\ ListsDisjoint' /\ ListsHoldTheLiving' /\ ListsNameTheLiving' /\ IsInjective(active)'
        /\ Booting' /\ phase' \in [Threads -> Phases] /\ phase'[current] = "setup"
    BY <1>1, PhaseStep DEF set_init, Starts, LivePhases, Phases, Kickoff, cpuVars, procVars
  <2>2. TypeOK'
    BY <1>1, <2>1 DEF IInv, TypeOK, set_init, cpuVars, procVars
  <2>3. OnTheCpu'
    BY <1>1, <2>1 DEF IInv, OnTheCpu, set_init, Starts, cpuVars, procVars
  <2> QED
    BY <2>1, <2>2, <2>3 DEF IInv
<1>2. ASSUME IInv, kickoff_lock PROVE IInv'
  <2>1. ListsDisjoint' /\ Waiting' = Waiting
    BY <1>2, SameLists DEF IInv, kickoff_lock, schedVars
  <2>2. TypeOK'
    BY <1>2 DEF IInv, TypeOK, kickoff_lock, schedVars, cpuVars, procVars
  <2>3. ListsNameTheLiving' /\ IsInjective(active)' /\ OnTheCpu'
    BY <1>2 DEF IInv, ListsNameTheLiving, OnTheCpu, kickoff_lock, schedVars, cpuVars, procVars
  <2>4. Booting'
    BY <1>2, SMTT(30) DEF IInv, Booting, Sleepers, Joiners, Created, kickoff_lock, schedVars, cpuVars
  <2>5. ListsHoldTheLiving'
    BY <1>2, <2>1 DEF IInv, ListsHoldTheLiving, Alive, kickoff_lock, schedVars
  <2> QED
    BY <2>1, <2>2, <2>3, <2>4, <2>5 DEF IInv
<1>3. ASSUME IInv, kickoff_unlock PROVE IInv'
  <2> DEFINE ph == AfterKickoff(current, phase[current])
  <2>1. /\ blocking = "no" /\ current # NoThread /\ phase[current] \in Kickoff
        /\ phase' = [phase EXCEPT ![current] = ph]
        /\ rsp0' = IF phase[current] = "setup" THEN current ELSE rsp0
        /\ inWindow' = FALSE
        /\ UNCHANGED <<initialized, current, readyQueue, sleepList, joinMap, blocking, cpu, loaded,
                       active, exited, creator, panic>>
    BY <1>3 DEF kickoff_unlock, Starts, schedVars, procVars
  <2>2. ph \in {"kind", "stack", "running"}
    BY <2>1 DEF AfterKickoff
  <2> HIDE DEF ph
  <2>3. ph \in LivePhases
    BY <2>2 DEF LivePhases, Phases, Kickoff
  <2>4. /\ ListsDisjoint' /\ ListsHoldTheLiving' /\ ListsNameTheLiving' /\ IsInjective(active)'
        /\ Booting' /\ phase' \in [Threads -> Phases] /\ phase'[current] = ph
    BY <1>3, <2>1, <2>3, PhaseStep
  <2>5. TypeOK'
    BY <1>3, <2>1, <2>4 DEF IInv, TypeOK
  <2>6. OnTheCpu'
    BY <1>3, <2>1, <2>2, <2>4 DEF IInv, OnTheCpu, Kickoff
  <2> QED
    BY <2>4, <2>5, <2>6 DEF IInv
<1>4. ASSUME IInv, drop_exited_process PROVE IInv'
  <2>1. /\ ListsDisjoint' /\ ListsHoldTheLiving' /\ ListsNameTheLiving' /\ IsInjective(active)'
        /\ Booting' /\ phase' \in [Threads -> Phases] /\ phase'[current] = "running"
    BY <1>4, PhaseStep, SchedulerAssumption
       DEF drop_exited_process, LivePhases, Phases, Kickoff, schedVars, cpuVars, SchedulerAssumption
  <2>2. TypeOK'
    BY <1>4, <2>1 DEF IInv, TypeOK, drop_exited_process, schedVars, cpuVars
  <2>3. OnTheCpu'
    BY <1>4, <2>1 DEF IInv, OnTheCpu, drop_exited_process, schedVars, cpuVars
  <2> QED
    BY <2>1, <2>2, <2>3 DEF IInv
<1> QED
  BY <1>1, <1>2, <1>3, <1>4

All == UserThreads \cup {KernelProcess}

\* A process is created for a thread that does not exist yet.
LEMMA CreateProcess ==
  ASSUME IInv, NEW t \in UserThreads, phase[t] = "new", create_process(process(t))
  PROVE  /\ active' \in Seq(All) /\ IsInjective(active') /\ active'[1] = KernelProcess
         /\ ToSet(active') = ToSet(active) \cup {t}
<1>1. /\ active \in Seq(All) /\ IsInjective(active) /\ active[1] = KernelProcess
      /\ ToSet(active) = {KernelProcess} \cup {u \in UserThreads : phase[u] \notin {"new", "exited"}}
  BY DEF IInv, TypeOK, ListsNameTheLiving, All
<1>2. active' = Append(active, t) /\ t \in All /\ t \notin ToSet(active)
  BY <1>1, SchedulerAssumption DEF create_process, process, All, SchedulerAssumption
<1>3. active # <<>>
  <2>1. KernelProcess \in ToSet(active)
    BY <1>1
  <2> QED
    BY <1>1, <2>1, SeqElements
<1>4. active'[1] = KernelProcess
  BY <1>1, <1>2, <1>3
<1> DEFINE q == Append(active, t)
<1>5. q \in Seq(All) /\ IsInjective(q) /\ ToSet(q) = ToSet(active) \cup {t}
  BY <1>1, <1>2, AppendDistinct
<1> QED
  BY <1>2, <1>4, <1>5

\* A thread is readied: it enters the ready queue at the front and gets an empty
\* list of joiners.  Its process, if it has one of its own, is active by then.
LEMMA ReadyStep ==
  ASSUME IInv, NEW t \in Threads, ready(t), blocking = "no", phase[t] \in {"new", "loading"},
         current = NoThread => phase[t] = "new" /\ (readyQueue = <<>> => t = BootThreads[1]),
         phase' \in [Threads -> Phases], phase'[t] = "entry",
         \A u \in Threads \ {t} : \/ phase'[u] = phase[u]
                                  \/ u = current /\ phase[u] = "launching" /\ phase'[u] = "running",
         active' \in Seq(All), IsInjective(active'), active'[1] = KernelProcess,
         ToSet(active') = ToSet(active) \cup (UserThreads \cap {t}),
         UNCHANGED <<initialized, current, sleepList, inWindow, blocking, cpu, loaded, rsp0,
                     exited, creator, panic>>
  PROVE  IInv'
<1>1. readyQueue' = push_front(readyQueue, t)
  BY DEF ready
<1>2. /\ phase \in [Threads -> Phases]
      /\ \A u \in Threads \ {t} : /\ phase[u] \in {"new", "loading"} <=> phase'[u] \in {"new", "loading"}
                                  /\ phase[u] \in {"new", "exited"} <=> phase'[u] \in {"new", "exited"}
                                  /\ phase[u] \in {"new", "loading", "exited"} <=> phase'[u] \in {"new", "loading", "exited"}
                                  /\ phase[u] \in {"new", "loading", "exited", "lost"} <=> phase'[u] \in {"new", "loading", "exited", "lost"}
  BY DEF IInv, TypeOK
<1>3. t # current /\ t \notin Alive /\ Alive' = Alive \cup {t} /\ Created' = Created \cup {t}
  <2>1. t \notin Alive /\ Alive' = Alive \cup {t} /\ Created' = Created \cup {t}
    BY <1>2 DEF Alive, Created
  <2>2. t # current
    BY <2>1, SchedulerAssumption DEF IInv, ListsHoldTheLiving, SchedulerAssumption
  <2> QED
    BY <2>1, <2>2
<1>4. t \notin Waiting /\ t \notin DOMAIN joinMap
  BY <1>3 DEF IInv, ListsHoldTheLiving, ListsNameTheLiving
<1>5. /\ readyQueue' \in Seq(Threads) /\ ToSet(readyQueue') = ToSet(readyQueue) \cup {t}
      /\ IsInjective(readyQueue')
  <2>1. readyQueue \in Seq(Threads) /\ IsInjective(readyQueue) /\ t \notin ToSet(readyQueue)
    BY <1>4 DEF IInv, TypeOK, ListsDisjoint, Waiting
  <2> DEFINE q == push_front(readyQueue, t)
  <2>2. q \in Seq(Threads) /\ ToSet(q) = ToSet(readyQueue) \cup {t} /\ IsInjective(q)
    BY <2>1, PushFrontDistinct
  <2> QED
    BY <1>1, <2>2
<1>6. /\ DOMAIN joinMap' = DOMAIN joinMap \cup {t} /\ joinMap'[t] = <<>>
      /\ \A u \in DOMAIN joinMap : joinMap'[u] = joinMap[u]
  BY <1>4 DEF ready
<1>7. ToSet(<<>>) = {} /\ IsInjective(<<>>) /\ <<>> \in Seq(Threads)
  BY DEF ToSet, IsInjective
<1>8. Sleepers' = Sleepers /\ Joiners' = Joiners
  BY <1>1, <1>6, <1>7 DEF Sleepers, Joiners
<1>9. ListsDisjoint'
  <2>1. IsInjective(ThreadsOf(sleepList))'
    BY <1>1 DEF IInv, ListsDisjoint
  <2>2. \A u \in DOMAIN joinMap' : IsInjective(joinMap'[u])
    BY <1>6, <1>7 DEF IInv, ListsDisjoint
  <2>3. \A u, v \in DOMAIN joinMap' : u # v => ToSet(joinMap'[u]) \cap ToSet(joinMap'[v]) = {}
    BY <1>6, <1>7 DEF IInv, ListsDisjoint
  <2> QED
    BY <1>4, <1>5, <1>8, <2>1, <2>2, <2>3 DEF IInv, ListsDisjoint, Waiting
<1>10. ListsHoldTheLiving'
  BY <1>1, <1>3, <1>4, <1>5, <1>8 DEF IInv, ListsHoldTheLiving, Waiting
<1>11. ListsNameTheLiving'
  <2>1. DOMAIN joinMap' = {u \in Threads : phase'[u] \notin {"new", "loading", "exited"}}
    BY <1>2, <1>6 DEF IInv, ListsNameTheLiving
  <2>2. ToSet(active') = {KernelProcess} \cup {u \in UserThreads : phase'[u] \notin {"new", "exited"}}
    BY <1>2, SchedulerAssumption DEF IInv, ListsNameTheLiving, SchedulerAssumption
  <2> QED
    BY <2>1, <2>2 DEF IInv, ListsNameTheLiving
<1>12. TypeOK'
  <2>1. DOMAIN joinMap' \subseteq Threads /\ \A u \in DOMAIN joinMap' : joinMap'[u] \in Seq(Threads)
    BY <1>6, <1>7 DEF IInv, TypeOK
  <2> QED
    BY <1>1, <1>2, <1>5, <2>1 DEF IInv, TypeOK, All
<1>13. Booting'
  <2>1. IsFiniteSet(Created')
    BY <1>3, FS_AddElement DEF IInv, Booting
  <2>2. ASSUME current = NoThread PROVE readyQueue' # <<>> /\ Last(readyQueue') = BootThreads[1]
    <3>1. readyQueue \in Seq(Threads)
      BY DEF IInv, TypeOK
    <3>2. CASE readyQueue = <<>>
      <4>1. readyQueue' = <<t>> /\ t = BootThreads[1]
        BY <1>1, <2>2, <3>2 DEF push_front
      <4> QED
        BY <4>1 DEF Last
    <3>3. CASE readyQueue # <<>>
      <4>1. Last(readyQueue) = BootThreads[1]
        BY <2>2, <3>3 DEF IInv, Booting
      <4>2. Len(readyQueue) \in Nat \ {0} /\ readyQueue' = <<t>> \o readyQueue
        BY <1>1, <3>1, <3>3 DEF push_front
      <4>3. readyQueue' # <<>> /\ Last(readyQueue') = Last(readyQueue)
        BY <3>1, <4>2 DEF Last
      <4> QED
        BY <4>1, <4>3
    <3> QED
      BY <3>2, <3>3
  <2> QED
    BY <1>1, <1>2, <1>8, <2>1, <2>2 DEF IInv, Booting
<1>14. OnTheCpu'
  BY <1>1, <1>2, <1>3 DEF IInv, TypeOK, OnTheCpu
<1> QED
  BY <1>9, <1>10, <1>11, <1>12, <1>13, <1>14 DEF IInv

\* A thread of the boot code is created and enters the queue.
LEMMA BootReadyStep == IInv /\ boot_ready => IInv'
<1> SUFFICES ASSUME IInv, boot_ready PROVE IInv'
  OBVIOUS
<1> DEFINE n == Cardinality(Created)
<1>1. n \in Nat /\ n + 1 \in 1 .. Len(BootThreads)
  <2>1. n \in Nat
    BY FS_CardinalityType DEF IInv, Booting
  <2> QED
    BY <2>1, SchedulerAssumption DEF boot_ready, SchedulerAssumption
<1> HIDE DEF n
<1>2. PICK t \in Threads : t = BootThreads[n + 1]
  BY <1>1, SchedulerAssumption DEF SchedulerAssumption
<1>3. /\ current = NoThread /\ phase[t] = "new" /\ phase' = [phase EXCEPT ![t] = "entry"] /\ ready(t)
      /\ IF t \in UserThreads THEN create_process(process(t)) ELSE UNCHANGED active
      /\ UNCHANGED <<initialized, current, sleepList, inWindow, blocking, cpu, loaded, rsp0,
                     exited, creator, panic>>
  BY <1>2 DEF boot_ready, n, cpuVars
<1>4. ASSUME readyQueue = <<>> PROVE n + 1 = 1
  <2>1. Alive = {}
    BY <1>3, <1>4, SetsOfLists, SchedulerAssumption
       DEF IInv, Booting, ListsHoldTheLiving, Waiting, Alive, SchedulerAssumption
  <2>2. Created = {}
    BY <1>3, <2>1 DEF IInv, Booting, Created, Alive
  <2> QED
    BY <2>2, FS_EmptySet DEF n
<1>5. /\ phase' \in [Threads -> Phases] /\ phase'[t] = "entry"
      /\ \A u \in Threads \ {t} : phase'[u] = phase[u]
  BY <1>3 DEF IInv, TypeOK, Phases
<1>6. /\ active' \in Seq(All) /\ IsInjective(active') /\ active'[1] = KernelProcess
      /\ ToSet(active') = ToSet(active) \cup (UserThreads \cap {t})
  <2>1. CASE t \in UserThreads
    BY <1>3, <2>1, CreateProcess
  <2>2. CASE t \notin UserThreads
    BY <1>3, <2>2 DEF IInv, TypeOK, ListsNameTheLiving, All
  <2> QED
    BY <2>1, <2>2
<1>7. blocking = "no" /\ (readyQueue = <<>> => t = BootThreads[1])
  BY <1>2, <1>3, <1>4 DEF IInv, ListsHoldTheLiving
<1> QED
  BY <1>3, <1>5, <1>6, <1>7, ReadyStep

\* The thread that sys_application_start() has loaded enters the queue.
LEMMA ApplicationReadyStep ==
  ASSUME IInv, NEW t \in Threads, application_ready(t)
  PROVE  IInv'
<1>1. /\ blocking = "no" /\ current # NoThread /\ phase[current] = "launching"
      /\ phase[t] = "loading" /\ ready(t)
      /\ phase' = [phase EXCEPT ![t] = "entry", ![current] = "running"]
      /\ UNCHANGED <<initialized, current, sleepList, inWindow, blocking, cpu, loaded, rsp0,
                     active, exited, creator, panic>>
  BY DEF application_ready, cpuVars, procVars
<1>2. current \in Threads /\ t # current /\ phase \in [Threads -> Phases]
  BY <1>1 DEF IInv, TypeOK
<1>3. /\ phase' \in [Threads -> Phases] /\ phase'[t] = "entry" /\ phase'[current] = "running"
      /\ \A u \in Threads \ {t, current} : phase'[u] = phase[u]
  BY <1>1, <1>2 DEF Phases
<1>4. /\ active' \in Seq(All) /\ IsInjective(active') /\ active'[1] = KernelProcess
      /\ ToSet(active') = ToSet(active) \cup (UserThreads \cap {t})
  BY <1>1 DEF IInv, TypeOK, ListsNameTheLiving, All
<1> QED
  BY <1>1, <1>2, <1>3, <1>4, ReadyStep

\* sys_application_start() begins: a process without a thread.
LEMMA ApplicationStartStep ==
  ASSUME IInv, NEW t \in Threads, application_start(t)
  PROVE  IInv'
<1>1. /\ blocking = "no" /\ current \in UserThreads /\ phase[current] = "running"
      /\ t \in UserThreads /\ phase[t] = "new" /\ create_process(process(t))
      /\ phase' = [phase EXCEPT ![t] = "loading", ![current] = "launching"]
      /\ creator' = [creator EXCEPT ![t] = current]
      /\ UNCHANGED <<initialized, current, readyQueue, sleepList, joinMap, inWindow, blocking,
                     cpu, loaded, rsp0, exited, panic>>
  BY DEF application_start, Runs, schedVars, cpuVars
<1>2. current \in Threads /\ current # NoThread /\ t # current /\ phase \in [Threads -> Phases]
  BY <1>1, SchedulerAssumption DEF IInv, TypeOK, SchedulerAssumption
<1>3. /\ phase' \in [Threads -> Phases] /\ phase'[t] = "loading" /\ phase'[current] = "launching"
      /\ \A u \in Threads \ {t, current} : phase'[u] = phase[u]
  BY <1>1, <1>2 DEF Phases
<1>4. Alive' = Alive /\ Created' = Created
  BY <1>1, <1>2, <1>3 DEF Alive, Created
<1>5. ListsDisjoint' /\ Waiting' = Waiting /\ Sleepers' = Sleepers /\ Joiners' = Joiners
  BY <1>1, SameLists DEF IInv
<1>6. ListsHoldTheLiving'
  BY <1>1, <1>4, <1>5 DEF IInv, ListsHoldTheLiving
<1>7. /\ active' \in Seq(All) /\ IsInjective(active') /\ active'[1] = KernelProcess
      /\ ToSet(active') = ToSet(active) \cup {t}
  BY <1>1, CreateProcess
<1>8. ListsNameTheLiving'
  <2>1. {u \in Threads : phase[u] \notin {"new", "loading", "exited"}}
          = {u \in Threads : phase'[u] \notin {"new", "loading", "exited"}}
    BY <1>1, <1>2, <1>3
  <2>2. {u \in UserThreads : phase'[u] \notin {"new", "exited"}}
          = {u \in UserThreads : phase[u] \notin {"new", "exited"}} \cup {t}
    BY <1>1, <1>2, <1>3, SchedulerAssumption DEF SchedulerAssumption
  <2> QED
    BY <1>1, <1>7, <2>1, <2>2 DEF IInv, ListsNameTheLiving
<1>9. TypeOK'
  <2>1. creator' \in [Threads -> Threads \cup {NoThread}]
    BY <1>1, <1>2 DEF IInv, TypeOK
  <2> QED
    BY <1>1, <1>3, <1>7, <2>1 DEF IInv, TypeOK, All
<1>10. Booting'
  BY <1>1, <1>2, <1>4 DEF IInv, Booting
<1>11. OnTheCpu'
  BY <1>1, <1>2, <1>3 DEF IInv, OnTheCpu
<1> QED
  BY <1>5, <1>6, <1>7, <1>8, <1>9, <1>10, <1>11 DEF IInv

\* A step that leaves the join lists alone.
LEMMA SameJoinLists ==
  ASSUME IInv, joinMap' = joinMap,
         readyQueue' \in Seq(Threads), IsInjective(readyQueue'),
         sleepList' \in Seq(Entry), IsInjective(ThreadsOf(sleepList')),
         ToSet(readyQueue') \cap ToSet(ThreadsOf(sleepList')) = {},
         ToSet(readyQueue') \cap Joiners = {}, ToSet(ThreadsOf(sleepList')) \cap Joiners = {}
  PROVE  /\ ListsDisjoint'
         /\ Joiners' = Joiners /\ Sleepers' = ToSet(ThreadsOf(sleepList'))
         /\ Waiting' = ToSet(readyQueue') \cup ToSet(ThreadsOf(sleepList')) \cup Joiners
<1>1. Joiners' = Joiners
  BY DEF Joiners
<1>2. Sleepers' = ToSet(ThreadsOf(sleepList'))
  BY ThreadsOfSeq DEF Sleepers
<1>3. ListsDisjoint'
  BY <1>1, <1>2 DEF IInv, ListsDisjoint
<1> QED
  BY <1>1, <1>2, <1>3 DEF Waiting

\* What check_sleep_list() leaves in the two lists.
LEMMA CheckSleepList ==
  ASSUME IInv
  PROVE  LET queue == WithExpired(readyQueue, sleepList)
             rest == Asleep(sleepList)
         IN  /\ queue \in Seq(Threads) /\ IsInjective(queue)
             /\ rest \in Seq(Entry) /\ IsInjective(ThreadsOf(rest))
             /\ ToSet(queue) \cap ToSet(ThreadsOf(rest)) = {}
             /\ ToSet(queue) \cup ToSet(ThreadsOf(rest)) = ToSet(readyQueue) \cup Sleepers
             /\ ToSet(queue) \cap Joiners = {} /\ ToSet(ThreadsOf(rest)) \cap Joiners = {}
             /\ ToSet(queue) \subseteq Waiting /\ ToSet(readyQueue) \subseteq ToSet(queue)
<1> DEFINE woken == ThreadsOf(Expired(sleepList))
           rest == Asleep(sleepList)
           queue == pushAll_front(readyQueue, woken)
<1>1. /\ readyQueue \in Seq(Threads) /\ IsInjective(readyQueue)
      /\ sleepList \in Seq(Entry) /\ IsInjective(ThreadsOf(sleepList))
      /\ Sleepers = ToSet(ThreadsOf(sleepList))
      /\ ToSet(readyQueue) \cap Sleepers = {} /\ ToSet(readyQueue) \cap Joiners = {}
      /\ Sleepers \cap Joiners = {}
  BY SetsOfLists DEF IInv, TypeOK, Entry, ListsDisjoint
<1>2. /\ woken \in Seq(Threads) /\ IsInjective(woken)
      /\ rest \in Seq(Entry) /\ IsInjective(ThreadsOf(rest))
      /\ ToSet(woken) \cap ToSet(ThreadsOf(rest)) = {}
      /\ ToSet(woken) \cup ToSet(ThreadsOf(rest)) = Sleepers
  BY <1>1, SleepListSplit, SchedulerAssumption DEF SchedulerAssumption
<1>3. WithExpired(readyQueue, sleepList) = queue
  BY DEF WithExpired
<1> HIDE DEF woken, rest
<1>4. /\ queue \in Seq(Threads) /\ ToSet(queue) = ToSet(readyQueue) \cup ToSet(woken)
      /\ IsInjective(queue)
  BY <1>1, <1>2, PushAllDistinct
<1> HIDE DEF queue
<1> QED
  BY <1>1, <1>2, <1>3, <1>4 DEF rest, Waiting

\* The ready queue that start() finds holds the boot threads.
LEMMA StartFindsThread ==
  ASSUME IInv, start
  PROVE  readyQueue # <<>>
<1>1. current = NoThread /\ Cleanup \in Created
  BY SchedulerAssumption DEF start, SchedulerAssumption
<1>2. Cleanup \in Alive /\ Cleanup # NoThread
  BY <1>1, SchedulerAssumption DEF IInv, Booting, Created, Alive, SchedulerAssumption
<1>3. Cleanup \in ToSet(readyQueue)
  BY <1>1, <1>2 DEF IInv, ListsHoldTheLiving, Booting, Waiting
<1> QED
  BY <1>3, SetsOfLists DEF IInv

\* start() dequeues the thread that was readied first.
LEMMA StartStep == IInv /\ start => IInv'
<1> SUFFICES ASSUME IInv, start PROVE IInv'
  OBVIOUS
<1> DEFINE next == Last(readyQueue)
<1>1. /\ current = NoThread /\ ToSet(BootThreads) = Created
      /\ current' = next /\ readyQueue' = Front(readyQueue) /\ cpu' = next
      /\ UNCHANGED <<initialized, sleepList, joinMap, phase, inWindow, blocking,
                     loaded, rsp0, active, exited, creator, panic>>
  BY DEF start, procVars
<1>2. /\ blocking = "no" /\ ~initialized /\ Sleepers = {} /\ Joiners = {}
      /\ \A t \in Threads : phase[t] \in {"new", "entry"}
      /\ loaded = KernelProcess /\ Waiting = Alive /\ ToSet(readyQueue) = Alive
  BY <1>1, SchedulerAssumption
     DEF IInv, ListsHoldTheLiving, Booting, Waiting, Alive, SchedulerAssumption
<1>3. readyQueue # <<>>
  BY StartFindsThread
<1>4. next = BootThreads[1]
  BY <1>1, <1>3 DEF IInv, Booting
<1>5. readyQueue \in Seq(Threads) /\ IsInjective(readyQueue)
  BY DEF IInv, TypeOK, ListsDisjoint
<1> DEFINE f == Front(readyQueue)
<1>6. /\ f \in Seq(Threads) /\ next \in Threads /\ next \in ToSet(readyQueue)
      /\ ToSet(readyQueue) = ToSet(f) \cup {next} /\ IsInjective(f) /\ next \notin ToSet(f)
  BY <1>3, <1>5, FrontDistinct
<1> HIDE DEF next, f
<1>7. next # NoThread /\ next \in Alive /\ phase[next] = "entry" /\ process(next) = KernelProcess
  BY <1>2, <1>4, <1>6, SchedulerAssumption DEF Alive, process, SchedulerAssumption
<1>8. Alive' = Alive /\ Created' = Created /\ Sleepers' = Sleepers /\ Joiners' = Joiners
  BY <1>1 DEF Alive, Created, Sleepers, Joiners
<1>9. readyQueue' = f
  BY <1>1 DEF f
<1>10. TypeOK'
  BY <1>1, <1>6, <1>9 DEF IInv, TypeOK
<1>11. ListsDisjoint'
  BY <1>1, <1>2, <1>6, <1>8, <1>9 DEF IInv, ListsDisjoint
<1>12. ListsHoldTheLiving'
  <2>1. Waiting' = Alive \ {next}
    BY <1>2, <1>6, <1>8, <1>9 DEF Waiting
  <2> QED
    BY <1>1, <1>2, <1>7, <1>8, <2>1 DEF ListsHoldTheLiving
<1>13. ListsNameTheLiving' /\ IsInjective(active')
  BY <1>1 DEF IInv, ListsNameTheLiving
<1>14. Booting'
  BY <1>1, <1>7, <1>8 DEF IInv, Booting
<1>15. OnTheCpu'
  BY <1>1, <1>2, <1>7 DEF OnTheCpu
<1> QED
  BY <1>10, <1>11, <1>12, <1>13, <1>14, <1>15 DEF IInv

\* The parts of block(): the switch, ...
LEMMA BlockSwitchStep == IInv /\ block_switch => IInv'
<1> SUFFICES ASSUME IInv, block_switch PROVE IInv'
  OBVIOUS
<1>1. /\ blocking = "switch" /\ blocking' = "no"
      /\ cpu' = current /\ loaded' = process(current) /\ rsp0' = current
      /\ UNCHANGED <<initialized, current, readyQueue, sleepList, joinMap, phase, inWindow,
                     active, exited, creator, panic>>
  BY DEF block_switch, switch, schedVars, procVars
<1>2. current # NoThread /\ current \in Threads /\ current \in Alive
  BY <1>1 DEF IInv, ListsHoldTheLiving, Alive
<1>3. ListsDisjoint' /\ Waiting' = Waiting /\ Alive' = Alive /\ Created' = Created
  BY <1>1, SameLists DEF IInv, Alive, Created
<1>4. ListsHoldTheLiving'
  BY <1>1, <1>2, <1>3 DEF IInv, ListsHoldTheLiving
<1>5. TypeOK'
  BY <1>1, <1>2 DEF IInv, TypeOK, process
<1>6. ListsNameTheLiving' /\ IsInjective(active')
  BY <1>1 DEF IInv, ListsNameTheLiving
<1>7. Booting'
  BY <1>1, <1>2, <1>3 DEF IInv, Booting
<1>8. OnTheCpu'
  BY <1>1 DEF OnTheCpu
<1> QED
  BY <1>3, <1>4, <1>5, <1>6, <1>7, <1>8 DEF IInv

\* The PIT's interrupt changes no thread of the sleep list.
LEMMA TickStep == IInv /\ tick => IInv'
<1> SUFFICES ASSUME IInv, tick PROVE IInv'
  OBVIOUS
<1> DEFINE later == [i \in DOMAIN sleepList |->
                       [sleepList[i] EXCEPT !.left = IF @ > 0 THEN @ - 1 ELSE 0]]
<1>1. /\ sleepList' = later
      /\ UNCHANGED <<initialized, current, readyQueue, joinMap, phase, inWindow, blocking,
                     cpu, loaded, rsp0, active, exited, creator, panic>>
  BY DEF tick, cpuVars, procVars
<1>2. sleepList \in Seq(Entry)
  BY DEF IInv, TypeOK, Entry
<1>3. /\ later \in Seq(Entry) /\ DOMAIN later = DOMAIN sleepList
      /\ \A i \in DOMAIN sleepList : later[i].thread = sleepList[i].thread
  <2>1. \A i \in DOMAIN sleepList : sleepList[i] \in Entry
    BY <1>2
  <2>2. \A i \in DOMAIN sleepList : later[i] \in Entry /\ later[i].thread = sleepList[i].thread
    BY <2>1, SchedulerAssumption DEF Entry, SchedulerAssumption
  <2> QED
    BY <1>2, <2>2
<1> HIDE DEF later
<1>4. ThreadsOf(later) = ThreadsOf(sleepList)
  BY <1>3 DEF ThreadsOf
<1>5. Sleepers = ToSet(ThreadsOf(sleepList))
  BY SetsOfLists DEF IInv
<1>6. ListsDisjoint' /\ Joiners' = Joiners /\ Sleepers' = Sleepers /\ Waiting' = Waiting
  BY <1>1, <1>3, <1>4, <1>5, SameJoinLists DEF IInv, TypeOK, ListsDisjoint, Waiting
<1>7. Alive' = Alive /\ Created' = Created
  BY <1>1 DEF Alive, Created
<1>8. TypeOK'
  BY <1>1, <1>3 DEF IInv, TypeOK, Entry
<1>9. ListsHoldTheLiving' /\ ListsNameTheLiving' /\ IsInjective(active') /\ OnTheCpu'
  BY <1>1, <1>6, <1>7 DEF IInv, ListsHoldTheLiving, ListsNameTheLiving, OnTheCpu
<1>10. Booting'
  BY <1>1, <1>6, <1>7 DEF IInv, Booting
<1> QED
  BY <1>6, <1>8, <1>9, <1>10 DEF IInv

\* ... a round of its loop on an empty queue, ...
LEMMA BlockPollStep == IInv /\ block_poll => IInv'
<1> SUFFICES ASSUME IInv, block_poll PROVE IInv'
  OBVIOUS
<1> DEFINE queue == WithExpired(readyQueue, sleepList)
           rest == Asleep(sleepList)
<1>1. /\ blocking = "poll" /\ readyQueue' = queue /\ sleepList' = rest
      /\ UNCHANGED <<initialized, current, joinMap, phase, inWindow, blocking,
                     cpu, loaded, rsp0, active, exited, creator, panic>>
  BY DEF block_poll, cpuVars, procVars
<1>2. /\ queue \in Seq(Threads) /\ IsInjective(queue)
      /\ rest \in Seq(Entry) /\ IsInjective(ThreadsOf(rest))
      /\ ToSet(queue) \cap ToSet(ThreadsOf(rest)) = {}
      /\ ToSet(queue) \cup ToSet(ThreadsOf(rest)) = ToSet(readyQueue) \cup Sleepers
      /\ ToSet(queue) \cap Joiners = {} /\ ToSet(ThreadsOf(rest)) \cap Joiners = {}
  BY CheckSleepList
<1> HIDE DEF queue, rest
<1>3. /\ ListsDisjoint' /\ Joiners' = Joiners /\ Waiting' = Waiting
  BY <1>1, <1>2, SameJoinLists DEF Waiting
<1>4. Alive' = Alive /\ Created' = Created
  BY <1>1 DEF Alive, Created
<1>5. current # NoThread
  BY <1>1 DEF IInv, ListsHoldTheLiving
<1>6. TypeOK'
  BY <1>1, <1>2 DEF IInv, TypeOK, Entry
<1>7. ListsHoldTheLiving' /\ ListsNameTheLiving' /\ IsInjective(active') /\ OnTheCpu'
  BY <1>1, <1>3, <1>4 DEF IInv, ListsHoldTheLiving, ListsNameTheLiving, OnTheCpu
<1>8. Booting'
  BY <1>1, <1>4, <1>5 DEF IInv, Booting
<1> QED
  BY <1>3, <1>6, <1>7, <1>8 DEF IInv

\* ... and the next thread.
LEMMA BlockPopStep == IInv /\ block_pop => IInv'
<1> SUFFICES ASSUME IInv, block_pop PROVE IInv'
  OBVIOUS
<1> DEFINE next == Last(readyQueue)
           f == Front(readyQueue)
<1>1. /\ blocking = "poll" /\ readyQueue # <<>> /\ readyQueue' = f /\ current' = next
      /\ blocking' = IF next = current THEN "no" ELSE "switch"
      /\ UNCHANGED <<initialized, sleepList, joinMap, phase, inWindow,
                     cpu, loaded, rsp0, active, exited, creator, panic>>
  BY DEF block_pop, cpuVars, procVars
<1>2. /\ f \in Seq(Threads) /\ next \in Threads /\ next \in ToSet(readyQueue)
      /\ ToSet(readyQueue) = ToSet(f) \cup {next} /\ IsInjective(f) /\ next \notin ToSet(f)
  BY <1>1, FrontDistinct DEF IInv, TypeOK, ListsDisjoint
<1> HIDE DEF next, f
<1>3. Alive' = Alive /\ Created' = Created /\ Sleepers' = Sleepers /\ Joiners' = Joiners
  BY <1>1 DEF Alive, Created, Sleepers, Joiners
<1>4. next \in Waiting /\ next \in Alive /\ next # NoThread /\ current # NoThread
  BY <1>1, <1>2, SchedulerAssumption
     DEF IInv, ListsHoldTheLiving, Waiting, Alive, SchedulerAssumption
<1>5. TypeOK'
  BY <1>1, <1>2 DEF IInv, TypeOK
<1>6. ListsDisjoint'
  BY <1>1, <1>2, <1>3 DEF IInv, ListsDisjoint
<1>7. ListsHoldTheLiving'
  <2>1. Waiting' = Waiting \ {next}
    BY <1>1, <1>2, <1>3 DEF IInv, ListsDisjoint, Waiting
  <2>2. Waiting = Alive
    BY <1>1 DEF IInv, ListsHoldTheLiving
  <2> QED
    BY <1>1, <1>3, <1>4, <2>1, <2>2 DEF ListsHoldTheLiving
<1>8. ListsNameTheLiving' /\ IsInjective(active')
  BY <1>1 DEF IInv, ListsNameTheLiving
<1>9. Booting'
  BY <1>1, <1>3, <1>4 DEF IInv, Booting
<1>10. OnTheCpu'
  <2>1. CASE next = current
    BY <1>1, <1>4, <2>1 DEF IInv, OnTheCpu
  <2>2. CASE next # current
    BY <1>1, <1>4, <2>2 DEF IInv, OnTheCpu
  <2> QED
    BY <2>1, <2>2
<1> QED
  BY <1>5, <1>6, <1>7, <1>8, <1>9, <1>10 DEF IInv

\* switch_thread() finds no thread, drops the one it dequeued, or switches.
LEMMA SwitchThreadStep == IInv /\ switch_thread => IInv'
<1> SUFFICES ASSUME IInv, switch_thread PROVE IInv'
  OBVIOUS
<1> DEFINE queue == WithExpired(readyQueue, sleepList)
           rest == Asleep(sleepList)
           next == Last(queue)
           f == Front(queue)
<1>1. /\ blocking = "no" /\ initialized /\ sleepList' = rest
      /\ UNCHANGED <<initialized, joinMap, inWindow, blocking, active, exited, creator, panic>>
  BY DEF switch_thread, procVars
<1>2. /\ queue \in Seq(Threads) /\ IsInjective(queue)
      /\ rest \in Seq(Entry) /\ IsInjective(ThreadsOf(rest))
      /\ ToSet(queue) \cap ToSet(ThreadsOf(rest)) = {}
      /\ ToSet(queue) \cup ToSet(ThreadsOf(rest)) = ToSet(readyQueue) \cup Sleepers
      /\ ToSet(queue) \cap Joiners = {} /\ ToSet(ThreadsOf(rest)) \cap Joiners = {}
  BY CheckSleepList
<1>3. \/ queue = <<>> /\ readyQueue' = queue /\ UNCHANGED <<current, phase, cpu, loaded, rsp0>>
      \/ /\ queue # <<>> /\ readyQueue' = f /\ phase' = [phase EXCEPT ![next] = "lost"]
         /\ UNCHANGED <<current, cpu, loaded, rsp0>>
      \/ /\ queue # <<>> /\ readyQueue' = push_front(f, current) /\ current' = next
         /\ cpu' = next /\ loaded' = process(next) /\ rsp0' = next /\ UNCHANGED phase
  BY DEF switch_thread, switch, Dropped, cpuVars
<1>4. current # NoThread /\ current \in Threads /\ current \in Alive
  BY <1>1 DEF IInv, ListsHoldTheLiving, Alive
<1>5. /\ queue # <<>> =>
           /\ f \in Seq(Threads) /\ next \in Threads /\ next \in ToSet(queue)
           /\ ToSet(queue) = ToSet(f) \cup {next} /\ IsInjective(f) /\ next \notin ToSet(f)
  BY <1>2, FrontDistinct
<1> HIDE DEF queue, rest, next, f
<1>6. /\ Waiting = ToSet(queue) \cup ToSet(ThreadsOf(rest)) \cup Joiners
      /\ Waiting = Alive \ {current}
  BY <1>1, <1>2 DEF IInv, ListsHoldTheLiving, Waiting
<1>7. CASE queue = <<>> /\ readyQueue' = queue /\ UNCHANGED <<current, phase, cpu, loaded, rsp0>>
  <2>1. ListsDisjoint' /\ Joiners' = Joiners /\ Waiting' = Waiting
    BY <1>1, <1>2, <1>6, <1>7, SameJoinLists
  <2>2. Alive' = Alive /\ Created' = Created
    BY <1>7 DEF Alive, Created
  <2>3. TypeOK'
    BY <1>1, <1>2, <1>7 DEF IInv, TypeOK, Entry
  <2>4. ListsHoldTheLiving' /\ ListsNameTheLiving' /\ IsInjective(active') /\ OnTheCpu'
    BY <1>1, <1>7, <2>1, <2>2 DEF IInv, ListsHoldTheLiving, ListsNameTheLiving, OnTheCpu
  <2>5. Booting'
    BY <1>4, <1>7, <2>2 DEF IInv, Booting
  <2> QED
    BY <2>1, <2>3, <2>4, <2>5 DEF IInv
<1>8. CASE /\ queue # <<>> /\ readyQueue' = f /\ phase' = [phase EXCEPT ![next] = "lost"]
           /\ UNCHANGED <<current, cpu, loaded, rsp0>>
  <2>1. /\ ListsDisjoint' /\ Joiners' = Joiners
        /\ Waiting' = ToSet(f) \cup ToSet(ThreadsOf(rest)) \cup Joiners
    BY <1>1, <1>2, <1>5, <1>8, SameJoinLists
  <2>2. Waiting' = Waiting \ {next}
    BY <1>2, <1>5, <1>6, <1>8, <2>1
  <2>3. next \in Alive /\ next # current
    BY <1>5, <1>6, <1>8
  <2>4. /\ phase \in [Threads -> Phases] /\ phase' \in [Threads -> Phases]
        /\ phase'[next] = "lost" /\ \A u \in Threads \ {next} : phase'[u] = phase[u]
    BY <1>5, <1>8 DEF IInv, TypeOK, Phases
  <2>5. Alive' = Alive \ {next} /\ Created' = Created
    BY <2>3, <2>4 DEF Alive, Created
  <2>6. TypeOK'
    BY <1>1, <1>2, <1>5, <1>8, <2>4 DEF IInv, TypeOK, Entry
  <2>7. ListsHoldTheLiving'
    BY <1>1, <1>4, <1>6, <1>8, <2>2, <2>3, <2>5 DEF ListsHoldTheLiving
  <2>8. ListsNameTheLiving' /\ IsInjective(active')
    <3>1. \A u \in Threads : /\ phase'[u] \in {"new", "loading", "exited"} <=> phase[u] \in {"new", "loading", "exited"}
                             /\ phase'[u] \in {"new", "exited"} <=> phase[u] \in {"new", "exited"}
      BY <2>3, <2>4 DEF Alive
    <3> QED
      BY <1>1, <3>1, SchedulerAssumption DEF IInv, ListsNameTheLiving, SchedulerAssumption
  <2>9. OnTheCpu'
    BY <1>1, <1>4, <1>8, <2>3, <2>4 DEF IInv, OnTheCpu
  <2>10. Booting'
    BY <1>4, <1>8, <2>5 DEF IInv, Booting
  <2> QED
    BY <2>1, <2>6, <2>7, <2>8, <2>9, <2>10 DEF IInv
<1>9. CASE /\ queue # <<>> /\ readyQueue' = push_front(f, current) /\ current' = next
           /\ cpu' = next /\ loaded' = process(next) /\ rsp0' = next /\ UNCHANGED phase
  <2> DEFINE q == push_front(f, current)
  <2>1. current \notin ToSet(f)
    BY <1>5, <1>6, <1>9
  <2>2. q \in Seq(Threads) /\ ToSet(q) = ToSet(f) \cup {current} /\ IsInjective(q)
    BY <1>4, <1>5, <1>9, <2>1, PushFrontDistinct, SMTT(30)
  <2>3. readyQueue' = q
    BY <1>9
  <2> HIDE DEF q
  <2>4. ToSet(q) \cap ToSet(ThreadsOf(rest)) = {} /\ ToSet(q) \cap Joiners = {}
    BY <1>2, <1>5, <1>6, <1>9, <2>2
  <2>5. /\ ListsDisjoint' /\ Joiners' = Joiners
        /\ Waiting' = ToSet(q) \cup ToSet(ThreadsOf(rest)) \cup Joiners
    BY <1>1, <1>2, <2>2, <2>3, <2>4, SameJoinLists
  <2>6. next \in Alive /\ next # current /\ next # NoThread
    BY <1>5, <1>6, <1>9, SchedulerAssumption DEF SchedulerAssumption
  <2>7. Waiting' = (Waiting \ {next}) \cup {current}
    BY <1>2, <1>5, <1>6, <1>9, <2>2, <2>5, <2>6
  <2>8. Alive' = Alive /\ Created' = Created
    BY <1>9 DEF Alive, Created
  <2>9. TypeOK'
    BY <1>1, <1>2, <1>5, <1>9, <2>2, <2>3 DEF IInv, TypeOK, Entry, process
  <2>10. ListsHoldTheLiving'
    BY <1>1, <1>4, <1>6, <1>9, <2>6, <2>7, <2>8 DEF ListsHoldTheLiving
  <2>11. ListsNameTheLiving' /\ IsInjective(active')
    BY <1>1, <1>9 DEF IInv, ListsNameTheLiving
  <2>12. OnTheCpu'
    BY <1>1, <1>9 DEF OnTheCpu
  <2>13. Booting'
    BY <1>9, <2>6, <2>8 DEF IInv, Booting
  <2> QED
    BY <2>5, <2>9, <2>10, <2>11, <2>12, <2>13 DEF IInv
<1> QED
  BY <1>3, <1>7, <1>8, <1>9

\* Before an operation of its own a thread is alive and in no list.
LEMMA Caller ==
  ASSUME IInv, NEW t \in Threads, Runs(t)
  PROVE  /\ t = current /\ blocking = "no" /\ t # NoThread /\ t \in Alive
         /\ t \notin Waiting /\ Waiting = Alive \ {t} /\ phase[t] = "running"
         /\ cpu = t /\ loaded = process(t) /\ rsp0 = t
<1>1. t = current /\ blocking = "no" /\ phase[t] = "running" /\ t # NoThread
  BY SchedulerAssumption DEF Runs, SchedulerAssumption
<1> QED
  BY <1>1 DEF IInv, ListsHoldTheLiving, OnTheCpu, Alive

\* sleep() puts the current thread into the sleep list.
LEMMA SleepStep ==
  ASSUME IInv, NEW t \in Threads, NEW ticks \in 0 .. MaxSleep, sleep(t, ticks)
  PROVE  IInv'
<1> DEFINE e == [thread |-> t, left |-> ticks]
           list == Append(sleepList, e)
<1>1. /\ t = current /\ blocking = "no" /\ t # NoThread /\ t \in Alive
      /\ t \notin Waiting /\ Waiting = Alive \ {t} /\ phase[t] = "running"
      /\ cpu = t /\ loaded = process(t) /\ rsp0 = t
  BY Caller DEF sleep
<1>2. /\ sleepList' = list /\ blocking' = "poll"
      /\ phase' = IF t = Cleanup THEN [phase EXCEPT ![t] = "cleaning"] ELSE phase
      /\ UNCHANGED <<initialized, current, readyQueue, joinMap, inWindow, cpu, loaded, rsp0,
                     active, exited, creator, panic>>
  BY DEF sleep, cpuVars, procVars
<1>3. /\ phase \in [Threads -> Phases] /\ phase' \in [Threads -> Phases]
      /\ phase'[t] \in {"running", "cleaning"} /\ \A u \in Threads \ {t} : phase'[u] = phase[u]
  BY <1>1, <1>2 DEF IInv, TypeOK, Phases
<1>4. Alive' = Alive /\ Created' = Created
  BY <1>1, <1>3 DEF Alive, Created
<1>5. sleepList \in Seq(Entry) /\ e \in Entry
  BY DEF IInv, TypeOK, Entry
<1>6. Sleepers = ToSet(ThreadsOf(sleepList)) /\ ThreadsOf(sleepList) \in Seq(Threads)
  BY SetsOfLists DEF IInv
<1>7. list \in Seq(Entry) /\ ThreadsOf(list) = Append(ThreadsOf(sleepList), t)
  <2>1. /\ list \in Seq(Entry) /\ Len(list) = Len(sleepList) + 1 /\ Len(sleepList) \in Nat
        /\ \A i \in 1 .. Len(list) : list[i] = IF i <= Len(sleepList) THEN sleepList[i] ELSE e
    BY <1>5
  <2>2. DOMAIN list = 1 .. Len(list) /\ DOMAIN sleepList = 1 .. Len(sleepList)
    BY <1>5, <2>1
  <2>3. e.thread = t
    OBVIOUS
  <2> HIDE DEF e, list
  <2> DEFINE a == ThreadsOf(list)
             b == ThreadsOf(sleepList)
             c == Append(b, t)
  <2>4. a = [i \in 1 .. Len(list) |-> list[i].thread]
    BY <2>2 DEF ThreadsOf
  <2>5. DOMAIN b = 1 .. Len(sleepList) /\ \A i \in 1 .. Len(sleepList) : b[i] = sleepList[i].thread
    BY <2>2 DEF ThreadsOf
  <2>6. b \in Seq(Threads) /\ Len(b) = Len(sleepList)
    BY <1>6, <2>1, <2>5
  <2> HIDE DEF a, b
  <2>7. /\ c \in Seq(Threads) /\ DOMAIN c = 1 .. Len(list)
        /\ \A i \in 1 .. Len(list) : c[i] = IF i <= Len(b) THEN b[i] ELSE t
    BY <2>1, <2>6
  <2> HIDE DEF c
  <2>8. c = [i \in 1 .. Len(list) |-> c[i]]
    BY <2>7
  <2>9. \A i \in 1 .. Len(list) : c[i] = list[i].thread
    BY <2>1, <2>3, <2>5, <2>6, <2>7
  <2>10. a = c
    BY <2>4, <2>8, <2>9
  <2> QED
    BY <2>1, <2>10 DEF a, b, c
<1> HIDE DEF e, list
<1> DEFINE q == Append(ThreadsOf(sleepList), t)
<1>8. ToSet(q) = Sleepers \cup {t} /\ IsInjective(q)
  <2>1. IsInjective(ThreadsOf(sleepList)) /\ t \notin ToSet(ThreadsOf(sleepList))
    BY <1>1, <1>6 DEF IInv, ListsDisjoint, Waiting
  <2> QED
    BY <1>6, <2>1, AppendDistinct
<1>9. ThreadsOf(sleepList') = q
  BY <1>2, <1>7
<1> HIDE DEF q
<1>10. ListsDisjoint' /\ Waiting' = Waiting \cup {t}
  <2>1. ToSet(readyQueue) \cap ToSet(q) = {} /\ ToSet(q) \cap Joiners = {}
    BY <1>1, <1>8 DEF IInv, ListsDisjoint, Waiting
  <2>2. /\ readyQueue' \in Seq(Threads) /\ IsInjective(readyQueue') /\ sleepList' \in Seq(Entry)
        /\ ToSet(readyQueue') \cap Joiners = {}
    BY <1>2, <1>7 DEF IInv, TypeOK, ListsDisjoint
  <2>3. /\ ListsDisjoint'
        /\ Waiting' = ToSet(readyQueue') \cup ToSet(ThreadsOf(sleepList')) \cup Joiners
    BY <1>2, <1>8, <1>9, <2>1, <2>2, SameJoinLists
  <2> QED
    BY <1>2, <1>8, <1>9, <2>3 DEF Waiting
<1>11. TypeOK'
  BY <1>2, <1>3, <1>7 DEF IInv, TypeOK, Entry
<1>12. ListsHoldTheLiving'
  BY <1>1, <1>2, <1>4, <1>10 DEF ListsHoldTheLiving
<1>13. ListsNameTheLiving' /\ IsInjective(active')
  <2>1. \A u \in Threads : /\ phase'[u] \in {"new", "loading", "exited"} <=> phase[u] \in {"new", "loading", "exited"}
                           /\ phase'[u] \in {"new", "exited"} <=> phase[u] \in {"new", "exited"}
    BY <1>1, <1>3
  <2> QED
    BY <1>2, <2>1, SchedulerAssumption DEF IInv, ListsNameTheLiving, SchedulerAssumption
<1>14. Booting'
  BY <1>1, <1>2, <1>4 DEF IInv, Booting
<1>15. OnTheCpu'
  BY <1>1, <1>2, <1>3 DEF OnTheCpu
<1> QED
  BY <1>10, <1>11, <1>12, <1>13, <1>14, <1>15 DEF IInv

\* join() puts it into the join map, or returns.
LEMMA JoinStep ==
  ASSUME IInv, NEW t \in Threads, NEW target \in Threads, join(t, target)
  PROVE  IInv'
<1>1. /\ t = current /\ blocking = "no" /\ t # NoThread /\ t \in Alive
      /\ t \notin Waiting /\ Waiting = Alive \ {t} /\ phase[t] = "running"
      /\ cpu = t /\ loaded = process(t) /\ rsp0 = t
  BY Caller DEF join
<1>2. UNCHANGED <<initialized, current, readyQueue, sleepList, phase, inWindow, cpu, loaded, rsp0,
                  active, exited, creator>>
  BY DEF join, cpuVars, procVars
<1>3. Alive' = Alive /\ Created' = Created /\ Sleepers' = Sleepers
  BY <1>2 DEF Alive, Created, Sleepers
<1>4. CASE target \in DOMAIN joinMap
  <2> DEFINE q == Append(joinMap[target], t)
  <2>1. joinMap' = [joinMap EXCEPT ![target] = q] /\ blocking' = "poll" /\ panic' = panic
    BY <1>4 DEF join
  <2>2. /\ joinMap[target] \in Seq(Threads) /\ IsInjective(joinMap[target])
        /\ t \notin ToSet(joinMap[target])
    BY <1>1, <1>4, SetsOfLists DEF IInv, TypeOK, ListsDisjoint, Waiting
  <2>3. q \in Seq(Threads) /\ ToSet(q) = ToSet(joinMap[target]) \cup {t} /\ IsInjective(q)
    BY <2>2, AppendDistinct
  <2> HIDE DEF q
  <2>4. /\ DOMAIN joinMap' = DOMAIN joinMap /\ joinMap'[target] = q
        /\ \A u \in DOMAIN joinMap : u # target => joinMap'[u] = joinMap[u]
    BY <1>4, <2>1
  <2>5. \A x : x \in Joiners' <=> \E u \in DOMAIN joinMap' : x \in ToSet(joinMap'[u])
    BY DEF Joiners
  <2>6. \A x : x \in Joiners <=> \E u \in DOMAIN joinMap : x \in ToSet(joinMap[u])
    BY DEF Joiners
  <2>7. Joiners' = Joiners \cup {t}
    BY <1>4, <2>3, <2>4, <2>5, <2>6
  <2>8. TypeOK'
    <3>1. \A u \in DOMAIN joinMap' : joinMap'[u] \in Seq(Threads)
      BY <2>3, <2>4 DEF IInv, TypeOK
    <3> QED
      BY <1>2, <2>1, <2>4, <3>1 DEF IInv, TypeOK
  <2>9. ListsDisjoint'
    <3>1. \A u \in DOMAIN joinMap' : IsInjective(joinMap'[u])
      BY <2>3, <2>4 DEF IInv, ListsDisjoint
    <3>2. \A u, v \in DOMAIN joinMap' : u # v => ToSet(joinMap'[u]) \cap ToSet(joinMap'[v]) = {}
      <4>1. \A u \in DOMAIN joinMap : t \notin ToSet(joinMap[u])
        BY <1>1, <2>6 DEF Waiting
      <4> QED
        BY <2>3, <2>4, <4>1 DEF IInv, ListsDisjoint
    <3>3. t \notin ToSet(readyQueue) /\ t \notin Sleepers
      BY <1>1 DEF Waiting
    <3> QED
      BY <1>2, <1>3, <2>7, <3>1, <3>2, <3>3 DEF IInv, ListsDisjoint
  <2>10. Waiting' = Waiting \cup {t}
    BY <1>2, <1>3, <2>7 DEF Waiting
  <2>11. ListsHoldTheLiving'
    BY <1>1, <1>2, <1>3, <2>1, <2>10 DEF ListsHoldTheLiving
  <2>12. ListsNameTheLiving' /\ IsInjective(active')
    BY <1>2, <2>1, <2>4 DEF IInv, ListsNameTheLiving
  <2>13. Booting'
    BY <1>1, <1>2, <1>3 DEF IInv, Booting
  <2>14. OnTheCpu'
    BY <1>1, <1>2 DEF OnTheCpu
  <2> QED
    BY <2>8, <2>9, <2>11, <2>12, <2>13, <2>14 DEF IInv
<1>5. CASE target \notin DOMAIN joinMap
  <2>1. UNCHANGED <<joinMap, blocking>> /\ panic' = "join"
    BY <1>5 DEF join
  <2>2. ListsDisjoint' /\ Waiting' = Waiting
    BY <1>2, <2>1, SameLists DEF IInv
  <2>3. TypeOK'
    BY <1>2, <2>1 DEF IInv, TypeOK
  <2>4. ListsHoldTheLiving' /\ ListsNameTheLiving' /\ IsInjective(active') /\ OnTheCpu'
    BY <1>2, <1>3, <2>1, <2>2 DEF IInv, ListsHoldTheLiving, ListsNameTheLiving, OnTheCpu
  <2>5. Booting'
    BY <1>1, <1>2, <1>3 DEF IInv, Booting
  <2> QED
    BY <2>2, <2>3, <2>4, <2>5 DEF IInv
<1> QED
  BY <1>4, <1>5

\* exit() readies the joiners and ends it.
LEMMA ExitStep ==
  ASSUME IInv, NEW t \in Threads, exit(t)
  PROVE  IInv'
<1>1. /\ t = current /\ blocking = "no" /\ t # NoThread /\ t \in Alive
      /\ t \notin Waiting /\ Waiting = Alive \ {t} /\ phase[t] = "running"
      /\ cpu = t /\ loaded = process(t) /\ rsp0 = t
  BY Caller DEF exit
<1>2. t \in DOMAIN joinMap
  BY <1>1 DEF IInv, ListsNameTheLiving
<1> DEFINE q == pushAll_front(readyQueue, joinMap[t])
<1>3. /\ readyQueue' = q /\ phase' = [phase EXCEPT ![t] = "exited"] /\ blocking' = "poll"
      /\ joinMap' = [u \in DOMAIN joinMap \ {t} |-> joinMap[u]]
      /\ IF t \in UserThreads THEN process_exit(t) ELSE UNCHANGED <<active, exited>>
      /\ UNCHANGED <<initialized, current, sleepList, inWindow, cpu, loaded, rsp0, creator, panic>>
  BY <1>2 DEF exit, WakeJoiners, RemoveEntry, process, process_exit, cpuVars, procVars
<1>4. /\ phase \in [Threads -> Phases] /\ phase' \in [Threads -> Phases]
      /\ phase'[t] = "exited" /\ \A u \in Threads \ {t} : phase'[u] = phase[u]
  BY <1>3 DEF IInv, TypeOK, Phases
<1>5. Alive' = Alive \ {t} /\ Created' = Created /\ Sleepers' = Sleepers
  BY <1>1, <1>3, <1>4 DEF Alive, Created, Sleepers
<1>6. /\ DOMAIN joinMap' = DOMAIN joinMap \ {t}
      /\ \A u \in DOMAIN joinMap' : joinMap'[u] = joinMap[u]
  BY <1>3
<1>7. /\ \A x : x \in Joiners' <=> \E u \in DOMAIN joinMap' : x \in ToSet(joinMap'[u])
      /\ \A x : x \in Joiners <=> \E u \in DOMAIN joinMap : x \in ToSet(joinMap[u])
  BY DEF Joiners
<1>8. /\ \A u, v \in DOMAIN joinMap : u # v => ToSet(joinMap[u]) \cap ToSet(joinMap[v]) = {}
      /\ ToSet(readyQueue) \cap Joiners = {} /\ Sleepers \cap Joiners = {}
      /\ ToSet(readyQueue) \cap Sleepers = {}
  BY DEF IInv, ListsDisjoint
<1>9. Joiners' \cup ToSet(joinMap[t]) = Joiners /\ Joiners' \cap ToSet(joinMap[t]) = {}
  <2>1. Joiners' \cap ToSet(joinMap[t]) = {}
    BY <1>2, <1>6, <1>7, <1>8
  <2>2. Joiners' \cup ToSet(joinMap[t]) = Joiners
    BY <1>2, <1>6, <1>7
  <2> QED
    BY <2>1, <2>2
<1>10. q \in Seq(Threads) /\ ToSet(q) = ToSet(readyQueue) \cup ToSet(joinMap[t]) /\ IsInjective(q)
  <2>1. /\ joinMap[t] \in Seq(Threads) /\ IsInjective(joinMap[t])
        /\ readyQueue \in Seq(Threads) /\ IsInjective(readyQueue)
        /\ ToSet(readyQueue) \cap ToSet(joinMap[t]) = {}
    BY <1>2, <1>8, <1>9 DEF IInv, TypeOK, ListsDisjoint
  <2> QED
    BY <2>1, PushAllDistinct
<1> HIDE DEF q
<1>11. ListsDisjoint'
  <2>1. IsInjective(ThreadsOf(sleepList'))
    BY <1>3 DEF IInv, ListsDisjoint
  <2>2. /\ \A u \in DOMAIN joinMap' : IsInjective(joinMap'[u])
        /\ \A u, v \in DOMAIN joinMap' : u # v => ToSet(joinMap'[u]) \cap ToSet(joinMap'[v]) = {}
    BY <1>6 DEF IInv, ListsDisjoint
  <2>3. /\ ToSet(q) \cap Sleepers' = {} /\ ToSet(q) \cap Joiners' = {}
        /\ Sleepers' \cap Joiners' = {}
    BY <1>5, <1>8, <1>9, <1>10
  <2> QED
    BY <1>3, <1>10, <2>1, <2>2, <2>3 DEF ListsDisjoint
<1>12. Waiting' = Waiting
  BY <1>3, <1>5, <1>9, <1>10 DEF Waiting
<1>13. ListsHoldTheLiving'
  BY <1>1, <1>3, <1>5, <1>12 DEF ListsHoldTheLiving
<1>14. /\ active' \in Seq(All) /\ IsInjective(active') /\ active'[1] = KernelProcess
       /\ ToSet(active') = ToSet(active) \ {t}
       /\ exited' \subseteq All /\ (t \in UserThreads => t \in exited')
  <2>1. /\ active \in Seq(All) /\ IsInjective(active) /\ active[1] = KernelProcess
        /\ ToSet(active) = {KernelProcess} \cup {u \in UserThreads : phase[u] \notin {"new", "exited"}}
        /\ exited \subseteq All
    BY DEF IInv, TypeOK, ListsNameTheLiving, All
  <2>2. CASE t \in UserThreads
    <3> DEFINE i == CHOOSE j \in DOMAIN active : active[j] = t
               r == swap_remove(active, i)
    <3>1. active' = r /\ exited' = exited \cup {t}
      BY <1>3, <2>2 DEF process_exit
    <3>2. t \in ToSet(active) /\ t # KernelProcess
      BY <1>1, <2>1, <2>2, SchedulerAssumption DEF SchedulerAssumption
    <3>3. \E j \in DOMAIN active : active[j] = t
      BY <3>2 DEF ToSet
    <3>4. i \in DOMAIN active /\ active[i] = t
      BY <3>3
    <3> HIDE DEF i
    <3>5. i # 1
      BY <2>1, <3>2, <3>4
    <3>6. r \in Seq(All) /\ IsInjective(r) /\ r[1] = active[1] /\ ToSet(r) = ToSet(active) \ {active[i]}
      BY <2>1, <3>4, <3>5, SwapRemove
    <3>7. exited' \subseteq All
      BY <2>1, <2>2, <3>1 DEF All
    <3> QED
      BY <2>1, <3>1, <3>4, <3>6, <3>7
  <2>3. CASE t \notin UserThreads
    <3>1. t # KernelProcess
      BY SchedulerAssumption DEF SchedulerAssumption
    <3> QED
      BY <1>3, <2>1, <2>3, <3>1
  <2> QED
    BY <2>2, <2>3
<1>15. ListsNameTheLiving'
  <2>1. DOMAIN joinMap' = {u \in Threads : phase'[u] \notin {"new", "loading", "exited"}}
    BY <1>4, <1>6 DEF IInv, ListsNameTheLiving
  <2>2. ToSet(active') = {KernelProcess} \cup {u \in UserThreads : phase'[u] \notin {"new", "exited"}}
    BY <1>4, <1>14, SchedulerAssumption DEF IInv, ListsNameTheLiving, SchedulerAssumption
  <2> QED
    BY <1>3, <1>14, <2>1, <2>2 DEF IInv, ListsNameTheLiving
<1>16. TypeOK'
  <2>1. DOMAIN joinMap' \subseteq Threads /\ \A u \in DOMAIN joinMap' : joinMap'[u] \in Seq(Threads)
    BY <1>6 DEF IInv, TypeOK
  <2> QED
    BY <1>3, <1>4, <1>10, <1>14, <2>1 DEF IInv, TypeOK, All
<1>17. Booting'
  BY <1>1, <1>3, <1>5 DEF IInv, Booting
<1>18. OnTheCpu'
  BY <1>1, <1>3, <1>4, <1>14 DEF OnTheCpu
<1> QED
  BY <1>11, <1>13, <1>14, <1>15, <1>16, <1>17, <1>18 DEF IInv

(***************************************************************************)
(* Every step of the scheduler keeps the invariant.                        *)
(***************************************************************************)
THEOREM Inductive == Spec => []IInv
<1>1. IInv /\ Next => IInv'
  BY BootReadyStep, ApplicationStartStep, ApplicationReadyStep, StartStep, StepsOfTheCurrent, SleepStep, JoinStep, ExitStep,
     BlockPollStep, BlockPopStep, BlockSwitchStep, SwitchThreadStep, TickStep DEF Next
<1>2. IInv /\ UNCHANGED vars => IInv'
  <2> SUFFICES ASSUME IInv, UNCHANGED vars PROVE IInv'
    OBVIOUS
  <2>1. ListsDisjoint' /\ Waiting' = Waiting /\ Sleepers' = Sleepers /\ Joiners' = Joiners
    BY SameLists DEF IInv, vars
  <2>2. Alive' = Alive /\ Created' = Created
    BY DEF Alive, Created, vars
  <2>3. TypeOK' /\ ListsNameTheLiving' /\ IsInjective(active')
    BY DEF IInv, TypeOK, ListsNameTheLiving, vars
  <2>4. ListsHoldTheLiving' /\ OnTheCpu'
    BY <2>1, <2>2 DEF IInv, ListsHoldTheLiving, OnTheCpu, vars
  <2>5. Booting'
    BY <2>1, <2>2 DEF IInv, Booting, vars
  <2> QED
    BY <2>1, <2>3, <2>4, <2>5 DEF IInv
<1>3. IInv /\ [Next]_vars => IInv'
  BY <1>1, <1>2
<1> QED
  BY InitIInv, <1>3, PTL DEF Spec

-----------------------------------------------------------------------------
\* The places of one thread, list by list.
LEMMA PlacesOfThread ==
  ASSUME IInv, NEW t \in Threads
  PROVE  /\ t \notin Waiting => Places(t) = {}
         /\ t \in Waiting => \E p : Places(t) = {p}
<1> DEFINE inReady == {<<"ready", i>> : i \in {j \in DOMAIN readyQueue : readyQueue[j] = t}}
           inSleep == {<<"asleep", i>> : i \in {j \in DOMAIN sleepList : sleepList[j].thread = t}}
           inJoin == UNION {{<<u, i>> : i \in {j \in DOMAIN joinMap[u] : joinMap[u][j] = t}} :
                            u \in DOMAIN joinMap}
<1>1. Places(t) = inReady \cup inSleep \cup inJoin
  BY DEF Places
<1>2. t \notin ToSet(readyQueue) => inReady = {}
  BY DEF ToSet
<1>3. t \notin Sleepers => inSleep = {}
  BY DEF Sleepers
<1>4. \A x : x \in Joiners <=> \E u \in DOMAIN joinMap : x \in ToSet(joinMap[u])
  BY DEF Joiners
<1>5. t \notin Joiners => inJoin = {}
  BY <1>4 DEF ToSet
<1>6. ASSUME t \in ToSet(readyQueue) PROVE \E p : inReady = {p}
  <2>1. PICK i \in DOMAIN readyQueue : readyQueue[i] = t
    BY <1>6 DEF ToSet
  <2>2. \A j \in DOMAIN readyQueue : readyQueue[j] = t => j = i
    BY <2>1 DEF IInv, ListsDisjoint, IsInjective
  <2>3. inReady = {<<"ready", i>>}
    BY <2>1, <2>2
  <2> QED
    BY <2>3
<1>7. ASSUME t \in Sleepers PROVE \E p : inSleep = {p}
  <2>1. PICK i \in DOMAIN sleepList : sleepList[i].thread = t
    BY <1>7 DEF Sleepers
  <2>2. \A j \in DOMAIN sleepList : sleepList[j].thread = t => j = i
    BY <2>1 DEF IInv, ListsDisjoint, IsInjective, ThreadsOf
  <2>3. inSleep = {<<"asleep", i>>}
    BY <2>1, <2>2
  <2> QED
    BY <2>3
<1>8. ASSUME t \in Joiners PROVE \E p : inJoin = {p}
  <2>1. PICK u \in DOMAIN joinMap : t \in ToSet(joinMap[u])
    BY <1>4, <1>8
  <2>2. PICK i \in DOMAIN joinMap[u] : joinMap[u][i] = t
    BY <2>1 DEF ToSet
  <2>3. \A j \in DOMAIN joinMap[u] : joinMap[u][j] = t => j = i
    BY <2>2 DEF IInv, ListsDisjoint, IsInjective
  <2>4. \A v \in DOMAIN joinMap : v # u => t \notin ToSet(joinMap[v])
    BY <2>1 DEF IInv, ListsDisjoint
  <2>5. \A v \in DOMAIN joinMap : \A j \in DOMAIN joinMap[v] : joinMap[v][j] = t => v = u /\ j = i
    BY <2>3, <2>4 DEF ToSet
  <2>6. inJoin = {<<u, i>>}
    BY <2>2, <2>5
  <2> QED
    BY <2>6
<1> HIDE DEF inReady, inSleep, inJoin
<1>9. /\ ToSet(readyQueue) \cap Sleepers = {} /\ ToSet(readyQueue) \cap Joiners = {}
      /\ Sleepers \cap Joiners = {}
  BY DEF IInv, ListsDisjoint
<1>10. t \notin Waiting => Places(t) = {}
  BY <1>1, <1>2, <1>3, <1>5 DEF Waiting
<1>11. CASE t \in ToSet(readyQueue)
  BY <1>1, <1>3, <1>5, <1>6, <1>9, <1>10, <1>11
<1>12. CASE t \in Sleepers
  BY <1>1, <1>2, <1>5, <1>7, <1>9, <1>10, <1>12
<1>13. CASE t \in Joiners
  BY <1>1, <1>2, <1>3, <1>8, <1>9, <1>10, <1>13
<1> QED
  BY <1>10, <1>11, <1>12, <1>13 DEF Waiting

\* The lists are disjoint and without duplicates.
LEMMA IInvOnePlace == IInv => EachThreadInOnePlace
<1> SUFFICES ASSUME IInv PROVE EachThreadInOnePlace
  OBVIOUS
<1>1. ASSUME NEW t \in Threads
      PROVE  Cardinality(Places(t)) =
               IF t \in Alive /\ (t # current \/ blocking = "poll") THEN 1 ELSE 0
  <2>1. t \in Waiting <=> t \in Alive /\ (t # current \/ blocking = "poll")
    BY DEF IInv, ListsHoldTheLiving
  <2>2. CASE t \in Waiting
    <3>1. PICK p : Places(t) = {p}
      BY <2>2, PlacesOfThread
    <3>2. Cardinality(Places(t)) = 1
      BY <3>1, FS_Singleton
    <3> QED
      BY <2>1, <2>2, <3>2
  <2>3. CASE t \notin Waiting
    <3>1. Places(t) = {}
      BY <2>3, PlacesOfThread
    <3>2. Cardinality(Places(t)) = 0
      BY <3>1, FS_EmptySet
    <3> QED
      BY <2>1, <2>3, <3>2
  <2> QED
    BY <2>2, <2>3
<1> QED
  BY <1>1 DEF EachThreadInOnePlace, IInv

(***************************************************************************)
(* For any number of threads, in any order of their operations, a live     *)
(* thread that is not running is in exactly one place of exactly one of    *)
(* the scheduler's lists (scheduler.rs:75-210).                            *)
(***************************************************************************)
THEOREM OnePlace == Spec => []EachThreadInOnePlace
BY Inductive, IInvOnePlace, PTL

(***************************************************************************)
(* For any number of threads starting others at the same time: the join    *)
(* map names the threads readied and not exited, the process list also     *)
(* those still being loaded; exit() always finds the caller's join list,   *)
(* and active_processes[0] stays the kernel process (scheduler.rs:75-82,   *)
(* 148-154, process.rs:46-60).                                             *)
(***************************************************************************)
THEOREM LivingListed == Spec => []ListsNameTheLiving
<1>1. IInv => ListsNameTheLiving
  BY DEF IInv
<1> QED
  BY Inductive, <1>1, PTL

\* The current thread is the one whose context is loaded.
LEMMA IInvCpuContext == IInv => CpuContextMatches
<1> SUFFICES ASSUME IInv PROVE CpuContextMatches
  OBVIOUS
<1>1. current # NoThread /\ blocking # "switch" =>
        /\ cpu = current /\ loaded = process(current)
        /\ phase[current] \in {"kind", "stack", "running", "launching"} => rsp0 = current
  BY DEF IInv, OnTheCpu
<1>2. KernelProcess \in ToSet(active)
  BY DEF IInv, ListsNameTheLiving
<1>3. ASSUME current = NoThread PROVE ProcessAlive(loaded)
  BY <1>2, <1>3 DEF IInv, Booting, ProcessAlive
<1>4. ASSUME current # NoThread, blocking # "switch" PROVE ProcessAlive(loaded)
  BY <1>1, <1>4 DEF IInv, TypeOK, ProcessAlive
<1>5. ASSUME blocking = "switch" PROVE ProcessAlive(loaded)
  <2>1. /\ cpu \in Threads /\ loaded = process(cpu) /\ phase[cpu] # "new"
        /\ phase[cpu] = "exited" /\ cpu \in UserThreads => cpu \in exited
    BY <1>5 DEF IInv, OnTheCpu
  <2>2. loaded \in ToSet(active) \cup exited
    <3>1. CASE cpu \notin UserThreads
      BY <1>2, <2>1, <3>1 DEF process
    <3>2. CASE cpu \in UserThreads /\ phase[cpu] = "exited"
      BY <2>1, <3>2 DEF process
    <3>3. CASE cpu \in UserThreads /\ phase[cpu] # "exited"
      BY <2>1, <3>3 DEF process, IInv, ListsNameTheLiving
    <3> QED
      BY <3>1, <3>2, <3>3
  <2> QED
    BY <2>2 DEF ProcessAlive
<1>6. ProcessAlive(loaded)
  BY <1>3, <1>4, <1>5
<1> QED
  BY <1>1, <1>6 DEF CpuContextMatches

(***************************************************************************)
(* CR3, the kernel stack and the TSS are those of the current thread       *)
(* between switches, and the page table in CR3 belongs to a process that   *)
(* exists, also while block() is about to leave an exited thread           *)
(* (scheduler.rs:157-190).                                                 *)
(***************************************************************************)
THEOREM CpuContext == Spec => []CpuContextMatches
BY Inductive, IInvCpuContext, PTL

-----------------------------------------------------------------------------
\* The threads of a queue that will be dequeued before t.
AheadIn(queue, t) == {queue[i] : i \in {j \in DOMAIN queue :
                        \E k \in DOMAIN queue : queue[k] = t /\ k < j}}

\* Threads put behind another do not get ahead of it.
LEMMA AheadConcat ==
  ASSUME NEW S, NEW ts \in Seq(S), NEW s \in Seq(S), NEW t, t \notin ToSet(ts)
  PROVE  AheadIn(ts \o s, t) \subseteq AheadIn(s, t)
<1> DEFINE c == ts \o s
<1>1. /\ Len(ts) \in Nat /\ Len(s) \in Nat /\ Len(c) = Len(ts) + Len(s)
      /\ DOMAIN ts = 1 .. Len(ts) /\ DOMAIN s = 1 .. Len(s) /\ DOMAIN c = 1 .. Len(c)
      /\ \A i \in 1 .. Len(c) : c[i] = IF i <= Len(ts) THEN ts[i] ELSE s[i - Len(ts)]
  OBVIOUS
<1> HIDE DEF c
<1> SUFFICES ASSUME NEW j \in 1 .. Len(c), NEW k \in 1 .. Len(c), c[k] = t, k < j
             PROVE  c[j] \in AheadIn(s, t)
  BY <1>1 DEF AheadIn, c
<1>2. ~(k <= Len(ts))
  BY <1>1 DEF ToSet
<1> DEFINE m == k - Len(ts)
           n == j - Len(ts)
<1>3. m \in 1 .. Len(s) /\ n \in 1 .. Len(s) /\ m < n /\ ~(j <= Len(ts))
  BY <1>1, <1>2
<1>4. s[m] = t /\ s[n] = c[j]
  BY <1>1, <1>2, <1>3
<1> HIDE DEF m, n
<1> QED
  BY <1>1, <1>3, <1>4 DEF AheadIn

\* Taking the next thread puts nobody ahead of another.
LEMMA AheadFront ==
  ASSUME NEW S, NEW s \in Seq(S), s # <<>>, NEW t
  PROVE  AheadIn(Front(s), t) \subseteq AheadIn(s, t)
<1> DEFINE f == Front(s)
<1>1. Len(s) \in Nat \ {0} /\ DOMAIN s = 1 .. Len(s)
  OBVIOUS
<1>2. f \in Seq(S) /\ Len(f) = Len(s) - 1 /\ \A i \in 1 .. Len(s) - 1 : f[i] = s[i]
  BY <1>1 DEF Front
<1>3. DOMAIN f = 1 .. Len(s) - 1
  BY <1>1, <1>2
<1> HIDE DEF f
<1>4. DOMAIN f \subseteq DOMAIN s /\ \A i \in DOMAIN f : f[i] = s[i]
  BY <1>1, <1>2, <1>3
<1>5. AheadIn(f, t) \subseteq AheadIn(s, t)
  BY <1>4 DEF AheadIn
<1> QED
  BY <1>5 DEF f

\* Threads enter the queue behind all the others: in front, where the last
\* to be dequeued is.
LEMMA AheadPush ==
  ASSUME NEW s \in Seq(Threads), NEW ts \in Seq(Threads), NEW x \in Threads, NEW t
  PROVE  /\ t # x => AheadIn(push_front(s, x), t) \subseteq AheadIn(s, t)
         /\ t \notin ToSet(ts) => AheadIn(pushAll_front(s, ts), t) \subseteq AheadIn(s, t)
<1>1. <<x>> \in Seq(Threads) /\ ToSet(<<x>>) = {x}
  BY SingletonSeq
<1>2. Reverse(ts) \in Seq(Threads) /\ ToSet(Reverse(ts)) = ToSet(ts)
  BY ReverseDistinct
<1>3. t # x => AheadIn(<<x>> \o s, t) \subseteq AheadIn(s, t)
  BY <1>1, AheadConcat
<1>4. t \notin ToSet(ts) => AheadIn(Reverse(ts) \o s, t) \subseteq AheadIn(s, t)
  BY <1>2, AheadConcat
<1> QED
  BY <1>3, <1>4 DEF push_front, pushAll_front

\* Sleepers that are woken go behind those who wait.
LEMMA AheadExpired ==
  ASSUME IInv, NEW t \in ToSet(readyQueue)
  PROVE  AheadIn(WithExpired(readyQueue, sleepList), t) \subseteq AheadIn(readyQueue, t)
<1> DEFINE woken == ThreadsOf(Expired(sleepList))
<1>1. /\ readyQueue \in Seq(Threads) /\ sleepList \in Seq(Entry)
      /\ IsInjective(ThreadsOf(sleepList)) /\ Sleepers = ToSet(ThreadsOf(sleepList))
      /\ t \notin Sleepers /\ t \in Threads
  BY SetsOfLists DEF IInv, TypeOK, Entry, ListsDisjoint
<1>2. woken \in Seq(Threads) /\ ToSet(woken) \subseteq Sleepers
  BY <1>1, SleepListSplit, SchedulerAssumption DEF SchedulerAssumption
<1> HIDE DEF woken
<1>3. AheadIn(pushAll_front(readyQueue, woken), t) \subseteq AheadIn(readyQueue, t)
  BY <1>1, <1>2, AheadPush
<1> QED
  BY <1>3 DEF WithExpired, woken

\* No step puts a thread ahead of one that waits already.
LEMMA StepKeepsOrder ==
  ASSUME IInv, Next, NEW t \in ToSet(readyQueue), t \in ToSet(readyQueue')
  PROVE  AheadIn(readyQueue', t) \subseteq AheadIn(readyQueue, t)
<1>1. readyQueue \in Seq(Threads) /\ t \in Threads /\ t \in Waiting
  BY SetsOfLists DEF IInv, TypeOK, Waiting
<1>2. CASE UNCHANGED readyQueue
  BY <1>2
<1>3. ASSUME NEW u \in Threads, ready(u), phase[u] \in {"new", "loading"}
      PROVE  AheadIn(readyQueue', t) \subseteq AheadIn(readyQueue, t)
  <2>1. t # u
    BY <1>1, <1>3 DEF ready, IInv, ListsHoldTheLiving, Alive
  <2>2. readyQueue' = push_front(readyQueue, u)
    BY <1>3 DEF ready
  <2> QED
    BY <1>1, <2>1, <2>2, AheadPush
<1>4. CASE boot_ready
  <2>1. Cardinality(Created) \in Nat
    BY FS_CardinalityType DEF IInv, Booting
  <2>2. BootThreads[Cardinality(Created) + 1] \in Threads
    BY <1>4, <2>1, SchedulerAssumption DEF boot_ready, SchedulerAssumption
  <2> QED
    BY <1>3, <1>4, <2>2 DEF boot_ready
<1>5. CASE \E u \in Threads : application_ready(u)
  BY <1>3, <1>5 DEF application_ready
<1>6. CASE start
  <2>1. readyQueue # <<>>
    BY <1>1, SeqElements
  <2> QED
    BY <1>1, <1>6, <2>1, AheadFront DEF start
<1>7. CASE block_pop
  BY <1>1, <1>7, AheadFront DEF block_pop
<1>8. CASE block_poll
  BY <1>8, AheadExpired DEF block_poll
<1>9. ASSUME NEW u \in Threads, exit(u)
      PROVE  AheadIn(readyQueue', t) \subseteq AheadIn(readyQueue, t)
  <2>1. CASE u \in DOMAIN joinMap
    <3>1. joinMap[u] \in Seq(Threads) /\ t \notin ToSet(joinMap[u])
      BY <2>1, SetsOfLists DEF IInv, TypeOK, ListsDisjoint
    <3>2. readyQueue' = pushAll_front(readyQueue, joinMap[u])
      BY <1>9, <2>1 DEF exit, WakeJoiners
    <3> QED
      BY <1>1, <3>1, <3>2, AheadPush
  <2>2. CASE u \notin DOMAIN joinMap
    BY <1>9, <2>2 DEF exit
  <2> QED
    BY <2>1, <2>2
<1>10. CASE switch_thread
  <2> DEFINE queue == WithExpired(readyQueue, sleepList)
  <2>1. AheadIn(queue, t) \subseteq AheadIn(readyQueue, t) /\ queue \in Seq(Threads)
    BY AheadExpired, CheckSleepList
  <2>2. \/ readyQueue' = queue
        \/ queue # <<>> /\ readyQueue' = Front(queue)
        \/ queue # <<>> /\ readyQueue' = push_front(Front(queue), current)
    BY <1>10 DEF switch_thread
  <2>3. /\ current \in Threads /\ t # current
    BY <1>1, <1>10 DEF switch_thread, IInv, ListsHoldTheLiving, Alive
  <2> HIDE DEF queue
  <2>4. ASSUME queue # <<>> PROVE /\ Front(queue) \in Seq(Threads)
                                  /\ AheadIn(Front(queue), t) \subseteq AheadIn(queue, t)
    BY <2>1, <2>4, FrontDistinct, AheadFront
  <2>5. ASSUME queue # <<>>
        PROVE  AheadIn(push_front(Front(queue), current), t) \subseteq AheadIn(Front(queue), t)
    BY <2>3, <2>4, <2>5, AheadPush
  <2> QED
    BY <2>1, <2>2, <2>4, <2>5
<1>11. UNCHANGED readyQueue \/ boot_ready \/ (\E u \in Threads : application_ready(u)) \/ start
       \/ block_pop \/ block_poll \/ (\E u \in Threads : exit(u)) \/ switch_thread
  BY DEF Next, application_start, set_init, kickoff_lock, kickoff_unlock, sleep, join, drop_exited_process,
         block_switch, tick, schedVars
<1> QED
  BY <1>2, <1>4, <1>5, <1>6, <1>7, <1>8, <1>9, <1>10, <1>11

(***************************************************************************)
(* The ready queue is first in, first out through every operation: no      *)
(* wakeup, exit, preemption or new thread puts a thread ahead of one that  *)
(* already waits (scheduler.rs:75-210).                                    *)
(***************************************************************************)
THEOREM QueueIsFair == Spec => NoOvertaking
<1> DEFINE A == \A t \in ToSet(readyQueue) :
                  t \in ToSet(readyQueue') => Ahead(t)' \subseteq Ahead(t)
<1>1. IInv /\ Next => A
  <2> SUFFICES ASSUME IInv, Next, NEW t \in ToSet(readyQueue), t \in ToSet(readyQueue')
               PROVE  Ahead(t)' \subseteq Ahead(t)
    OBVIOUS
  <2>1. AheadIn(readyQueue', t) \subseteq AheadIn(readyQueue, t)
    BY StepKeepsOrder
  <2> QED
    BY <2>1 DEF AheadIn, Ahead
<1>2. IInv /\ [Next]_vars => [A]_vars
  BY <1>1
<1> QED
  BY Inductive, <1>2, PTL DEF Spec, NoOvertaking

-----------------------------------------------------------------------------
(***************************************************************************)
(* The refinement.  Under the invariant the state of a thread is decided   *)
(* by the one list it is in, and the thread it waits for is unique.        *)
(***************************************************************************)
\* A thread that is being loaded does not exist for the contract.
PhaseStatus(ph) == IF ph = "loading" THEN "new" ELSE ph

StatusFacts ==
  \A t \in Threads :
    /\ t \notin Alive => StatusOf(t) = PhaseStatus(phase[t]) /\ t \notin Waiting
    /\ t \in Sleepers => StatusOf(t) = "asleep" /\ t \notin ToSet(readyQueue) \cup Joiners
    /\ t \in Joiners => StatusOf(t) = "joining" /\ t \notin ToSet(readyQueue)
    /\ t \in ToSet(readyQueue) => StatusOf(t) = "ready"
    /\ t \in Alive /\ t \notin Waiting => StatusOf(t) = "running" /\ t = current

\* The status of a thread follows from the list it is in.
LEMMA StatusByList == IInv => StatusFacts
<1> SUFFICES ASSUME IInv, NEW t \in Threads
             PROVE  /\ t \notin Alive => StatusOf(t) = PhaseStatus(phase[t]) /\ t \notin Waiting
                    /\ t \in Sleepers => StatusOf(t) = "asleep" /\ t \notin ToSet(readyQueue) \cup Joiners
                    /\ t \in Joiners => StatusOf(t) = "joining" /\ t \notin ToSet(readyQueue)
                    /\ t \in ToSet(readyQueue) => StatusOf(t) = "ready"
                    /\ t \in Alive /\ t \notin Waiting => StatusOf(t) = "running" /\ t = current
  BY DEF StatusFacts
<1>1. /\ ToSet(readyQueue) \cap Sleepers = {} /\ ToSet(readyQueue) \cap Joiners = {}
      /\ Sleepers \cap Joiners = {} /\ Waiting = ToSet(readyQueue) \cup Sleepers \cup Joiners
      /\ t \in Waiting => t \in Alive
      /\ t \in Alive /\ t \notin Waiting => t = current
  BY DEF IInv, ListsDisjoint, ListsHoldTheLiving, Waiting
<1>2. t \in Alive <=> phase[t] \notin {"new", "loading", "exited", "lost"}
  BY DEF Alive
<1>3. CASE t \notin Alive
  BY <1>1, <1>2, <1>3 DEF StatusOf, PhaseStatus
<1>4. CASE t \in Sleepers
  BY <1>1, <1>2, <1>4 DEF StatusOf
<1>5. CASE t \in Joiners
  BY <1>1, <1>2, <1>5 DEF StatusOf
<1>6. CASE t \in ToSet(readyQueue)
  BY <1>1, <1>2, <1>6 DEF StatusOf
<1>7. CASE t \in Alive /\ t \notin Waiting
  BY <1>1, <1>2, <1>7 DEF StatusOf
<1> QED
  BY <1>1, <1>3, <1>4, <1>5, <1>6, <1>7

WaitsForFacts ==
  \A t \in Threads :
    /\ WaitsFor(t) \in Threads <=> t \in Joiners
    /\ WaitsFor(t) \in Threads \cup {NoThread}
    /\ WaitsFor(t) \in Threads => WaitsFor(t) \in DOMAIN joinMap /\ t \in ToSet(joinMap[WaitsFor(t)])
    /\ \A u \in DOMAIN joinMap : t \in ToSet(joinMap[u]) => WaitsFor(t) = u

\* A joiner waits for exactly one thread.
LEMMA WaitsForOne == IInv => WaitsForFacts
<1> SUFFICES ASSUME IInv, NEW t \in Threads
             PROVE  /\ WaitsFor(t) \in Threads <=> t \in Joiners
                    /\ WaitsFor(t) \in Threads \cup {NoThread}
                    /\ WaitsFor(t) \in Threads => /\ WaitsFor(t) \in DOMAIN joinMap
                                                  /\ t \in ToSet(joinMap[WaitsFor(t)])
                    /\ \A u \in DOMAIN joinMap : t \in ToSet(joinMap[u]) => WaitsFor(t) = u
  BY DEF WaitsForFacts
<1>1. \A u : u \in JoinedBy(t) <=> u \in DOMAIN joinMap /\ t \in ToSet(joinMap[u])
  BY DEF JoinedBy
<1>2. t \in Joiners <=> JoinedBy(t) # {}
  BY <1>1 DEF Joiners
<1>3. \A u, v \in JoinedBy(t) : u = v
  BY <1>1 DEF IInv, ListsDisjoint
<1>4. JoinedBy(t) \subseteq Threads /\ NoThread \notin Threads
  BY <1>1, SchedulerAssumption DEF IInv, TypeOK, SchedulerAssumption
<1>5. CASE JoinedBy(t) = {}
  BY <1>1, <1>2, <1>4, <1>5 DEF WaitsFor
<1>6. CASE JoinedBy(t) # {}
  <2>1. WaitsFor(t) \in JoinedBy(t)
    BY <1>6 DEF WaitsFor
  <2> QED
    BY <1>1, <1>2, <1>3, <1>4, <2>1
<1> QED
  BY <1>5, <1>6

Edge(a, b) == a = b \/ <<a, b>> \in Life!Edges

\* Edges of the status and joiners that stay make an abstract step.
LEMMA AbstractStep ==
  ASSUME IInv, IInv',
         \A t \in Threads : Edge(StatusOf(t), StatusOf(t)'),
         \A u \in DOMAIN joinMap : \A t \in ToSet(joinMap[u]) :
           \/ u \in DOMAIN joinMap' /\ t \in ToSet(joinMap'[u])
           \/ phase'[u] = "exited" /\ t \notin Joiners'
  PROVE  Life!LifeNext
<1>1. StatusFacts /\ WaitsForFacts
  BY StatusByList, WaitsForOne
<1>2. StatusFacts' /\ WaitsForFacts'
  BY StatusByList, WaitsForOne, PTL
<1>3. \A t \in Threads : StatusOf(t)' \in Life!Status
  BY DEF StatusOf, Life!Status
<1>4. Life!FollowsEdges
  BY <1>3 DEF Life!FollowsEdges, Edge
<1>5. Life!JoinsEndWithExit
  <2>1. ASSUME NEW t \in Threads
        PROVE  /\ WaitsFor(t)' \in Threads \cup {NoThread}
               /\ WaitsFor(t)' \in Threads <=> StatusOf(t)' = "joining"
               /\ \A u \in Threads : WaitsFor(t)' = u => StatusOf(u)' # "exited"
               /\ \A u \in Threads : WaitsFor(t) = u /\ WaitsFor(t)' # u =>
                    StatusOf(u)' = "exited" /\ WaitsFor(t)' = NoThread
    <3>1. WaitsFor(t)' \in Threads \cup {NoThread} /\ (WaitsFor(t)' \in Threads <=> t \in Joiners')
      BY <1>2 DEF WaitsForFacts
    <3>2. t \in Joiners' <=> StatusOf(t)' = "joining"
      <4>1. t \notin Alive' => StatusOf(t)' # "joining"
        BY <1>2 DEF StatusFacts, PhaseStatus, Alive
      <4> QED
        BY <1>2, <4>1 DEF StatusFacts, PhaseStatus, Waiting
    <3>3. ASSUME NEW u \in Threads, WaitsFor(t)' = u PROVE StatusOf(u)' # "exited"
      <4>1. u \in DOMAIN joinMap'
        BY <1>2, <3>3 DEF WaitsForFacts
      <4>2. phase'[u] # "exited"
        BY <4>1 DEF IInv, ListsNameTheLiving
      <4> QED
        BY <1>2, <4>2 DEF StatusFacts, PhaseStatus, Waiting
    <3>4. ASSUME NEW u \in Threads, WaitsFor(t) = u, WaitsFor(t)' # u
          PROVE  StatusOf(u)' = "exited" /\ WaitsFor(t)' = NoThread
      <4>1. u \in DOMAIN joinMap /\ t \in ToSet(joinMap[u])
        BY <1>1, <3>4 DEF WaitsForFacts
      <4>2. ~(u \in DOMAIN joinMap' /\ t \in ToSet(joinMap'[u]))
        BY <1>2, <3>4 DEF WaitsForFacts
      <4>3. phase'[u] = "exited" /\ t \notin Joiners'
        BY <4>1, <4>2
      <4>4. u \notin Alive'
        BY <4>3 DEF Alive
      <4> QED
        BY <1>2, <3>1, <4>3, <4>4 DEF StatusFacts, PhaseStatus
    <3> QED
      BY <3>1, <3>2, <3>3, <3>4
  <2> QED
    BY <2>1 DEF Life!JoinsEndWithExit
<1>6. Life!AtMostOneRuns'
  <2>1. \A t \in Threads : StatusOf(t)' = "running" => t = current'
    BY <1>2 DEF StatusFacts, PhaseStatus, Alive, Waiting
  <2> QED
    BY <2>1 DEF Life!AtMostOneRuns
<1> QED
  BY <1>4, <1>5, <1>6 DEF Life!LifeNext

\* A step that changes no thread's list and ends no thread's life.
LEMMA QuietStep ==
  ASSUME IInv, IInv', joinMap' = joinMap,
         ToSet(readyQueue') = ToSet(readyQueue), Sleepers' = Sleepers,
         \A t \in Threads : t \in Alive' \/ PhaseStatus(phase'[t]) = PhaseStatus(phase[t]), Alive' = Alive
  PROVE  Life!LifeNext
<1>1. StatusFacts
  BY StatusByList
<1>2. StatusFacts'
  BY StatusByList, PTL
<1>3. Joiners' = Joiners
  BY DEF Joiners
<1>4. ASSUME NEW t \in Threads PROVE StatusOf(t)' = StatusOf(t)
  BY <1>1, <1>2, <1>3 DEF StatusFacts, PhaseStatus, Waiting
<1> QED
  BY <1>4, AbstractStep DEF Edge

\* Steps that leave the lists alone.
LEMMA QuietSteps ==
  ASSUME IInv, IInv',
         \/ set_init \/ kickoff_lock \/ kickoff_unlock \/ drop_exited_process
         \/ block_switch \/ tick \/ (\E t \in Threads : application_start(t)) \/ UNCHANGED vars
  PROVE  Life!LifeNext
<1>1. UNCHANGED <<readyQueue, joinMap>>
  BY DEF set_init, kickoff_lock, kickoff_unlock, drop_exited_process, block_switch, tick,
         application_start, schedVars, vars
<1>2. Sleepers' = Sleepers
  <2>1. CASE tick
    <3>1. /\ DOMAIN sleepList' = DOMAIN sleepList
          /\ \A i \in DOMAIN sleepList : sleepList'[i] = [sleepList[i] EXCEPT !.left = IF @ > 0 THEN @ - 1 ELSE 0]
      BY <2>1 DEF tick
    <3>2. \A i \in DOMAIN sleepList : sleepList[i] \in Entry
      <4>1. sleepList \in Seq(Entry)
        BY DEF IInv, TypeOK, Entry
      <4> QED
        BY <4>1
    <3>3. \A i \in DOMAIN sleepList : sleepList'[i].thread = sleepList[i].thread
      BY <3>1, <3>2 DEF Entry
    <3> QED
      BY <3>1, <3>3 DEF Sleepers
  <2>2. CASE ~tick
    BY <2>2 DEF set_init, kickoff_lock, kickoff_unlock, drop_exited_process, block_switch,
                application_start, schedVars, vars, Sleepers
  <2> QED
    BY <2>1, <2>2
<1>3. \A t \in Threads : \/ phase'[t] = phase[t]
                         \/ phase'[t] \in LivePhases /\ phase[t] \in LivePhases
                         \/ phase'[t] = "loading" /\ phase[t] = "new"
  <2>1. phase \in [Threads -> Phases] /\ current \in Threads \cup {NoThread}
    BY DEF IInv, TypeOK
  <2>2. CASE set_init
    BY <2>1, <2>2 DEF set_init, Starts, LivePhases, Phases, Kickoff
  <2>3. CASE kickoff_unlock
    <3>1. /\ phase[current] \in Kickoff /\ current \in Threads
          /\ phase' = [phase EXCEPT ![current] = AfterKickoff(current, phase[current])]
      BY <2>1, <2>3 DEF kickoff_unlock, Starts
    <3>2. AfterKickoff(current, phase[current]) \in LivePhases /\ phase[current] \in LivePhases
      BY <3>1 DEF AfterKickoff, Kickoff, LivePhases, Phases
    <3> QED
      BY <2>1, <3>1, <3>2
  <2>4. CASE drop_exited_process
    BY <2>1, <2>4, SchedulerAssumption
       DEF drop_exited_process, LivePhases, Phases, Kickoff, SchedulerAssumption
  <2>5. CASE kickoff_lock \/ block_switch \/ tick \/ UNCHANGED vars
    BY <2>5 DEF kickoff_lock, block_switch, tick, vars
  <2>6. ASSUME NEW u \in Threads, application_start(u)
        PROVE  \A t \in Threads : \/ phase'[t] = phase[t]
                                  \/ phase'[t] \in LivePhases /\ phase[t] \in LivePhases
                                  \/ phase'[t] = "loading" /\ phase[t] = "new"
    BY <2>1, <2>6 DEF application_start, Runs, LivePhases, Phases, Kickoff
  <2> QED
    BY <2>2, <2>3, <2>4, <2>5, <2>6
<1>4. /\ Alive' = Alive
      /\ \A t \in Threads : t \in Alive' \/ PhaseStatus(phase'[t]) = PhaseStatus(phase[t])
  BY <1>3 DEF Alive, LivePhases, Phases, PhaseStatus
<1> QED
  BY <1>1, <1>2, <1>4, QuietStep

\* Threads that leave the lists by pop_back().
LEMMA PopSteps ==
  ASSUME IInv, IInv', start \/ block_pop
  PROVE  Life!LifeNext
<1>1. /\ readyQueue' = Front(readyQueue) /\ UNCHANGED <<sleepList, joinMap, phase>>
  BY DEF start, block_pop
<1>2. ToSet(readyQueue') \subseteq ToSet(readyQueue)
  <2>1. readyQueue \in Seq(Threads) /\ readyQueue' \in Seq(Threads)
    BY DEF IInv, TypeOK
  <2>2. readyQueue # <<>>
    BY StartFindsThread DEF block_pop
  <2> QED
    BY <1>1, <2>1, <2>2, FrontDistinct
<1>3. Sleepers' = Sleepers /\ Joiners' = Joiners /\ Alive' = Alive
  BY <1>1 DEF Sleepers, Joiners, Alive
<1>4. StatusFacts
  BY StatusByList
<1>5. StatusFacts'
  BY StatusByList, PTL
<1>6. ASSUME NEW t \in Threads PROVE Edge(StatusOf(t), StatusOf(t)')
  BY <1>1, <1>2, <1>3, <1>4, <1>5 DEF StatusFacts, PhaseStatus, Waiting, Edge, Life!Edges
<1> QED
  BY <1>1, <1>6, AbstractStep

\* ready() is the abstract creation of a thread.
LEMMA ReadyRefines ==
  ASSUME IInv, IInv', NEW u \in Threads, ready(u), phase[u] \in {"new", "loading"},
         phase'[u] = "entry", UNCHANGED sleepList,
         \A t \in Threads \ {u} : phase'[t] = phase[t] \/ (t \in Alive /\ t \in Alive')
  PROVE  Life!LifeNext
<1>1. readyQueue' = push_front(readyQueue, u)
  BY DEF ready
<1>2. u \notin DOMAIN joinMap
  BY DEF IInv, ListsNameTheLiving
<1>3. /\ DOMAIN joinMap' = DOMAIN joinMap \cup {u} /\ ToSet(joinMap'[u]) = {}
      /\ \A v \in DOMAIN joinMap : joinMap'[v] = joinMap[v]
  BY <1>2 DEF ready, ToSet
<1>4. Sleepers' = Sleepers /\ Joiners' = Joiners
  BY <1>1, <1>3 DEF Sleepers, Joiners
<1>5. ToSet(readyQueue') = ToSet(readyQueue) \cup {u}
  <2>1. readyQueue \in Seq(Threads)
    BY DEF IInv, TypeOK
  <2>2. ToSet(push_front(readyQueue, u)) = ToSet(readyQueue) \cup {u}
    BY <2>1, PushFrontDistinct
  <2> QED
    BY <1>1, <2>2
<1>6. \A t \in Threads \ {u} : /\ t \in Alive' <=> t \in Alive
                               /\ t \in Alive \/ phase'[t] = phase[t]
  BY DEF Alive
<1>7. StatusFacts
  BY StatusByList
<1>8. StatusFacts'
  BY StatusByList, PTL
<1>9. StatusOf(u) = "new" /\ StatusOf(u)' = "ready"
  BY <1>1, <1>5, <1>7, <1>8 DEF StatusFacts, PhaseStatus, Alive
<1>10. ASSUME NEW t \in Threads \ {u} PROVE StatusOf(t)' = StatusOf(t)
  BY <1>4, <1>5, <1>6, <1>7, <1>8 DEF StatusFacts, PhaseStatus, Waiting
<1>11. ASSUME NEW t \in Threads PROVE Edge(StatusOf(t), StatusOf(t)')
  BY <1>9, <1>10 DEF Edge, Life!Edges
<1> QED
  BY <1>3, <1>11, AbstractStep

\* sleep() is the abstract sleep.
LEMMA SleepRefines ==
  ASSUME IInv, IInv', NEW u \in Threads, NEW ticks \in 0 .. MaxSleep, sleep(u, ticks)
  PROVE  Life!LifeNext
<1>1. u \in Alive /\ u \notin Waiting /\ phase[u] = "running"
  BY Caller DEF sleep
<1>2. /\ UNCHANGED <<readyQueue, joinMap>>
      /\ sleepList' = Append(sleepList, [thread |-> u, left |-> ticks])
      /\ phase' = IF u = Cleanup THEN [phase EXCEPT ![u] = "cleaning"] ELSE phase
  BY DEF sleep
<1>3. Sleepers' = Sleepers \cup {u}
  <2>1. /\ sleepList \in Seq(Entry) /\ [thread |-> u, left |-> ticks] \in Entry
    BY DEF IInv, TypeOK, Entry
  <2>2. /\ Len(sleepList) \in Nat /\ DOMAIN sleepList = 1 .. Len(sleepList)
        /\ DOMAIN sleepList' = 1 .. Len(sleepList) + 1
        /\ \A i \in 1 .. Len(sleepList) : sleepList'[i] = sleepList[i]
        /\ sleepList'[Len(sleepList) + 1] = [thread |-> u, left |-> ticks]
    BY <1>2, <2>1
  <2>3. sleepList'[Len(sleepList) + 1].thread = u
    BY <2>2
  <2>4. \A i \in DOMAIN sleepList' : i \in DOMAIN sleepList \/ i = Len(sleepList) + 1
    BY <2>2
  <2>5. Len(sleepList) + 1 \in DOMAIN sleepList' /\ DOMAIN sleepList \subseteq DOMAIN sleepList'
    BY <2>2
  <2> QED
    BY <2>2, <2>3, <2>4, <2>5 DEF Sleepers
<1>4. Joiners' = Joiners
  BY <1>2 DEF Joiners
<1>5. \A t \in Threads : phase'[t] = phase[t] \/ t = u
  BY <1>2 DEF IInv, TypeOK
<1>6. \A t \in Threads \ {u} : t \in Alive' <=> t \in Alive
  BY <1>5 DEF Alive
<1>7. StatusFacts
  BY StatusByList
<1>8. StatusFacts'
  BY StatusByList, PTL
<1>9. StatusOf(u) = "running" /\ StatusOf(u)' = "asleep"
  BY <1>1, <1>3, <1>7, <1>8 DEF StatusFacts, PhaseStatus
<1>10. ASSUME NEW t \in Threads \ {u} PROVE StatusOf(t)' = StatusOf(t)
  BY <1>2, <1>3, <1>4, <1>5, <1>6, <1>7, <1>8 DEF StatusFacts, PhaseStatus, Waiting
<1>11. ASSUME NEW t \in Threads PROVE Edge(StatusOf(t), StatusOf(t)')
  BY <1>9, <1>10 DEF Edge, Life!Edges
<1> QED
  BY <1>2, <1>11, AbstractStep

\* join() is the abstract join.
LEMMA JoinRefines ==
  ASSUME IInv, IInv', NEW u \in Threads, NEW target \in Threads, join(u, target)
  PROVE  Life!LifeNext
<1>1. u \in Alive /\ u \notin Waiting
  BY Caller DEF join
<1>2. UNCHANGED <<readyQueue, sleepList, phase>>
  BY DEF join
<1>3. Sleepers' = Sleepers /\ Alive' = Alive
  BY <1>2 DEF Sleepers, Alive
<1>4. CASE target \notin DOMAIN joinMap
  BY <1>2, <1>3, <1>4, QuietStep DEF join
<1>5. CASE target \in DOMAIN joinMap
  <2> DEFINE q == Append(joinMap[target], u)
  <2>1. joinMap' = [joinMap EXCEPT ![target] = q]
    BY <1>5 DEF join
  <2>2. ToSet(q) = ToSet(joinMap[target]) \cup {u}
    BY <1>5, AppendDistinct DEF IInv, TypeOK
  <2> HIDE DEF q
  <2>3. /\ DOMAIN joinMap' = DOMAIN joinMap /\ ToSet(joinMap'[target]) = ToSet(joinMap[target]) \cup {u}
        /\ \A v \in DOMAIN joinMap : v # target => joinMap'[v] = joinMap[v]
    BY <1>5, <2>1, <2>2
  <2>4. \A v \in DOMAIN joinMap : ToSet(joinMap[v]) \subseteq ToSet(joinMap'[v])
    BY <2>3
  <2>5. /\ \A x : x \in Joiners' <=> \E v \in DOMAIN joinMap' : x \in ToSet(joinMap'[v])
        /\ \A x : x \in Joiners <=> \E v \in DOMAIN joinMap : x \in ToSet(joinMap[v])
    BY DEF Joiners
  <2>6. Joiners' = Joiners \cup {u}
    BY <1>5, <2>3, <2>5
  <2>7. StatusFacts
    BY StatusByList
  <2>8. StatusFacts'
    BY StatusByList, PTL
  <2>9. StatusOf(u) = "running" /\ StatusOf(u)' = "joining"
    BY <1>1, <2>6, <2>7, <2>8 DEF StatusFacts, PhaseStatus
  <2>10. ASSUME NEW t \in Threads \ {u} PROVE StatusOf(t)' = StatusOf(t)
    BY <1>2, <1>3, <2>6, <2>7, <2>8 DEF StatusFacts, PhaseStatus, Waiting
  <2>11. ASSUME NEW t \in Threads PROVE Edge(StatusOf(t), StatusOf(t)')
    BY <2>9, <2>10 DEF Edge, Life!Edges
  <2> QED
    BY <2>3, <2>4, <2>11, AbstractStep
<1> QED
  BY <1>4, <1>5

\* An exit wakes exactly the threads that joined the exiting one.
LEMMA ExitRefines ==
  ASSUME IInv, IInv', NEW u \in Threads, exit(u)
  PROVE  Life!LifeNext
<1>1. u \in Alive /\ u \notin Waiting /\ phase[u] = "running"
  BY Caller DEF exit
<1>2. u \in DOMAIN joinMap
  BY <1>1 DEF IInv, ListsNameTheLiving
<1>3. /\ readyQueue' = pushAll_front(readyQueue, joinMap[u])
      /\ phase' = [phase EXCEPT ![u] = "exited"]
      /\ joinMap' = [v \in DOMAIN joinMap \ {u} |-> joinMap[v]]
      /\ UNCHANGED sleepList
  BY <1>2 DEF exit, WakeJoiners, RemoveEntry
<1>4. phase'[u] = "exited" /\ \A t \in Threads \ {u} : phase'[t] = phase[t]
  BY <1>3 DEF IInv, TypeOK
<1>5. u \notin Alive' /\ \A t \in Threads \ {u} : t \in Alive' <=> t \in Alive
  BY <1>4 DEF Alive
<1>6. ToSet(readyQueue') = ToSet(readyQueue) \cup ToSet(joinMap[u])
  BY <1>2, <1>3, PushAllDistinct DEF IInv, TypeOK
<1>7. /\ DOMAIN joinMap' = DOMAIN joinMap \ {u}
      /\ \A v \in DOMAIN joinMap' : joinMap'[v] = joinMap[v]
  BY <1>3
<1>8. /\ \A x : x \in Joiners' <=> \E v \in DOMAIN joinMap' : x \in ToSet(joinMap'[v])
      /\ \A x : x \in Joiners <=> \E v \in DOMAIN joinMap : x \in ToSet(joinMap[v])
  BY DEF Joiners
<1>9. /\ Joiners' \subseteq Joiners /\ ToSet(joinMap[u]) \subseteq Joiners
      /\ Joiners \subseteq Joiners' \cup ToSet(joinMap[u])
      /\ \A x \in ToSet(joinMap[u]) : x \notin Joiners'
  <2>1. \A v \in DOMAIN joinMap : v # u => ToSet(joinMap[u]) \cap ToSet(joinMap[v]) = {}
    BY <1>2 DEF IInv, ListsDisjoint
  <2> QED
    BY <1>2, <1>7, <1>8, <2>1
<1>10. Sleepers' = Sleepers
  BY <1>3 DEF Sleepers
<1>11. StatusFacts
  BY StatusByList
<1>12. StatusFacts'
  BY StatusByList, PTL
<1>13. StatusOf(u) = "running" /\ StatusOf(u)' = "exited"
  BY <1>1, <1>4, <1>5, <1>11, <1>12 DEF StatusFacts, PhaseStatus
<1>14. ASSUME NEW t \in Threads \ {u} PROVE Edge(StatusOf(t), StatusOf(t)')
  <2>1. CASE t \in ToSet(joinMap[u])
    BY <1>6, <1>9, <1>11, <1>12, <2>1 DEF StatusFacts, PhaseStatus, Edge, Life!Edges
  <2>2. CASE t \notin ToSet(joinMap[u])
    <3>1. StatusOf(t)' = StatusOf(t)
      BY <1>4, <1>5, <1>6, <1>9, <1>10, <1>11, <1>12, <2>2 DEF StatusFacts, PhaseStatus, Waiting
    <3> QED
      BY <3>1 DEF Edge
  <2> QED
    BY <2>1, <2>2
<1>15. ASSUME NEW t \in Threads PROVE Edge(StatusOf(t), StatusOf(t)')
  BY <1>13, <1>14 DEF Edge, Life!Edges
<1>16. ASSUME NEW v \in DOMAIN joinMap, NEW t \in ToSet(joinMap[v])
       PROVE  \/ v \in DOMAIN joinMap' /\ t \in ToSet(joinMap'[v])
              \/ phase'[v] = "exited" /\ t \notin Joiners'
  BY <1>4, <1>7, <1>9
<1> QED
  BY <1>15, <1>16, AbstractStep

\* check_sleep_list() alone, in block(), or in switch_thread() before the
\* next thread is dequeued.
LEMMA WakeRefines ==
  ASSUME IInv, IInv', block_poll \/ switch_thread
  PROVE  Life!LifeNext
<1> DEFINE queue == WithExpired(readyQueue, sleepList)
           rest == ToSet(ThreadsOf(Asleep(sleepList)))
<1>1. /\ queue \in Seq(Threads) /\ IsInjective(queue) /\ Asleep(sleepList) \in Seq(Entry)
      /\ ToSet(queue) \cap rest = {} /\ ToSet(queue) \cup rest = ToSet(readyQueue) \cup Sleepers
      /\ ToSet(readyQueue) \subseteq ToSet(queue)
  BY CheckSleepList
<1>2. joinMap' = joinMap /\ sleepList' = Asleep(sleepList)
  BY DEF block_poll, switch_thread
<1>3. Joiners' = Joiners /\ Sleepers' = rest
  BY <1>1, <1>2, ThreadsOfSeq DEF Joiners, Sleepers
<1>4. \/ readyQueue' = queue /\ UNCHANGED phase
      \/ /\ queue # <<>> /\ readyQueue' = Front(queue)
         /\ phase' = [phase EXCEPT ![Last(queue)] = "lost"]
      \/ /\ queue # <<>> /\ readyQueue' = push_front(Front(queue), current) /\ UNCHANGED phase
         /\ blocking = "no" /\ initialized
  BY DEF block_poll, switch_thread, Dropped
<1>5. queue # <<>> => /\ Front(queue) \in Seq(Threads) /\ Last(queue) \in ToSet(queue)
                      /\ ToSet(queue) = ToSet(Front(queue)) \cup {Last(queue)}
                      /\ Last(queue) \notin ToSet(Front(queue))
  BY <1>1, FrontDistinct
<1>6. StatusFacts
  BY StatusByList
<1>7. StatusFacts'
  BY StatusByList, PTL
<1> HIDE DEF queue, rest
<1>8. CASE readyQueue' = queue /\ UNCHANGED phase
  <2>1. Alive' = Alive
    BY <1>8 DEF Alive
  <2>2. ASSUME NEW t \in Threads PROVE Edge(StatusOf(t), StatusOf(t)')
    BY <1>1, <1>3, <1>6, <1>7, <1>8, <2>1 DEF StatusFacts, PhaseStatus, Waiting, Edge, Life!Edges
  <2> QED
    BY <1>2, <2>2, AbstractStep
<1>9. CASE /\ queue # <<>> /\ readyQueue' = Front(queue)
           /\ phase' = [phase EXCEPT ![Last(queue)] = "lost"]
  <2>1. /\ Last(queue) \in Threads /\ phase'[Last(queue)] = "lost"
        /\ \A t \in Threads \ {Last(queue)} : phase'[t] = phase[t]
    BY <1>1, <1>5, <1>9, SeqElements DEF IInv, TypeOK
  <2>2. Last(queue) \notin Alive' /\ \A t \in Threads \ {Last(queue)} : t \in Alive' <=> t \in Alive
    BY <2>1 DEF Alive
  <2>3. ASSUME NEW t \in Threads PROVE Edge(StatusOf(t), StatusOf(t)')
    <3>1. CASE t = Last(queue)
      <4>1. StatusOf(t)' = "lost"
        BY <1>7, <2>1, <2>2, <3>1 DEF StatusFacts, PhaseStatus
      <4>2. StatusOf(t) \in {"ready", "asleep"}
        BY <1>1, <1>5, <1>6, <1>9, <3>1 DEF StatusFacts, PhaseStatus
      <4> QED
        BY <4>1, <4>2 DEF Edge, Life!Edges
    <3>2. CASE t # Last(queue)
      BY <1>1, <1>3, <1>5, <1>6, <1>7, <1>9, <2>1, <2>2, <3>2
         DEF StatusFacts, PhaseStatus, Waiting, Edge, Life!Edges
    <3> QED
      BY <3>1, <3>2
  <2> QED
    BY <1>2, <2>3, AbstractStep
<1>10. CASE /\ queue # <<>> /\ readyQueue' = push_front(Front(queue), current) /\ UNCHANGED phase
            /\ blocking = "no" /\ initialized
  <2>1. Alive' = Alive
    BY <1>10 DEF Alive
  <2>2. current \in Alive /\ current \notin Waiting /\ current \in Threads
    BY <1>10 DEF IInv, ListsHoldTheLiving, Alive
  <2>3. ToSet(readyQueue') = ToSet(Front(queue)) \cup {current}
    BY <1>5, <1>10, <2>2, PushFrontDistinct
  <2>4. ASSUME NEW t \in Threads PROVE Edge(StatusOf(t), StatusOf(t)')
    <3>1. CASE t = current
      BY <1>6, <1>7, <2>2, <2>3, <3>1 DEF StatusFacts, PhaseStatus, Edge, Life!Edges
    <3>2. CASE t # current
      BY <1>1, <1>3, <1>5, <1>6, <1>7, <1>10, <2>1, <2>2, <2>3, <3>2
         DEF StatusFacts, PhaseStatus, Waiting, Edge, Life!Edges
    <3> QED
      BY <3>1, <3>2
  <2> QED
    BY <1>2, <2>4, AbstractStep
<1> QED
  BY <1>4, <1>8, <1>9, <1>10

\* Every step is an abstract step or none.
LEMMA StepRefines ==
  ASSUME IInv, IInv', [Next]_vars
  PROVE  Life!LifeNext
<1>1. CASE boot_ready
  <2>1. Cardinality(Created) \in Nat
    BY FS_CardinalityType DEF IInv, Booting
  <2>2. BootThreads[Cardinality(Created) + 1] \in Threads
    BY <1>1, <2>1, SchedulerAssumption DEF boot_ready, SchedulerAssumption
  <2>3. PICK t \in Threads : t = BootThreads[Cardinality(Created) + 1]
    BY <2>2
  <2>4. ready(t) /\ phase[t] = "new" /\ phase' = [phase EXCEPT ![t] = "entry"] /\ UNCHANGED sleepList
    BY <1>1, <2>3 DEF boot_ready
  <2>5. phase'[t] = "entry" /\ \A u \in Threads \ {t} : phase'[u] = phase[u]
    BY <2>4 DEF IInv, TypeOK
  <2> QED
    BY <2>4, <2>5, ReadyRefines
<1>2. ASSUME NEW t \in Threads, application_ready(t) PROVE Life!LifeNext
  <2>1. /\ ready(t) /\ phase[t] = "loading" /\ phase[current] = "launching" /\ UNCHANGED sleepList
        /\ phase' = [phase EXCEPT ![t] = "entry", ![current] = "running"] /\ current \in Threads
    BY <1>2 DEF application_ready, IInv, TypeOK
  <2>2. phase'[t] = "entry" /\ \A u \in Threads \ {t} : phase'[u] = phase[u] \/ (u \in Alive /\ u \in Alive')
    BY <2>1 DEF IInv, TypeOK, Alive
  <2> QED
    BY <2>1, <2>2, ReadyRefines
<1>3. ASSUME NEW t \in Threads, NEW ticks \in 0 .. MaxSleep, sleep(t, ticks) PROVE Life!LifeNext
  BY <1>3, SleepRefines
<1>4. ASSUME NEW t \in Threads, NEW target \in Threads, join(t, target) PROVE Life!LifeNext
  BY <1>4, JoinRefines
<1>5. ASSUME NEW t \in Threads, exit(t) PROVE Life!LifeNext
  BY <1>5, ExitRefines
<1>6. CASE start \/ block_pop
  BY <1>6, PopSteps
<1>7. CASE block_poll \/ switch_thread
  BY <1>7, WakeRefines
<1>8. CASE \/ set_init \/ kickoff_lock \/ kickoff_unlock \/ drop_exited_process
           \/ block_switch \/ tick \/ (\E t \in Threads : application_start(t)) \/ UNCHANGED vars
  BY <1>8, QuietSteps
<1> QED
  BY <1>1, <1>2, <1>3, <1>4, <1>5, <1>6, <1>7, <1>8 DEF Next

(***************************************************************************)
(* The scheduler's lists implement ThreadLifecycle for any number of       *)
(* threads: at most one thread runs, only along the edges of the life      *)
(* cycle, and a join ends exactly with the exit it waits for               *)
(* (scheduler.rs:75-210).                                                  *)
(***************************************************************************)
THEOREM Refinement == Spec => ImplementsThreadLifecycle
<1>1. Init => Life!LifeInit
  <2> SUFFICES ASSUME Init PROVE Life!LifeInit
    OBVIOUS
  <2>1. \A t \in Threads : StatusOf(t) = "new"
    <3>1. \A t \in Threads : phase[t] = "new" /\ t \notin Alive
      BY DEF Init, Alive
    <3> QED
      BY <3>1, InitIInv, StatusByList DEF StatusFacts, PhaseStatus
  <2>2. \A t \in Threads : WaitsFor(t) = NoThread
    BY DEF Init, WaitsFor, JoinedBy
  <2> QED
    BY <2>1, <2>2 DEF Life!LifeInit
<1>2. IInv /\ IInv' /\ [Next]_vars => [Life!LifeNext]_(Life!lifeVars)
  BY StepRefines
<1> QED
  BY Inductive, <1>1, <1>2, PTL DEF Spec, ImplementsThreadLifecycle, Life!LifeSpec

(***************************************************************************)
(* What the contract gives the callers of the scheduler: it follows from   *)
(* Life!LifeSpec alone and reaches the code's lists through Refinement.    *)
(***************************************************************************)
NobodyWaitsForExited ==
  \A t \in Threads : WaitsFor(t) \in Threads => StatusOf(WaitsFor(t)) # "exited"

LifeInv == Life!LifeTypeOK /\ NobodyWaitsForExited /\ Life!AtMostOneRuns

\* One step of the contract, in terms of StatusOf and WaitsFor.
LEMMA ContractStep ==
  ASSUME Life!LifeNext
  PROVE  /\ \A t \in Threads : StatusOf(t)' # StatusOf(t) =>
              <<StatusOf(t), StatusOf(t)'>> \in Life!Edges
         /\ \A t \in Threads : WaitsFor(t)' \in Threads => StatusOf(WaitsFor(t))' # "exited"
         /\ \A t, u \in Threads : WaitsFor(t) = u /\ WaitsFor(t)' # u => StatusOf(u)' = "exited"
         /\ Life!LifeTypeOK' /\ Life!AtMostOneRuns'
<1>1. \A t \in Threads : StatusOf(t)' # StatusOf(t) => <<StatusOf(t), StatusOf(t)'>> \in Life!Edges
  BY DEF Life!LifeNext, Life!FollowsEdges
<1>2. \A t \in Threads : WaitsFor(t)' \in Threads => StatusOf(WaitsFor(t))' # "exited"
  BY DEF Life!LifeNext, Life!JoinsEndWithExit
<1>3. ASSUME NEW t \in Threads, NEW u \in Threads, WaitsFor(t) = u, WaitsFor(t)' # u
      PROVE  StatusOf(u)' = "exited"
  BY <1>3 DEF Life!LifeNext, Life!JoinsEndWithExit
<1>4. Life!LifeTypeOK' /\ Life!AtMostOneRuns'
  BY DEF Life!LifeNext, Life!FollowsEdges, Life!JoinsEndWithExit, Life!LifeTypeOK
<1> QED
  BY <1>1, <1>2, <1>3, <1>4

(***************************************************************************)
(* At most one thread runs and nobody waits for a thread that has exited,  *)
(* which would be for ever (scheduler.rs:142-155).                         *)
(***************************************************************************)
THEOREM LifeInvariant == Spec => []LifeInv
<1>1. Life!LifeInit => LifeInv
  BY SchedulerAssumption DEF SchedulerAssumption, Life!LifeInit, LifeInv, Life!LifeTypeOK,
     NobodyWaitsForExited, Life!AtMostOneRuns, Life!Status
<1>2. LifeInv /\ [Life!LifeNext]_(Life!lifeVars) => LifeInv'
  <2> SUFFICES ASSUME LifeInv, [Life!LifeNext]_(Life!lifeVars) PROVE LifeInv'
    OBVIOUS
  <2>1. CASE Life!LifeNext
    BY <2>1, ContractStep DEF LifeInv, NobodyWaitsForExited
  <2>2. CASE UNCHANGED Life!lifeVars
    BY <2>2 DEF Life!lifeVars, LifeInv, Life!LifeTypeOK, NobodyWaitsForExited, Life!AtMostOneRuns
  <2> QED
    BY <2>1, <2>2
<1> QED
  BY <1>1, <1>2, Refinement, PTL DEF ImplementsThreadLifecycle, Life!LifeSpec

(***************************************************************************)
(* A thread that has exited, or that switch_thread() has dropped, never    *)
(* changes its state again (scheduler.rs:108-116, 142-163).                *)
(***************************************************************************)
THEOREM EndIsFinal ==
  Spec => [][\A t \in Threads : StatusOf(t) \in {"exited", "lost"} =>
               StatusOf(t)' = StatusOf(t)]_(Life!lifeVars)
<1> DEFINE A == \A t \in Threads : StatusOf(t) \in {"exited", "lost"} => StatusOf(t)' = StatusOf(t)
<1>1. [Life!LifeNext]_(Life!lifeVars) => [A]_(Life!lifeVars)
  BY ContractStep DEF Life!Edges
<1> QED
  BY <1>1, Refinement, PTL DEF ImplementsThreadLifecycle, Life!LifeSpec

(***************************************************************************)
(* A join ends only in the step in which the joined thread exits           *)
(* (scheduler.rs:129-154).                                                 *)
(***************************************************************************)
THEOREM JoinReturnsAfterExit ==
  Spec => [][\A t, u \in Threads : WaitsFor(t) = u /\ WaitsFor(t)' # u =>
               StatusOf(u)' = "exited" /\ StatusOf(u) # "exited"]_(Life!lifeVars)
<1> DEFINE A == \A t, u \in Threads : WaitsFor(t) = u /\ WaitsFor(t)' # u =>
                  StatusOf(u)' = "exited" /\ StatusOf(u) # "exited"
<1>1. LifeInv /\ [Life!LifeNext]_(Life!lifeVars) => [A]_(Life!lifeVars)
  <2> SUFFICES ASSUME LifeInv, Life!LifeNext PROVE A
    OBVIOUS
  <2>1. \A t, u \in Threads : WaitsFor(t) = u /\ WaitsFor(t)' # u => StatusOf(u)' = "exited"
    BY ContractStep
  <2>2. \A t, u \in Threads : WaitsFor(t) = u => StatusOf(u) # "exited"
    BY DEF LifeInv, NobodyWaitsForExited
  <2> QED
    BY <2>1, <2>2
<1> QED
  BY <1>1, LifeInvariant, Refinement, PTL DEF ImplementsThreadLifecycle, Life!LifeSpec
=============================================================================
