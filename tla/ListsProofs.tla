---------------------------- MODULE ListsProofs ----------------------------
(***************************************************************************)
(* What the list operations of lib/list.cc do to the members of a list, to *)
(* their number of occurrences and to their order.                         *)
(***************************************************************************)
EXTENDS Lists, WellFoundedInduction, SequenceTheorems, TLAPS

(* List<T>::Append adds its item and nothing else. *)
LEMMA AppendFacts ==
  ASSUME NEW S, NEW s \in Seq(S), NEW x \in S
  PROVE  /\ Append(s, x) \in Seq(S)
         /\ \A y : IsInList(Append(s, x), y) <=> IsInList(s, y) \/ y = x
         /\ IsInjective(s) /\ ~IsInList(s, x) => IsInjective(Append(s, x))
  BY DEF IsInList, Contains, IsInjective

(* List<T>::RemoveFront takes off the first item and nothing else. *)
LEMMA TailFacts ==
  ASSUME NEW S, NEW s \in Seq(S), s # << >>
  PROVE  /\ Head(s) \in S
         /\ Tail(s) \in Seq(S)
         /\ \A y : IsInList(s, y) <=> IsInList(Tail(s), y) \/ y = Head(s)
         /\ IsInjective(s) => /\ IsInjective(Tail(s))
                              /\ ~IsInList(Tail(s), Head(s))
<1>1. /\ Len(s) \in Nat /\ Len(s) >= 1 /\ Head(s) = s[1]
      /\ DOMAIN s = 1..Len(s)
      /\ \A i \in 1..Len(s) : s[i] \in S
  OBVIOUS
<1>2. /\ Tail(s) \in Seq(S)
      /\ Len(Tail(s)) = Len(s) - 1
      /\ DOMAIN Tail(s) = 1..(Len(s) - 1)
      /\ \A i \in 1..(Len(s) - 1) : Tail(s)[i] = s[i + 1]
  OBVIOUS
<1>3. ASSUME NEW y
      PROVE  IsInList(s, y) <=> IsInList(Tail(s), y) \/ y = Head(s)
  <2>1. ASSUME NEW i \in 1..Len(s), s[i] = y, i # 1
        PROVE  i - 1 \in 1..(Len(s) - 1) /\ Tail(s)[i - 1] = y
    BY <2>1, <1>1, <1>2
  <2>2. ASSUME NEW i \in 1..(Len(s) - 1), Tail(s)[i] = y
        PROVE  i + 1 \in 1..Len(s) /\ s[i + 1] = y
    BY <2>2, <1>1, <1>2
  <2>3. IsInList(s, y) <=> \E i \in 1..Len(s) : s[i] = y
    BY DEF IsInList, Contains
  <2>4. IsInList(Tail(s), y) <=>
          \E i \in 1..(Len(s) - 1) : Tail(s)[i] = y
    BY <1>2 DEF IsInList, Contains
  <2>5. y = Head(s) => 1 \in 1..Len(s) /\ s[1] = y
    BY <1>1
  <2> QED
    BY <1>1, <2>1, <2>2, <2>3, <2>4, <2>5
<1>4. ASSUME IsInjective(s)
      PROVE  IsInjective(Tail(s)) /\ ~IsInList(Tail(s), Head(s))
  <2>1. ASSUME NEW i \in 1..(Len(s) - 1), NEW j \in 1..(Len(s) - 1),
               Tail(s)[i] = Tail(s)[j]
        PROVE  i = j
    <3>1. i + 1 \in 1..Len(s) /\ j + 1 \in 1..Len(s)
      BY <1>1
    <3>2. s[i + 1] = s[j + 1]
      BY <1>2, <2>1
    <3>3. i + 1 = j + 1
      BY <1>1, <1>4, <3>1, <3>2 DEF IsInjective
    <3> QED
      BY <3>3
  <2>2. ASSUME NEW i \in 1..(Len(s) - 1)
        PROVE  Tail(s)[i] # s[1]
    <3>1. i + 1 \in 1..Len(s) /\ 1 \in 1..Len(s) /\ i + 1 # 1
      BY <1>1
    <3> QED
      BY <1>1, <1>2, <1>4, <3>1 DEF IsInjective
  <2> QED
    BY <1>1, <1>2, <2>1, <2>2 DEF IsInjective, IsInList, Contains
<1> QED
  BY <1>1, <1>2, <1>3, <1>4

(* Members of a list are of the list's type. *)
LEMMA MemberType ==
  ASSUME NEW S, NEW s \in Seq(S), NEW y, IsInList(s, y)
  PROVE  y \in S
  BY DEF IsInList, Contains

(* The loops of Insert and FindAndSet find what they look for: a set of    *)
(* numbers that is not empty has a smallest element.                       *)
LEMMA MinFacts ==
  ASSUME NEW T, T \subseteq Nat, T # {}
  PROVE  Min(T) \in T /\ \A y \in T : Min(T) <= y
<1>1. \E x \in T : \A y \in T : ~(<<y, x>> \in OpToRel(<, Nat))
  BY NatLessThanWellFounded, WFMin
<1>2. PICK x \in T : \A y \in T : ~(<<y, x>> \in OpToRel(<, Nat))
  BY <1>1
<1>3. \A y \in T : x <= y
  <2> SUFFICES ASSUME NEW y \in T, ~(x <= y) PROVE FALSE
    OBVIOUS
  <2>1. x \in Nat /\ y \in Nat /\ y < x
    OBVIOUS
  <2>2. <<y, x>> \in OpToRel(<, Nat)
    BY <2>1 DEF OpToRel
  <2> QED
    BY <1>2, <2>2
<1> QED
  BY <1>3 DEF Min

(* The place Insert finds is in the list or just behind it. *)
LEMMA InsertPositionFacts ==
  ASSUME NEW S, NEW s \in Seq(S), NEW x \in S, NEW key \in [S -> Int]
  PROVE  LET p == InsertPosition(s, x, key) IN
         /\ p \in 1..(Len(s) + 1)
         /\ \A i \in 1..Len(s) : i < p => key[s[i]] <= key[x]
         /\ p <= Len(s) => key[x] < key[s[p]]
<1> DEFINE bigger == {i \in 1..Len(s) : key[x] < key[s[i]]}
<1>1. Len(s) \in Nat /\ \A i \in 1..Len(s) : s[i] \in S
  OBVIOUS
<1>2. CASE bigger = {}
  <2>1. InsertPosition(s, x, key) = Len(s) + 1
    BY <1>2 DEF InsertPosition
  <2>2. \A i \in 1..Len(s) : key[s[i]] \in Int /\ key[x] \in Int
    BY <1>1
  <2>3. \A i \in 1..Len(s) : ~(key[x] < key[s[i]])
    BY <1>2
  <2> QED
    BY <1>1, <2>1, <2>2, <2>3
<1>3. CASE bigger # {}
  <2>1. bigger \subseteq Nat
    BY <1>1
  <2>2. Min(bigger) \in bigger /\ \A y \in bigger : Min(bigger) <= y
    BY ONLY <1>3, <2>1, MinFacts
  <2>3. InsertPosition(s, x, key) = Min(bigger)
    BY <1>3 DEF InsertPosition
  <2> DEFINE p == Min(bigger)
  <2> HIDE DEF p
  <2>4. p \in bigger /\ (\A y \in bigger : p <= y)
        /\ InsertPosition(s, x, key) = p
    BY <2>2, <2>3 DEF p
  <2>5. p \in 1..Len(s) /\ key[x] < key[s[p]]
    BY <2>4
  <2>6. ASSUME NEW i \in 1..Len(s), i < p
        PROVE  key[s[i]] <= key[x]
    <3>1. i \notin bigger
      BY <1>1, <2>4, <2>5, <2>6
    <3>2. s[i] \in S /\ key[s[i]] \in Int /\ key[x] \in Int
      BY <1>1
    <3> QED
      BY <3>1, <3>2
  <2> QED
    BY <1>1, <2>4, <2>5, <2>6
<1> QED
  BY <1>2, <1>3

(* SequencesExt!InsertAt, element by element. *)
LEMMA InsertAtFacts ==
  ASSUME NEW S, NEW s \in Seq(S), NEW x \in S, NEW p \in 1..(Len(s) + 1)
  PROVE  LET r == InsertAt(s, p, x) IN
         /\ r \in Seq(S)
         /\ Len(r) = Len(s) + 1
         /\ r[p] = x
         /\ \A i \in 1..Len(s) : r[IF i < p THEN i ELSE i + 1] = s[i]
         /\ \A i \in 1..(Len(s) + 1) :
              i # p => r[i] = s[IF i < p THEN i ELSE i - 1]
<1> DEFINE a == SubSeq(s, 1, p - 1)
           b == SubSeq(s, p, Len(s))
<1>1. /\ Len(s) \in Nat
      /\ a \in Seq(S) /\ Len(a) = p - 1 /\ \A i \in 1..(p - 1) : a[i] = s[i]
  OBVIOUS
<1>2. /\ b \in Seq(S) /\ Len(b) = Len(s) - p + 1
      /\ \A i \in 1..(Len(s) - p + 1) : b[i] = s[p + i - 1]
  OBVIOUS
<1>3. InsertAt(s, p, x) = a \o <<x>> \o b
  BY DEF InsertAt
<1> HIDE DEF a, b
<1>4. /\ a \o <<x>> \in Seq(S) /\ Len(a \o <<x>>) = p
      /\ \A i \in 1..(p - 1) : (a \o <<x>>)[i] = a[i]
      /\ (a \o <<x>>)[p] = x
  BY <1>1
<1> DEFINE c == a \o <<x>>
<1> HIDE DEF c
<1>5. c \in Seq(S) /\ Len(c) = p /\ c[p] = x
      /\ \A i \in 1..(p - 1) : c[i] = a[i]
  BY <1>4 DEF c
<1>6. /\ c \o b \in Seq(S) /\ Len(c \o b) = Len(s) + 1
      /\ \A i \in 1..p : (c \o b)[i] = c[i]
      /\ \A i \in 1..(Len(s) + 1) : i > p => (c \o b)[i] = b[i - p]
  BY <1>1, <1>2, <1>5
<1>7. InsertAt(s, p, x) = c \o b
  BY <1>3 DEF c
<1> DEFINE r == c \o b
<1> HIDE DEF r
<1>8. /\ r \in Seq(S) /\ Len(r) = Len(s) + 1 /\ r[p] = x
      /\ \A i \in 1..(p - 1) : r[i] = s[i]
      /\ \A i \in 1..(Len(s) + 1) : i > p => r[i] = b[i - p]
  BY <1>1, <1>5, <1>6 DEF r
<1>9. \A i \in 1..(Len(s) + 1) : i > p => r[i] = s[i - 1]
  <2> TAKE i \in 1..(Len(s) + 1)
  <2> HAVE i > p
  <2>1. i - p \in 1..(Len(s) - p + 1) /\ p + (i - p) - 1 = i - 1
    BY <1>1
  <2> QED
    BY <1>2, <1>8, <2>1
<1>10. \A i \in 1..Len(s) : ~(i < p) => r[i + 1] = s[i]
  <2> TAKE i \in 1..Len(s)
  <2> HAVE ~(i < p)
  <2>1. i + 1 \in 1..(Len(s) + 1) /\ i + 1 > p /\ (i + 1) - 1 = i
    BY <1>1
  <2> QED
    BY <1>9, <2>1
<1>11. InsertAt(s, p, x) = r
  BY <1>7 DEF r
<1> QED
  BY <1>1, <1>8, <1>9, <1>10, <1>11

(* SortedList<T>::Insert adds its item and nothing else. *)
LEMMA InsertFacts ==
  ASSUME NEW S, NEW s \in Seq(S), NEW x \in S, NEW key \in [S -> Int]
  PROVE  /\ Insert(s, x, key) \in Seq(S)
         /\ Insert(s, x, key) # << >>
         /\ \A y : IsInList(Insert(s, x, key), y) <=> IsInList(s, y) \/ y = x
         /\ IsInjective(s) /\ ~IsInList(s, x)
              => IsInjective(Insert(s, x, key))
<1> DEFINE p == InsertPosition(s, x, key)
           r == InsertAt(s, p, x)
<1>1. p \in 1..(Len(s) + 1) /\ Len(s) \in Nat
  BY InsertPositionFacts
<1> HIDE DEF p
<1>2. /\ r \in Seq(S) /\ Len(r) = Len(s) + 1 /\ r[p] = x
      /\ \A i \in 1..Len(s) : r[IF i < p THEN i ELSE i + 1] = s[i]
      /\ \A i \in 1..(Len(s) + 1) :
           i # p => r[i] = s[IF i < p THEN i ELSE i - 1]
  BY <1>1, InsertAtFacts
<1>3. Insert(s, x, key) = r
  BY DEF Insert, p
<1> HIDE DEF r
<1>4. /\ DOMAIN r = 1..(Len(s) + 1)
      /\ DOMAIN s = 1..Len(s)
  BY <1>2
<1>5. ASSUME NEW y
      PROVE  IsInList(r, y) <=> IsInList(s, y) \/ y = x
  <2>1. IsInList(r, y) <=> \E i \in 1..(Len(s) + 1) : r[i] = y
    BY <1>2 DEF IsInList, Contains
  <2>2. IsInList(s, y) <=> \E i \in 1..Len(s) : s[i] = y
    BY DEF IsInList, Contains
  <2>3. ASSUME NEW i \in 1..(Len(s) + 1), r[i] = y, y # x
        PROVE  \E j \in 1..Len(s) : s[j] = y
    <3>1. i # p
      BY <1>2, <2>3
    <3>2. (IF i < p THEN i ELSE i - 1) \in 1..Len(s)
      BY <1>1, <3>1
    <3> QED
      BY <1>2, <2>3, <3>1, <3>2
  <2>4. ASSUME NEW i \in 1..Len(s), s[i] = y
        PROVE  \E j \in 1..(Len(s) + 1) : r[j] = y
    <3>1. (IF i < p THEN i ELSE i + 1) \in 1..(Len(s) + 1)
      BY <1>1
    <3> QED
      BY <1>2, <2>4, <3>1
  <2> QED
    BY <1>1, <1>2, <2>1, <2>2, <2>3, <2>4
<1>6. ASSUME IsInjective(s), ~IsInList(s, x)
      PROVE  IsInjective(r)
  <2> SUFFICES ASSUME NEW i \in 1..(Len(s) + 1), NEW j \in 1..(Len(s) + 1),
                      r[i] = r[j]
               PROVE  i = j
    BY <1>4 DEF IsInjective
  <2>1. ASSUME NEW k \in 1..(Len(s) + 1), k # p
        PROVE  /\ (IF k < p THEN k ELSE k - 1) \in 1..Len(s)
               /\ r[k] = s[IF k < p THEN k ELSE k - 1]
               /\ r[k] # x
    <3>1. (IF k < p THEN k ELSE k - 1) \in 1..Len(s)
      BY <1>1, <2>1
    <3> QED
      BY <1>2, <1>6, <2>1, <3>1 DEF IsInList, Contains
  <2>2. CASE i = p \/ j = p
    <3>1. r[i] = x /\ r[j] = x
      BY <1>2, <2>2
    <3>2. i = p /\ j = p
      BY <2>1, <3>1
    <3> QED
      BY <3>2
  <2>3. CASE i # p /\ j # p
    <3>1. (IF i < p THEN i ELSE i - 1) = (IF j < p THEN j ELSE j - 1)
      BY <1>4, <1>6, <2>1, <2>3 DEF IsInjective
    <3> QED
      BY <1>1, <2>3, <3>1
  <2> QED
    BY <2>2, <2>3
<1> QED
  BY <1>1, <1>2, <1>3, <1>5, <1>6

(* In increasing order of their keys. *)
Sorted(s, key) ==
  \A i, j \in 1..Len(s) : i < j => key[s[i]] <= key[s[j]]

(* SortedList<T>::Insert keeps the list sorted. *)
LEMMA InsertSorted ==
  ASSUME NEW S, NEW s \in Seq(S), NEW x \in S, NEW key \in [S -> Int],
         Sorted(s, key)
  PROVE  Sorted(Insert(s, x, key), key)
<1> DEFINE p == InsertPosition(s, x, key)
           r == InsertAt(s, p, x)
<1>1. /\ p \in 1..(Len(s) + 1) /\ Len(s) \in Nat
      /\ \A i \in 1..Len(s) : i < p => key[s[i]] <= key[x]
      /\ p <= Len(s) => key[x] < key[s[p]]
  BY InsertPositionFacts
<1> HIDE DEF p
<1>2. /\ r \in Seq(S) /\ Len(r) = Len(s) + 1 /\ r[p] = x
      /\ \A i \in 1..(Len(s) + 1) :
           i # p => r[i] = s[IF i < p THEN i ELSE i - 1]
  BY <1>1, InsertAtFacts
<1>3. Insert(s, x, key) = r
  BY DEF Insert, p
<1> HIDE DEF r
<1>4. \A i \in 1..Len(s) : s[i] \in S /\ key[s[i]] \in Int
  OBVIOUS
<1>5. key[x] \in Int
  OBVIOUS
<1>6. \A i \in 1..Len(s) : i >= p => key[x] <= key[s[i]]
  <2> TAKE i \in 1..Len(s)
  <2> HAVE i >= p
  <2>1. p \in 1..Len(s) /\ key[x] < key[s[p]]
    BY <1>1
  <2>2. key[s[p]] <= key[s[i]]
    BY <1>1, <1>4, <2>1 DEF Sorted
  <2> QED
    BY <1>4, <1>5, <2>1, <2>2
<1>7. ASSUME NEW i \in 1..(Len(s) + 1), NEW j \in 1..(Len(s) + 1), i < j
      PROVE  key[r[i]] <= key[r[j]]
  <2>1. CASE i = p
    <3>1. j - 1 \in 1..Len(s) /\ j - 1 >= p /\ r[j] = s[j - 1]
      BY <1>1, <1>2, <1>7, <2>1
    <3> QED
      BY <1>2, <1>6, <2>1, <3>1
  <2>2. CASE j = p
    <3>1. i \in 1..Len(s) /\ r[i] = s[i]
      BY <1>1, <1>2, <1>7, <2>2
    <3> QED
      BY <1>1, <1>2, <1>7, <2>2, <3>1
  <2>3. CASE i # p /\ j # p
    <3> DEFINE a == IF i < p THEN i ELSE i - 1
               b == IF j < p THEN j ELSE j - 1
    <3>1. a \in 1..Len(s) /\ b \in 1..Len(s) /\ a < b
      BY <1>1, <1>7, <2>3
    <3>2. r[i] = s[a] /\ r[j] = s[b]
      BY <1>2, <2>3
    <3> HIDE DEF a, b
    <3> QED
      BY <3>1, <3>2 DEF Sorted
  <2> QED
    BY <2>1, <2>2, <2>3
<1> QED
  BY <1>2, <1>3, <1>7 DEF Sorted

(* SequencesExt!RemoveAt, element by element. *)
LEMMA RemoveAtFacts ==
  ASSUME NEW S, NEW s \in Seq(S), NEW p \in 1..Len(s)
  PROVE  LET r == RemoveAt(s, p) IN
         /\ r \in Seq(S)
         /\ Len(r) = Len(s) - 1
         /\ \A i \in 1..(Len(s) - 1) : r[i] = s[IF i < p THEN i ELSE i + 1]
<1> DEFINE a == SubSeq(s, 1, p - 1)
           b == SubSeq(s, p + 1, Len(s))
<1>1. /\ Len(s) \in Nat
      /\ a \in Seq(S) /\ Len(a) = p - 1 /\ \A i \in 1..(p - 1) : a[i] = s[i]
  OBVIOUS
<1>2. /\ b \in Seq(S) /\ Len(b) = Len(s) - p
      /\ \A i \in 1..(Len(s) - p) : b[i] = s[p + i]
  OBVIOUS
<1>3. RemoveAt(s, p) = a \o b
  BY DEF RemoveAt
<1> HIDE DEF a, b
<1>4. /\ a \o b \in Seq(S) /\ Len(a \o b) = Len(s) - 1
      /\ \A i \in 1..(p - 1) : (a \o b)[i] = a[i]
      /\ \A i \in 1..(Len(s) - 1) : i > Len(a) => (a \o b)[i] = b[i - Len(a)]
  <2>1. /\ a \in Seq(S) /\ b \in Seq(S) /\ Len(a) \in Nat /\ Len(b) \in Nat
        /\ Len(a) = p - 1 /\ Len(a) + Len(b) = Len(s) - 1
    BY <1>1, <1>2
  <2>2. /\ a \o b \in Seq(S) /\ Len(a \o b) = Len(a) + Len(b)
    BY <2>1
  <2>3. ASSUME NEW i \in 1..(Len(a) + Len(b))
        PROVE  (a \o b)[i] = IF i <= Len(a) THEN a[i] ELSE b[i - Len(a)]
    BY <2>1, SMTT(30)
  <2>4. ASSUME NEW i \in 1..(p - 1)
        PROVE  (a \o b)[i] = a[i]
    <3>1. i \in 1..(Len(a) + Len(b)) /\ i <= Len(a)
      BY <2>1
    <3> QED
      BY <3>1, <2>3
  <2>5. ASSUME NEW i \in 1..(Len(s) - 1), i > Len(a)
        PROVE  (a \o b)[i] = b[i - Len(a)]
    <3>1. i \in 1..(Len(a) + Len(b)) /\ ~(i <= Len(a))
      BY <2>1, <2>5
    <3> QED
      BY <3>1, <2>3
  <2> QED
    BY <2>1, <2>2, <2>4, <2>5
<1>5. ASSUME NEW i \in 1..(Len(s) - 1)
      PROVE  (a \o b)[i] = s[IF i < p THEN i ELSE i + 1]
  <2>1. CASE i < p
    BY <1>1, <1>4, <2>1
  <2>2. CASE ~(i < p)
    <3>1. /\ i > Len(a) /\ i - Len(a) \in 1..(Len(s) - p)
          /\ p + (i - Len(a)) = i + 1
      BY <1>1, <2>2
    <3> QED
      BY <1>2, <1>4, <2>2, <3>1
  <2> QED
    BY <2>1, <2>2
<1> QED
  BY <1>3, <1>4, <1>5

(* List<T>::Remove takes one item off a list in which it occurs once, and  *)
(* its ASSERTs hold.                                                       *)
LEMMA RemoveFacts ==
  ASSUME NEW S, NEW s \in Seq(S), NEW x, IsInjective(s), IsInList(s, x)
  PROVE  /\ RemoveItem(s, x) \in Seq(S)
         /\ Len(RemoveItem(s, x)) = Len(s) - 1
         /\ IsInjective(RemoveItem(s, x))
         /\ \A y : IsInList(RemoveItem(s, x), y) <=> IsInList(s, y) /\ y # x
         /\ RemoveAsserts(s, x)
<1> DEFINE I == {i \in 1..Len(s) : s[i] = x}
           p == Min(I)
           r == RemoveAt(s, p)
<1>1. I # {} /\ I \subseteq Nat
  BY DEF IsInList, Contains
<1>2. p \in 1..Len(s) /\ s[p] = x
  <2>1. Min(I) \in I
    BY ONLY <1>1, MinFacts
  <2> QED
    BY <2>1
<1>3. SelectInSeq(s, LAMBDA v : v = x) = p
  BY <1>1 DEF SelectInSeq
<1>4. RemoveItem(s, x) = r
  BY <1>1, <1>3 DEF RemoveItem, RemoveFirst
<1> HIDE DEF p
<1>5. /\ r \in Seq(S) /\ Len(r) = Len(s) - 1
      /\ \A i \in 1..(Len(s) - 1) : r[i] = s[IF i < p THEN i ELSE i + 1]
  BY <1>2, RemoveAtFacts
<1> HIDE DEF r
<1>6. /\ Len(s) \in Nat /\ DOMAIN r = 1..(Len(s) - 1)
      /\ DOMAIN s = 1..Len(s)
      /\ \A i, j \in 1..Len(s) : s[i] = s[j] => i = j
  BY <1>5 DEF IsInjective
<1>7. ASSUME NEW i \in 1..(Len(s) - 1)
      PROVE  /\ (IF i < p THEN i ELSE i + 1) \in 1..Len(s)
             /\ (IF i < p THEN i ELSE i + 1) # p
             /\ r[i] = s[IF i < p THEN i ELSE i + 1]
             /\ r[i] # x
  <2>1. /\ (IF i < p THEN i ELSE i + 1) \in 1..Len(s)
        /\ (IF i < p THEN i ELSE i + 1) # p
    BY <1>2, <1>6
  <2> QED
    BY <1>2, <1>5, <1>6, <2>1
<1>8. IsInjective(r)
  <2> SUFFICES ASSUME NEW i \in 1..(Len(s) - 1), NEW j \in 1..(Len(s) - 1),
                      r[i] = r[j]
               PROVE  i = j
    BY <1>6 DEF IsInjective
  <2>1. (IF i < p THEN i ELSE i + 1) = (IF j < p THEN j ELSE j + 1)
    BY <1>6, <1>7
  <2> QED
    BY <1>2, <1>6, <2>1
<1>9. ASSUME NEW y
      PROVE  IsInList(r, y) <=> IsInList(s, y) /\ y # x
  <2>1. IsInList(r, y) <=> \E i \in 1..(Len(s) - 1) : r[i] = y
    BY <1>5 DEF IsInList, Contains
  <2>2. IsInList(s, y) <=> \E i \in 1..Len(s) : s[i] = y
    BY DEF IsInList, Contains
  <2>3. ASSUME NEW i \in 1..(Len(s) - 1), r[i] = y
        PROVE  y # x /\ \E j \in 1..Len(s) : s[j] = y
    BY <1>7, <2>3
  <2>4. ASSUME NEW i \in 1..Len(s), s[i] = y, y # x
        PROVE  \E j \in 1..(Len(s) - 1) : r[j] = y
    <3> DEFINE j == IF i < p THEN i ELSE i - 1
    <3>1. i # p
      BY <1>2, <2>4
    <3>2. j \in 1..(Len(s) - 1) /\ (IF j < p THEN j ELSE j + 1) = i
      BY <1>2, <1>6, <3>1
    <3> QED
      BY <1>7, <2>4, <3>2
  <2> QED
    BY <2>1, <2>2, <2>3, <2>4
<1> QED
  BY <1>4, <1>5, <1>8, <1>9 DEF RemoveAsserts

(* Tail keeps a list sorted, and its head is no later than the rest. *)
LEMMA TailSorted ==
  ASSUME NEW S, NEW s \in Seq(S), s # << >>, NEW key \in [S -> Int],
         Sorted(s, key)
  PROVE  /\ Sorted(Tail(s), key)
         /\ \A y : IsInList(s, y) => key[Head(s)] <= key[y]
<1>1. /\ Len(s) \in Nat /\ Len(s) >= 1 /\ Head(s) = s[1]
      /\ \A i \in 1..Len(s) : s[i] \in S /\ key[s[i]] \in Int
  OBVIOUS
<1>2. /\ Len(Tail(s)) = Len(s) - 1
      /\ \A i \in 1..(Len(s) - 1) : Tail(s)[i] = s[i + 1]
  OBVIOUS
<1>3. ASSUME NEW i \in 1..(Len(s) - 1), NEW j \in 1..(Len(s) - 1), i < j
      PROVE  key[Tail(s)[i]] <= key[Tail(s)[j]]
  <2>1. i + 1 \in 1..Len(s) /\ j + 1 \in 1..Len(s) /\ i + 1 < j + 1
    BY <1>1, <1>3
  <2> QED
    BY <1>2, <2>1 DEF Sorted
<1>4. ASSUME NEW i \in 1..Len(s)
      PROVE  key[s[1]] <= key[s[i]]
  <2>1. CASE i = 1
    BY <1>1, <2>1
  <2>2. CASE i # 1
    BY <1>1, <2>2 DEF Sorted
  <2> QED
    BY <2>1, <2>2
<1> QED
  BY <1>1, <1>2, <1>3, <1>4 DEF Sorted, IsInList, Contains

(* What stands in line stays in line when the last of two lines gets an    *)
(* item at its end, or when its first item moves on.                       *)
LEMMA InLine ==
  ASSUME NEW S, NEW a \in Seq(S), NEW s \in Seq(S)
  PROVE  /\ a \o << >> \o s = a \o s
         /\ << >> \o a \o s = a \o s
         /\ \A x \in S : a \o Append(s, x) = Append(a \o s, x)
         /\ s # << >> => a \o <<Head(s)>> \o Tail(s) = a \o s
         /\ \A x \in S : /\ <<x>> \o s # << >>
                         /\ Head(<<x>> \o s) = x
                         /\ Tail(<<x>> \o s) = s
<1>1. a \o << >> = a /\ << >> \o a = a
  BY ConcatEmptySeq
<1>2. ASSUME NEW x \in S PROVE a \o Append(s, x) = Append(a \o s, x)
  <2>1. <<x>> \in Seq(S) /\ a \o s \in Seq(S)
    OBVIOUS
  <2>2. /\ Append(s, x) = s \o <<x>>
        /\ Append(a \o s, x) = (a \o s) \o <<x>>
    BY <2>1, AppendIsConcat
  <2> QED
    BY <2>1, <2>2, ConcatAssociative
<1>3. ASSUME NEW x \in S PROVE /\ <<x>> \o s # << >>
                               /\ Head(<<x>> \o s) = x
                               /\ Tail(<<x>> \o s) = s
  <2>1. <<x>> \in Seq(S) /\ Len(<<x>>) = 1 /\ <<x>>[1] = x
    OBVIOUS
  <2>2. /\ <<x>> \o s \in Seq(S)
        /\ Len(<<x>> \o s) = 1 + Len(s)
        /\ (<<x>> \o s)[1] = x
        /\ \A i \in 1..Len(s) : (<<x>> \o s)[i + 1] = s[i]
    BY <2>1, ConcatProperties
  <2>3. PICK r \in Seq(S) : r = <<x>> \o s
    BY <2>2
  <2>4. r # << >> /\ Head(r) = x
    BY <2>2, <2>3
  <2>5. /\ Tail(r) \in Seq(S) /\ Len(Tail(r)) = Len(s)
        /\ \A i \in 1..Len(s) : Tail(r)[i] = s[i]
    BY <2>2, <2>3, <2>4, HeadTailProperties
  <2>6. Tail(r) = s
    BY <2>5, SeqEqual
  <2> QED
    BY <2>3, <2>4, <2>6
<1>4. ASSUME s # << >> PROVE a \o <<Head(s)>> \o Tail(s) = a \o s
  <2>1. Head(s) \in S /\ Tail(s) \in Seq(S)
    BY <1>4
  <2>2. PICK h \in S : h = Head(s)
    BY <2>1
  <2>3. <<h>> \o Tail(s) = s
    <3>1. /\ <<h>> \o Tail(s) \in Seq(S)
          /\ Len(<<h>> \o Tail(s)) = Len(s)
          /\ \A i \in 1..Len(s) : (<<h>> \o Tail(s))[i] = s[i]
      BY <1>4, <2>1, <2>2
    <3> QED
      BY <3>1, SeqEqual
  <2>4. a \o <<h>> \o Tail(s) = a \o (<<h>> \o Tail(s))
    BY <2>1, ConcatAssociative
  <2> QED
    BY <2>2, <2>3, <2>4
<1> QED
  BY <1>1, <1>2, <1>3, <1>4

-----------------------------------------------------------------------------
(* Quotient and remainder, for the theorems about sectors and pages. *)
LEMMA DivMod ==
  ASSUME NEW a \in Int, NEW b \in Nat \ {0}
  PROVE  /\ a \div b \in Int /\ a % b \in 0..(b - 1)
         /\ \A q, r \in Int : q = a \div b /\ r = a % b => a = q * b + r
         /\ \A q, r \in Int : 0 <= r /\ r < b /\ a = q * b + r =>
              a \div b = q /\ a % b = r
<1>1. a \div b \in Int /\ a % b \in Int /\ 0 <= a % b /\ a % b < b
  OBVIOUS
<1>2. ASSUME NEW q \in Int, NEW r \in Int, q = a \div b, r = a % b
      PROVE  a = q * b + r
  BY <1>2
<1>3. ASSUME NEW q \in Int, NEW r \in Int, 0 <= r, r < b, a = q * b + r
      PROVE  a \div b = q /\ a % b = r
  BY <1>3
<1> QED
  BY <1>1, <1>2, <1>3
=============================================================================
