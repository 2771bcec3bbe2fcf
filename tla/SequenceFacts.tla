--------------------------- MODULE SequenceFacts ---------------------------
(***************************************************************************)
(* Facts about the elements of sequences that the proofs of the components *)
(* keep needing: what appending, taking the head off and removing an       *)
(* element do to the positions and to the set of elements, and the least   *)
(* of a set of positions.                                                  *)
(***************************************************************************)
EXTENDS Integers, SequencesExt, SequenceTheorems, FiniteSetTheorems,
        WellFoundedInduction, TLAPS

(***************************************************************************)
(* Natural numbers.                                                        *)
(***************************************************************************)

(* A set of natural numbers that is not empty has a least member, and Min  *)
(* is that member.                                                         *)
LEMMA MinIsLeast ==
  ASSUME NEW S \in SUBSET Nat, S # {}
  PROVE  Min(S) \in S /\ \A n \in S : Min(S) <= n
<1> DEFINE R == {p \in Nat \X Nat : p[1] < p[2]}
<1>1. IsWellFoundedOn(R, Nat)
  BY NatLessThanWellFounded DEF OpToRel
<1>2. \E x \in S : \A y \in S : x <= y
  <2>1. \A x, y \in S : y < x => <<y, x>> \in R
    OBVIOUS
  <2> HIDE DEF R
  <2>2. PICK x \in S : \A y \in S : <<y, x>> \notin R
    BY <1>1, WFMin
  <2>3. \A y \in S : x <= y
    <3> TAKE y \in S
    <3>1. ~(y < x)
      BY <2>1, <2>2
    <3> QED
      BY <3>1
  <2> QED
    BY <2>3
<1> QED
  BY <1>2 DEF Min

(* Max is the greatest member of a set of natural numbers with a bound.    *)
LEMMA MaxIsGreatest ==
  ASSUME NEW S \in SUBSET Nat, S # {}, NEW b \in Nat, \A n \in S : n <= b
  PROVE  Max(S) \in S /\ \A n \in S : n <= Max(S)
<1> DEFINE D == {b - n : n \in S}
<1>1. D \in SUBSET Nat /\ D # {}
  <2>1. \A n \in S : b - n \in Nat
    OBVIOUS
  <2>2. PICK n \in S : TRUE
    OBVIOUS
  <2>3. b - n \in D
    OBVIOUS
  <2> QED
    BY <2>1, <2>3
<1> HIDE DEF D
<1>2. Min(D) \in D /\ \A k \in D : Min(D) <= k
  BY <1>1, MinIsLeast
<1>3. PICK m \in S : Min(D) = b - m
  BY <1>2 DEF D
<1>4. \A n \in S : n <= m
  <2> TAKE n \in S
  <2>1. b - n \in D
    BY DEF D
  <2>2. b - m <= b - n
    BY <1>2, <1>3, <2>1
  <2> QED
    BY <2>2
<1>5. \E x \in S : \A y \in S : x >= y
  BY <1>4
<1> QED
  BY <1>5 DEF Max

(* Induction, with the property given as the set of the numbers that have  *)
(* it.                                                                     *)
LEMMA SetInduction ==
  ASSUME NEW S \in SUBSET Nat, 0 \in S, \A n \in S : n + 1 \in S
  PROVE  S = Nat
<1> SUFFICES ASSUME Nat \ S # {}
             PROVE  FALSE
  OBVIOUS
<1> DEFINE m == Min(Nat \ S)
<1>1. m \in Nat \ S /\ \A n \in Nat \ S : m <= n
  BY MinIsLeast
<1> HIDE DEF m
<1>2. m # 0 /\ m - 1 \in Nat
  BY <1>1
<1>3. m - 1 \in S
  BY <1>1, <1>2
<1> QED
  BY <1>1, <1>2, <1>3

(***************************************************************************)
(* Positions and elements.                                                 *)
(***************************************************************************)

(* s repeats nothing.                                                      *)
Once(s) == \A i, j \in 1 .. Len(s) : s[i] = s[j] => i = j

(* The elements of a sequence are those at its positions.                  *)
LEMMA ElementsOf ==
  ASSUME NEW T, NEW s \in Seq(T)
  PROVE  /\ Len(s) \in Nat
         /\ DOMAIN s = 1 .. Len(s)
         /\ \A i \in 1 .. Len(s) : s[i] \in T
  BY LenProperties, ElementOfSeq

LEMMA ElementIff ==
  ASSUME NEW T, NEW s \in Seq(T), NEW x
  PROVE  x \in ToSet(s) <=> \E i \in 1 .. Len(s) : s[i] = x
  BY LenProperties DEF ToSet

(* Appending adds one position, the last, and one element.                 *)
LEMMA Appended ==
  ASSUME NEW T, NEW s \in Seq(T), NEW e \in T
  PROVE  /\ Append(s, e) \in Seq(T)
         /\ Len(Append(s, e)) = Len(s) + 1
         /\ \A i \in 1 .. Len(s) : Append(s, e)[i] = s[i]
         /\ Append(s, e)[Len(s) + 1] = e
         /\ ToSet(Append(s, e)) = ToSet(s) \cup {e}
<1>1. /\ Append(s, e) \in Seq(T)
      /\ Len(Append(s, e)) = Len(s) + 1
      /\ \A i \in 1 .. Len(s) : Append(s, e)[i] = s[i]
      /\ Append(s, e)[Len(s) + 1] = e
  BY LenProperties
<1>2. \A i \in 1 .. Len(s) + 1 : i \in 1 .. Len(s) \/ i = Len(s) + 1
  BY LenProperties
<1>3. ASSUME NEW x
      PROVE  x \in ToSet(Append(s, e)) <=> x \in ToSet(s) \cup {e}
  <2>1. x \in ToSet(s) <=> \E i \in 1 .. Len(s) : s[i] = x
    BY ElementIff
  <2>2. x \in ToSet(Append(s, e))
          <=> \E i \in 1 .. Len(Append(s, e)) : Append(s, e)[i] = x
    BY <1>1, ElementIff
  <2>3. 1 .. Len(s) \subseteq 1 .. Len(s) + 1 /\ Len(s) + 1 \in 1 .. Len(s) + 1
    BY LenProperties
  <2> QED
    BY <1>1, <1>2, <2>1, <2>2, <2>3
<1> QED
  BY <1>1, <1>3

(* Taking the head off moves every other element one position forward.     *)
LEMMA Beheaded ==
  ASSUME NEW T, NEW s \in Seq(T), s # <<>>
  PROVE  /\ Len(s) \in Nat \ {0}
         /\ Head(s) = s[1] /\ Head(s) \in T
         /\ Tail(s) \in Seq(T) /\ Len(Tail(s)) = Len(s) - 1
         /\ \A i \in 1 .. Len(s) - 1 : Tail(s)[i] = s[i + 1]
         /\ ToSet(s) = {Head(s)} \cup ToSet(Tail(s))
<1>1. /\ Len(s) \in Nat \ {0}
      /\ Head(s) = s[1] /\ Head(s) \in T
      /\ Tail(s) \in Seq(T) /\ Len(Tail(s)) = Len(s) - 1
      /\ \A i \in 1 .. Len(s) - 1 : Tail(s)[i] = s[i + 1]
  BY HeadTailProperties, EmptySeq
<1>2. \A i \in 1 .. Len(s) : i = 1 \/ (i - 1 \in 1 .. Len(s) - 1 /\ s[i] = Tail(s)[i - 1])
  BY <1>1
<1>3. ASSUME NEW x
      PROVE  x \in ToSet(s) <=> x \in {Head(s)} \cup ToSet(Tail(s))
  <2>1. x \in ToSet(s) <=> \E i \in 1 .. Len(s) : s[i] = x
    BY ElementIff
  <2>2. x \in ToSet(Tail(s))
          <=> \E i \in 1 .. Len(Tail(s)) : Tail(s)[i] = x
    BY <1>1, ElementIff
  <2>3. \A i \in 1 .. Len(s) - 1 : i + 1 \in 1 .. Len(s)
    BY <1>1
  <2>4. 1 \in 1 .. Len(s)
    BY <1>1
  <2> QED
    BY <1>1, <1>2, <2>1, <2>2, <2>3, <2>4
<1> QED
  BY <1>1, <1>3

(* Putting an element in front moves every other one position back.        *)
LEMMA Prepended ==
  ASSUME NEW T, NEW s \in Seq(T), NEW e \in T
  PROVE  /\ <<e>> \o s \in Seq(T)
         /\ Len(<<e>> \o s) = Len(s) + 1
         /\ (<<e>> \o s)[1] = e
         /\ \A i \in 1 .. Len(s) : (<<e>> \o s)[i + 1] = s[i]
         /\ ToSet(<<e>> \o s) = {e} \cup ToSet(s)
<1>0. Len(s) \in Nat
  BY ElementsOf
<1>1. /\ <<e>> \o s \in Seq(T)
      /\ Len(<<e>> \o s) = Len(s) + 1
      /\ \A i \in 1 .. Len(s) + 1 :
           (<<e>> \o s)[i] = IF i <= 1 THEN e ELSE s[i - 1]
  <2> DEFINE a == <<e>>
  <2>1. a \in Seq(T) /\ Len(a) = 1 /\ a[1] = e
    OBVIOUS
  <2> HIDE DEF a
  <2>2. /\ a \o s \in Seq(T) /\ Len(a \o s) = Len(a) + Len(s)
        /\ \A i \in 1 .. Len(a) + Len(s) :
             (a \o s)[i] = IF i <= Len(a) THEN a[i] ELSE s[i - Len(a)]
    BY <2>1, ConcatProperties
  <2>3. \A i \in 1 .. Len(s) + 1 : (a \o s)[i] = IF i <= 1 THEN e ELSE s[i - 1]
    BY <2>1, <2>2, <1>0
  <2> QED
    BY <2>1, <2>2, <2>3, <1>0 DEF a
<1> DEFINE r == <<e>> \o s
<1> HIDE DEF r
<1>2. /\ r \in Seq(T) /\ Len(r) = Len(s) + 1
      /\ \A i \in 1 .. Len(s) + 1 : r[i] = IF i <= 1 THEN e ELSE s[i - 1]
  BY <1>1 DEF r
<1>3. /\ r[1] = e
      /\ \A i \in 1 .. Len(s) : i + 1 \in 1 .. Len(s) + 1 /\ r[i + 1] = s[i]
  BY <1>0, <1>2
<1>4. ASSUME NEW x
      PROVE  x \in ToSet(r) <=> x \in {e} \cup ToSet(s)
  <2>1. x \in ToSet(s) <=> \E i \in 1 .. Len(s) : s[i] = x
    BY ElementIff
  <2>2. x \in ToSet(r) <=> \E i \in 1 .. Len(r) : r[i] = x
    BY <1>2, ElementIff
  <2>3. \A i \in 1 .. Len(s) + 1 : i = 1 \/ (i - 1 \in 1 .. Len(s) /\ r[i] = s[i - 1])
    BY <1>0, <1>2
  <2>4. 1 \in 1 .. Len(s) + 1
    BY <1>0
  <2> QED
    BY <1>2, <1>3, <2>1, <2>2, <2>3, <2>4
<1> QED
  BY <1>2, <1>3, <1>4 DEF r

LEMMA FirstNumbers ==
  ASSUME NEW n \in Nat
  PROVE  IsFiniteSet(1 .. n) /\ Cardinality(1 .. n) = n
<1>1. IsFiniteSet(1 .. n) /\ Cardinality(1 .. n) = IF 1 > n THEN 0 ELSE n - 1 + 1
  BY FS_Interval
<1> QED
  BY <1>1

(* A sequence that repeats nothing has as many elements as positions.      *)
LEMMA Counted ==
  ASSUME NEW T, NEW s \in Seq(T), Once(s)
  PROVE  /\ IsFiniteSet(ToSet(s))
         /\ Cardinality(ToSet(s)) = Len(s)
<1> DEFINE P == 1 .. Len(s)
           E == ToSet(s)
<1>1. Len(s) \in Nat /\ DOMAIN s = P
  BY ElementsOf
<1>2. IsFiniteSet(P) /\ Cardinality(P) = Len(s)
  BY <1>1, FirstNumbers
<1>3. s \in [P -> E] /\ \A x \in E : \E i \in P : s[i] = x
  <2>1. s = [i \in P |-> s[i]]
    BY <1>1, LenProperties
  <2>2. \A i \in P : s[i] \in E
    BY <1>1 DEF ToSet
  <2>3. \A x \in E : \E i \in P : s[i] = x
    BY <1>1 DEF ToSet
  <2> HIDE DEF P, E
  <2> QED
    BY <2>1, <2>2, <2>3
<1> HIDE DEF P, E
<1>4. ExistsBijection(P, E)
  <2>1. s \in Surjection(P, E)
    BY <1>3 DEF Surjection
  <2>2. s \in Injection(P, E)
    BY <1>3 DEF Injection, IsInjective, Once, P
  <2> QED
    BY <2>1, <2>2 DEF ExistsBijection, Bijection
<1>5. IsFiniteSet(E) /\ Cardinality(E) = Cardinality(P)
  BY <1>2, <1>4, FS_Bijection
<1> QED
  BY <1>2, <1>5 DEF E

(* Removing position k moves the elements behind it one position forward.  *)
LEMMA Removed ==
  ASSUME NEW T, NEW s \in Seq(T), NEW k \in 1 .. Len(s)
  PROVE  /\ RemoveAt(s, k) \in Seq(T)
         /\ Len(RemoveAt(s, k)) = Len(s) - 1
         /\ \A i \in 1 .. Len(s) - 1 :
              RemoveAt(s, k)[i] = IF i < k THEN s[i] ELSE s[i + 1]
         /\ ToSet(s) = {s[k]} \cup ToSet(RemoveAt(s, k))
<1> DEFINE a == SubSeq(s, 1, k - 1)
           b == SubSeq(s, k + 1, Len(s))
           r == RemoveAt(s, k)
<1>0. Len(s) \in Nat /\ \A i \in 1 .. Len(s) : s[i] \in T
  BY ElementsOf
<1>1. /\ a \in Seq(T) /\ Len(a) = k - 1
      /\ \A i \in 1 .. k - 1 : a[i] = s[i]
  <2>1. /\ a \in Seq(T) /\ Len(a) = IF 1 <= k - 1 THEN (k - 1) - 1 + 1 ELSE 0
        /\ \A i \in 1 .. (k - 1) - 1 + 1 : a[i] = s[1 + i - 1]
    <3>1. 1 \in Int /\ k - 1 \in Int /\ \A i \in 1 .. (k - 1) : s[i] \in T
      BY <1>0
    <3> QED
      BY <3>1, SubSeqProperties
  <2> QED
    BY <2>1, <1>0
<1>2. /\ b \in Seq(T) /\ Len(b) = Len(s) - k
      /\ \A i \in 1 .. Len(s) - k : b[i] = s[k + i]
  <2>1. /\ b \in Seq(T)
        /\ Len(b) = IF k + 1 <= Len(s) THEN Len(s) - (k + 1) + 1 ELSE 0
        /\ \A i \in 1 .. Len(s) - (k + 1) + 1 : b[i] = s[(k + 1) + i - 1]
    <3>1. k + 1 \in Int /\ Len(s) \in Int /\ \A i \in k + 1 .. Len(s) : s[i] \in T
      BY <1>0
    <3> QED
      BY <3>1, SubSeqProperties
  <2> QED
    BY <2>1, <1>0
<1> HIDE DEF a, b
<1>3. /\ a \o b \in Seq(T) /\ Len(a \o b) = Len(a) + Len(b)
      /\ \A i \in 1 .. Len(a) + Len(b) :
           (a \o b)[i] = IF i <= Len(a) THEN a[i] ELSE b[i - Len(a)]
  BY <1>1, <1>2, ConcatProperties
<1>4. r = a \o b
  BY DEF RemoveAt, a, b
<1> HIDE DEF r
<1>5. r \in Seq(T) /\ Len(r) = Len(s) - 1
  <2>1. (k - 1) + (Len(s) - k) = Len(s) - 1
    BY <1>0
  <2> QED
    BY <2>1, <1>1, <1>2, <1>3, <1>4
<1>6. ASSUME NEW i \in 1 .. Len(s) - 1
      PROVE  r[i] = IF i < k THEN s[i] ELSE s[i + 1]
  <2>1. CASE i < k
    BY <2>1, <1>0, <1>1, <1>2, <1>3, <1>4
  <2>2. CASE i >= k
    <3>1. /\ i - (k - 1) \in 1 .. Len(s) - k /\ k + (i - (k - 1)) = i + 1
          /\ i \in 1 .. (k - 1) + (Len(s) - k) /\ ~(i <= k - 1) /\ ~(i < k)
      BY <2>2, <1>0
    <3>2. r[i] = b[i - (k - 1)]
      BY <3>1, <1>1, <1>2, <1>3, <1>4
    <3> QED
      BY <3>1, <3>2, <1>2
  <2> QED
    BY <2>1, <2>2, <1>0
<1>7. ToSet(s) = {s[k]} \cup ToSet(r)
  <2>1. \A i \in 1 .. Len(s) :
          \/ i = k
          \/ i \in 1 .. Len(s) - 1 /\ i < k
          \/ i - 1 \in 1 .. Len(s) - 1 /\ ~(i - 1 < k) /\ (i - 1) + 1 = i
    BY <1>0
  <2>2. \A i \in 1 .. Len(s) : s[i] = s[k] \/ \E j \in 1 .. Len(r) : r[j] = s[i]
    BY <2>1, <1>0, <1>5, <1>6
  <2>3. \A j \in 1 .. Len(r) : \E i \in 1 .. Len(s) : s[i] = r[j]
    BY <1>0, <1>5, <1>6
  <2>4. ASSUME NEW x
        PROVE  x \in ToSet(s) <=> x \in {s[k]} \cup ToSet(r)
    <3>1. x \in ToSet(s) <=> \E i \in 1 .. Len(s) : s[i] = x
      BY ElementIff
    <3>2. x \in ToSet(r) <=> \E i \in 1 .. Len(r) : r[i] = x
      BY <1>5, ElementIff
    <3> QED
      BY <2>2, <2>3, <3>1, <3>2
  <2> QED
    BY <2>4
<1> QED
  BY <1>5, <1>6, <1>7 DEF r

(***************************************************************************)
(* Sequences that repeat nothing.                                          *)
(***************************************************************************)

(* Removing an element of such a sequence leaves the others, once each.    *)
LEMMA RemovedOnce ==
  ASSUME NEW T, NEW s \in Seq(T), Once(s), NEW k \in 1 .. Len(s)
  PROVE  /\ Once(RemoveAt(s, k))
         /\ ToSet(RemoveAt(s, k)) = ToSet(s) \ {s[k]}
<1> DEFINE r == RemoveAt(s, k)
<1>1. /\ r \in Seq(T) /\ Len(r) = Len(s) - 1 /\ Len(s) \in Nat
      /\ \A i \in 1 .. Len(s) - 1 : r[i] = IF i < k THEN s[i] ELSE s[i + 1]
      /\ ToSet(s) = {s[k]} \cup ToSet(r)
  BY Removed, ElementsOf
<1> HIDE DEF r
<1> DEFINE from(i) == IF i < k THEN i ELSE i + 1
<1>2. \A i \in 1 .. Len(r) :
        from(i) \in 1 .. Len(s) /\ from(i) # k /\ r[i] = s[from(i)]
  BY <1>1
<1>3. \A i, j \in 1 .. Len(r) : from(i) = from(j) => i = j
  BY <1>1
<1> HIDE DEF from
<1>4. Once(r)
  BY <1>2, <1>3 DEF Once
<1>5. \A i \in 1 .. Len(r) : r[i] # s[k]
  BY <1>2 DEF Once
<1>6. s[k] \notin ToSet(r)
  BY <1>1, <1>5, ElementIff
<1> QED
  BY <1>1, <1>4, <1>6 DEF r

(* So does putting something new in front.                                 *)
LEMMA PrependedOnce ==
  ASSUME NEW T, NEW s \in Seq(T), Once(s), NEW e \in T, e \notin ToSet(s)
  PROVE  Once(<<e>> \o s)
<1> DEFINE r == <<e>> \o s
<1>1. /\ Len(r) = Len(s) + 1 /\ Len(s) \in Nat /\ r[1] = e
      /\ \A i \in 1 .. Len(s) : r[i + 1] = s[i]
  BY Prepended, ElementsOf
<1> HIDE DEF r
<1>2. \A i \in 1 .. Len(r) : i # 1 => i - 1 \in 1 .. Len(s) /\ r[i] = s[i - 1]
  BY <1>1
<1>3. \A i \in 1 .. Len(s) : s[i] # e
  BY ElementIff
<1>4. ASSUME NEW i \in 1 .. Len(r), NEW j \in 1 .. Len(r), r[i] = r[j]
      PROVE  i = j
  <2>1. CASE i = 1 \/ j = 1
    BY <2>1, <1>1, <1>2, <1>3, <1>4
  <2>2. CASE i # 1 /\ j # 1
    <3>1. i - 1 = j - 1
      BY <2>2, <1>2, <1>4 DEF Once
    <3> QED
      BY <3>1, <1>1
  <2> QED
    BY <2>1, <2>2
<1> QED
  BY <1>4 DEF Once, r
=============================================================================
