---------------------------- MODULE EditorProofs ----------------------------
(***************************************************************************)
(* Machine-checked proofs about the editor window, for texts, clipboards   *)
(* and undo stacks of any size.                                            *)
(***************************************************************************)
EXTENDS Editor, SequenceFacts

-----------------------------------------------------------------------------
(* The k-th smallest of the positions S.                                   *)

Within(S, n) == S \subseteq 1 .. n

UpTo(S, p) == {j \in S : j <= p}

(* How many of them are at most p.                                         *)
Rank(S, p) == Cardinality(UpTo(S, p))

LEMMA UpToIs ==
  ASSUME NEW n \in Nat, NEW S, Within(S, n), NEW p \in Nat
  PROVE  /\ UpTo(S, 0) = {} /\ UpTo(S, n) = S
         /\ UpTo(S, p) \subseteq S
         /\ p + 1 \in S => UpTo(S, p + 1) = UpTo(S, p) \cup {p + 1} /\ p + 1 \notin UpTo(S, p)
         /\ p + 1 \notin S => UpTo(S, p + 1) = UpTo(S, p)
<1>1. \A j \in S : j \in Nat /\ 1 <= j /\ j <= n
  BY DEF Within
<1>2. p + 1 \in S => UpTo(S, p + 1) = UpTo(S, p) \cup {p + 1} /\ p + 1 \notin UpTo(S, p)
  BY <1>1 DEF UpTo
<1>3. p + 1 \notin S => UpTo(S, p + 1) = UpTo(S, p)
  BY <1>1 DEF UpTo
<1> QED
  BY <1>1, <1>2, <1>3 DEF UpTo

LEMMA RankIsNat ==
  ASSUME NEW n \in Nat, NEW S, Within(S, n)
  PROVE  /\ IsFiniteSet(S) /\ Cardinality(S) \in 0 .. n
         /\ \A p \in Nat : IsFiniteSet(UpTo(S, p)) /\ Rank(S, p) \in 0 .. Cardinality(S)
         /\ Rank(S, 0) = 0
         /\ Rank(S, n) = Cardinality(S)
<1>1. IsFiniteSet(1 .. n) /\ Cardinality(1 .. n) = n
  BY FirstNumbers
<1>2. IsFiniteSet(S) /\ Cardinality(S) <= n
  BY <1>1, FS_Subset DEF Within
<1>3. Cardinality(S) \in Nat
  BY <1>2, FS_CardinalityType
<1>4. ASSUME NEW p \in Nat
      PROVE  IsFiniteSet(UpTo(S, p)) /\ Rank(S, p) \in 0 .. Cardinality(S)
  <2>1. UpTo(S, p) \subseteq S
    BY UpToIs
  <2>2. IsFiniteSet(UpTo(S, p)) /\ Cardinality(UpTo(S, p)) <= Cardinality(S)
    BY <1>2, <2>1, FS_Subset
  <2>3. Cardinality(UpTo(S, p)) \in Nat
    BY <2>2, FS_CardinalityType
  <2> QED
    BY <1>3, <2>2, <2>3 DEF Rank
<1>5. UpTo(S, 0) = {} /\ UpTo(S, n) = S
  BY UpToIs
<1>6. Cardinality({}) = 0
  BY FS_EmptySet
<1> QED
  BY <1>2, <1>3, <1>4, <1>5, <1>6 DEF Rank

LEMMA RankStep ==
  ASSUME NEW n \in Nat, NEW S, Within(S, n), NEW p \in Nat
  PROVE  Rank(S, p + 1) = IF p + 1 \in S THEN Rank(S, p) + 1 ELSE Rank(S, p)
<1>1. IsFiniteSet(UpTo(S, p))
  BY RankIsNat
<1>2. /\ p + 1 \in S => UpTo(S, p + 1) = UpTo(S, p) \cup {p + 1} /\ p + 1 \notin UpTo(S, p)
      /\ p + 1 \notin S => UpTo(S, p + 1) = UpTo(S, p)
  BY UpToIs
<1>3. p + 1 \notin UpTo(S, p)
        => Cardinality(UpTo(S, p) \cup {p + 1}) = Cardinality(UpTo(S, p)) + 1
  BY <1>1, FS_AddElement
<1> QED
  BY <1>2, <1>3 DEF Rank

LEMMA RankGrows ==
  ASSUME NEW n \in Nat, NEW S, Within(S, n), NEW p \in Nat, NEW q \in Nat,
         p <= q
  PROVE  /\ Rank(S, p) <= Rank(S, q)
         /\ q \in S /\ p < q => Rank(S, p) < Rank(S, q)
<1>1. IsFiniteSet(UpTo(S, p)) /\ IsFiniteSet(UpTo(S, q))
  BY RankIsNat
<1>2. \A j \in S : j \in Nat
  BY DEF Within
<1>3. /\ UpTo(S, p) \subseteq UpTo(S, q)
      /\ q \in S /\ p < q => q \in UpTo(S, q) /\ q \notin UpTo(S, p)
  BY <1>2 DEF UpTo
<1>4. /\ Rank(S, p) <= Rank(S, q)
      /\ Rank(S, q) = Rank(S, p) => UpTo(S, q) = UpTo(S, p)
  BY <1>1, <1>3, FS_Subset DEF Rank
<1>5. Rank(S, p) \in Nat /\ Rank(S, q) \in Nat
  BY <1>1, FS_CardinalityType DEF Rank
<1> QED
  BY <1>3, <1>4, <1>5

(* Two of them with the same rank are the same.                            *)
LEMMA NthIs ==
  ASSUME NEW n \in Nat, NEW S, Within(S, n), NEW i \in S, NEW k, k = Rank(S, i)
  PROVE  Nth(S, k) = i
<1>1. \A j \in S : Rank(S, j) = k => j = i
  <2> SUFFICES ASSUME NEW j \in S, Rank(S, j) = k, j # i
               PROVE  FALSE
    OBVIOUS
  <2>1. i \in Nat /\ j \in Nat
    BY DEF Within
  <2>2. Rank(S, i) \in Nat /\ Rank(S, j) \in Nat
    BY <2>1, RankIsNat
  <2>3. CASE i < j
    BY <2>1, <2>2, <2>3, RankGrows
  <2>4. CASE j < i
    BY <2>1, <2>2, <2>4, RankGrows
  <2> QED
    BY <2>1, <2>3, <2>4
<1>2. Nth(S, k) = CHOOSE j \in S : Rank(S, j) = k
  BY DEF Nth, Rank, UpTo
<1> QED
  BY <1>1, <1>2

LEMMA NthOf ==
  ASSUME NEW n \in Nat, NEW S, Within(S, n), NEW k \in 1 .. Cardinality(S)
  PROVE  Nth(S, k) \in S /\ Rank(S, Nth(S, k)) = k
<1> DEFINE Q == {p \in Nat : Rank(S, p) >= k}
           m == Min(Q)
<1>1. /\ Cardinality(S) \in 0 .. n /\ Rank(S, 0) = 0 /\ Rank(S, n) = Cardinality(S)
      /\ \A p \in Nat : Rank(S, p) \in Nat
  BY RankIsNat
<1>2. n \in Q /\ 0 \notin Q /\ k \in Nat
  BY <1>1
<1>3. m \in Q /\ \A p \in Q : m <= p
  <2>1. Q \in SUBSET Nat /\ Q # {}
    BY <1>2
  <2> HIDE DEF Q
  <2> QED
    BY <2>1, MinIsLeast
<1> HIDE DEF m
<1>4. m \in Nat /\ m # 0 /\ m - 1 \in Nat
  BY <1>2, <1>3
<1>5. Rank(S, m) >= k /\ ~(Rank(S, m - 1) >= k)
  BY <1>3, <1>4
<1>6. Rank(S, m - 1 + 1) = IF m - 1 + 1 \in S THEN Rank(S, m - 1) + 1 ELSE Rank(S, m - 1)
  BY <1>4, RankStep
<1>7. m - 1 + 1 = m
  BY <1>4
<1>8. Rank(S, m) \in Nat /\ Rank(S, m - 1) \in Nat
  BY <1>1, <1>4
<1>9. m \in S /\ Rank(S, m) = k
  BY <1>2, <1>5, <1>6, <1>7, <1>8
<1>10. Nth(S, k) = m
  BY <1>9, NthIs
<1> QED
  BY <1>9, <1>10

-----------------------------------------------------------------------------
(* Slices.                                                                 *)

LEMMA MinOf ==
  ASSUME NEW a \in Int, NEW b \in Int
  PROVE  Min({a, b}) = IF a <= b THEN a ELSE b
<1> DEFINE m == IF a <= b THEN a ELSE b
<1>1. m \in {a, b} /\ \A x \in {a, b} : m <= x
  OBVIOUS
<1>2. \A y \in {a, b} : (\A x \in {a, b} : y <= x) => y = m
  OBVIOUS
<1> HIDE DEF m
<1>3. Min({a, b}) = m
  BY <1>1, <1>2 DEF Min
<1> QED
  BY <1>3 DEF m

LEMMA MaxOf ==
  ASSUME NEW a \in Int, NEW b \in Int
  PROVE  Max({a, b}) = IF a <= b THEN b ELSE a
<1> DEFINE m == IF a <= b THEN b ELSE a
<1>1. m \in {a, b} /\ \A x \in {a, b} : m >= x
  OBVIOUS
<1>2. \A y \in {a, b} : (\A x \in {a, b} : y >= x) => y = m
  OBVIOUS
<1> HIDE DEF m
<1>3. Max({a, b}) = m
  BY <1>1, <1>2 DEF Max
<1> QED
  BY <1>3 DEF m

LEMMA SliceIs ==
  ASSUME NEW T, NEW s \in Seq(T), NEW lo \in Nat, NEW hi \in Nat
  PROVE  /\ Slice(s, lo, hi) \in Seq(T)
         /\ lo <= hi /\ hi <= Len(s) =>
              /\ Len(Slice(s, lo, hi)) = hi - lo
              /\ \A i \in 1 .. hi - lo : Slice(s, lo, hi)[i] = s[lo + i]
         /\ hi <= lo => Slice(s, lo, hi) = <<>>
         /\ hi >= Len(s) => Slice(s, lo, hi) = Slice(s, lo, Len(s))
<1> DEFINE m == IF hi <= Len(s) THEN hi ELSE Len(s)
           r == SubSeq(s, lo + 1, m)
<1>1. Len(s) \in Nat /\ \A i \in 1 .. Len(s) : s[i] \in T
  BY ElementsOf
<1>2. Slice(s, lo, hi) = r
  BY <1>1, MinOf DEF Slice
<1>3. Slice(s, lo, Len(s)) = SubSeq(s, lo + 1, Len(s))
  BY <1>1, MinOf DEF Slice
<1>4. m \in Int /\ lo + 1 \in Int /\ \A i \in lo + 1 .. m : s[i] \in T
  BY <1>1
<1>5. /\ r \in Seq(T)
      /\ Len(r) = IF lo + 1 <= m THEN m - (lo + 1) + 1 ELSE 0
      /\ \A i \in 1 .. m - (lo + 1) + 1 : r[i] = s[lo + 1 + i - 1]
  <2> HIDE DEF m
  <2> QED
    BY <1>4, SubSeqProperties
<1>6. ASSUME lo <= hi, hi <= Len(s)
      PROVE  Len(r) = hi - lo /\ \A i \in 1 .. hi - lo : r[i] = s[lo + i]
  <2>1. m = hi
    BY <1>6
  <2> HIDE DEF m, r
  <2>2. Len(r) = hi - lo
    BY <1>5, <1>6, <2>1
  <2>3. ASSUME NEW i \in 1 .. hi - lo
        PROVE  r[i] = s[lo + i]
    <3>1. i \in 1 .. m - (lo + 1) + 1 /\ lo + 1 + i - 1 = lo + i
      BY <2>1
    <3> QED
      BY <1>5, <3>1
  <2> QED
    BY <2>2, <2>3
<1>7. ASSUME hi <= lo
      PROVE  r = <<>>
  <2>1. m < lo + 1
    BY <1>1, <1>7
  <2> HIDE DEF m
  <2> QED
    BY <1>4, <2>1, SubSeqEmpty
<1>8. hi >= Len(s) => m = Len(s)
  BY <1>1
<1> HIDE DEF r, m
<1> QED
  BY <1>2, <1>3, <1>5, <1>6, <1>7, <1>8 DEF r

LEMMA PrefixIs ==
  ASSUME NEW T, NEW s \in Seq(T), NEW o \in 0 .. Len(s)
  PROVE  /\ Slice(s, 0, o) \in Seq(T) /\ Len(Slice(s, 0, o)) = o
         /\ \A i \in 1 .. o : Slice(s, 0, o)[i] = s[i]
<1>1. Len(s) \in Nat /\ o \in Nat /\ 0 \in Nat /\ 0 <= o /\ o <= Len(s)
  BY ElementsOf
<1>2. /\ Slice(s, 0, o) \in Seq(T) /\ Len(Slice(s, 0, o)) = o - 0
      /\ \A i \in 1 .. o - 0 : Slice(s, 0, o)[i] = s[0 + i]
  BY <1>1, SliceIs
<1> QED
  BY <1>1, <1>2

-----------------------------------------------------------------------------
(* Lines and positions.                                                    *)

LEMMA BreaksWithin ==
  ASSUME NEW T, NEW s \in Seq(T)
  PROVE  /\ Within(Breaks(s), Len(s)) /\ Len(s) \in Nat
         /\ \A i \in 1 .. Len(s) : i \in Breaks(s) <=> s[i] = Newline
         /\ Newlines(s) \in 0 .. Len(s)
<1>1. Len(s) \in Nat /\ DOMAIN s = 1 .. Len(s)
  BY ElementsOf
<1>2. Within(Breaks(s), Len(s)) /\ \A i \in 1 .. Len(s) : i \in Breaks(s) <=> s[i] = Newline
  BY <1>1 DEF Within, Breaks
<1> QED
  BY <1>1, <1>2, RankIsNat DEF Newlines

LEMMA RankOfAll ==
  ASSUME NEW T, NEW s \in Seq(T)
  PROVE  /\ Rank(Breaks(s), Len(s)) = Newlines(s) /\ Newlines(s) \in Nat
         /\ Len(s) \in 0 .. Len(s)
  BY BreaksWithin, RankIsNat DEF Newlines

LEMMA RowIsRank ==
  ASSUME NEW T, NEW s \in Seq(T), NEW o \in 0 .. Len(s)
  PROVE  /\ Newlines(Slice(s, 0, o)) = Rank(Breaks(s), o)
         /\ Rank(Breaks(s), o) \in 0 .. Newlines(s)
<1> DEFINE r == Slice(s, 0, o)
<1>1. Len(s) \in Nat /\ DOMAIN s = 1 .. Len(s) /\ o \in Nat
  BY ElementsOf
<1>2. r \in Seq(T) /\ Len(r) = o /\ \A i \in 1 .. o : r[i] = s[i]
  BY PrefixIs
<1>3. DOMAIN r = 1 .. o
  BY <1>2, ElementsOf
<1> HIDE DEF r
<1>4. Breaks(r) = UpTo(Breaks(s), o)
  BY <1>1, <1>2, <1>3 DEF Breaks, UpTo
<1>5. Rank(Breaks(s), o) \in 0 .. Newlines(s)
  BY <1>1, BreaksWithin, RankIsNat DEF Newlines
<1> QED
  BY <1>4, <1>5 DEF Newlines, Rank, r

LEMMA LineStartIs ==
  ASSUME NEW T, NEW s \in Seq(T), NEW row \in 0 .. Newlines(s)
  PROVE  /\ LineStart(s, row) \in 0 .. Len(s)
         /\ Rank(Breaks(s), LineStart(s, row)) = row
         /\ row > 0 => LineStart(s, row) \in Breaks(s)
<1>1. /\ Within(Breaks(s), Len(s)) /\ Len(s) \in Nat
      /\ Newlines(s) \in 0 .. Len(s)
  BY BreaksWithin
<1>2. CASE row = 0
  BY <1>1, <1>2, RankIsNat DEF LineStart
<1>3. CASE row > 0
  <2>1. row \in 1 .. Cardinality(Breaks(s))
    BY <1>1, <1>3 DEF Newlines
  <2>2. /\ Nth(Breaks(s), row) \in Breaks(s)
        /\ Rank(Breaks(s), Nth(Breaks(s), row)) = row
    BY <1>1, <2>1, NthOf
  <2>3. LineStart(s, row) = Nth(Breaks(s), row)
    BY <1>3 DEF LineStart
  <2> QED
    BY <1>1, <2>2, <2>3 DEF Within
<1> QED
  BY <1>1, <1>2, <1>3

(* Offset b is where the row of offset o begins.                           *)
Begins(s, o, b) ==
  /\ b \in 0 .. o /\ (b = 0 \/ s[b] = Newline)
  /\ \A i \in b + 1 .. o : s[i] # Newline

LEMMA RowBegins ==
  ASSUME NEW T, NEW s \in Seq(T), NEW o \in 0 .. Len(s)
  PROVE  Begins(s, o, LineStart(s, Rank(Breaks(s), o)))
<1> DEFINE row == Rank(Breaks(s), o)
           b   == LineStart(s, row)
<1>1. /\ Within(Breaks(s), Len(s)) /\ Len(s) \in Nat
      /\ \A i \in 1 .. Len(s) : i \in Breaks(s) <=> s[i] = Newline
  BY BreaksWithin
<1>2. row \in 0 .. Newlines(s)
  BY RowIsRank
<1>3. b \in 0 .. Len(s) /\ Rank(Breaks(s), b) = row /\ (row > 0 => b \in Breaks(s))
  BY <1>2, LineStartIs
<1>4. row = 0 => b = 0
  BY DEF LineStart
<1>5. row \in Nat
  BY <1>1, <1>2, BreaksWithin
<1> HIDE DEF b
<1>6. b <= o
  <2> SUFFICES ASSUME o < b
               PROVE  FALSE
    BY <1>1, <1>3
  <2>1. b \in Breaks(s)
    BY <1>3, <1>4, <1>5
  <2>2. Rank(Breaks(s), o) < Rank(Breaks(s), b)
    BY <1>1, <1>3, <2>1, RankGrows
  <2> QED
    BY <1>3, <1>5, <2>2
<1>7. b = 0 \/ s[b] = Newline
  BY <1>1, <1>3, <1>4, <1>5
<1>8. ASSUME NEW i \in b + 1 .. o, s[i] = Newline
      PROVE  FALSE
  <2>1. i \in Breaks(s) /\ i \in Nat /\ b \in Nat /\ b < i /\ i <= o
    BY <1>1, <1>3, <1>8
  <2>2. Rank(Breaks(s), b) < Rank(Breaks(s), i) /\ Rank(Breaks(s), i) <= Rank(Breaks(s), o)
    BY <1>1, <2>1, RankGrows
  <2>3. Rank(Breaks(s), i) \in Nat
    BY <1>1, <2>1, RankIsNat
  <2> QED
    BY <1>3, <1>5, <2>2, <2>3
<1> QED
  BY <1>1, <1>3, <1>6, <1>7, <1>8 DEF Begins, b

LEMMA PosIs ==
  ASSUME NEW T, NEW s \in Seq(T), NEW o \in 0 .. Len(s)
  PROVE  /\ Begins(s, o, LineStart(s, Rank(Breaks(s), o)))
         /\ \A b : Begins(s, o, b) => PosOf(s, o) = <<Rank(Breaks(s), o), o - b>>
         /\ PosOf(s, o) = <<Rank(Breaks(s), o), o - LineStart(s, Rank(Breaks(s), o))>>
         /\ PosOf(s, o) \in Nat \X Nat
<1> DEFINE row == Rank(Breaks(s), o)
           c   == LineStart(s, row)
<1>1. Len(s) \in Nat /\ o \in Nat /\ \A i \in 1 .. Len(s) : i \in Breaks(s) <=> s[i] = Newline
  BY BreaksWithin
<1>2. Begins(s, o, c)
  BY RowBegins
<1>3. Min({o, Len(s)}) = o
  BY <1>1, MinOf
<1>4. PosOf(s, o) = <<row, o - c>>
  BY <1>3, RowIsRank DEF PosOf
<1>5. row \in Nat
  BY <1>1, RowIsRank, BreaksWithin
<1> HIDE DEF row, c
<1>6. o - c \in Nat
  BY <1>1, <1>2 DEF Begins
<1>7. ASSUME NEW b, Begins(s, o, b)
      PROVE  b = c
  BY <1>1, <1>2, <1>7 DEF Begins
<1> QED
  BY <1>2, <1>4, <1>5, <1>6, <1>7 DEF row, c

(* Offsets behind the end are at the end.                                  *)
LEMMA PosClamped ==
  ASSUME NEW T, NEW s \in Seq(T), NEW o \in Nat, o >= Len(s)
  PROVE  PosOf(s, o) = PosOf(s, Len(s))
<1>1. Len(s) \in Nat
  BY ElementsOf
<1>2. Min({o, Len(s)}) = Len(s) /\ Min({Len(s), Len(s)}) = Len(s)
  BY <1>1, MinOf
<1>3. Slice(s, 0, o) = Slice(s, 0, Len(s))
  BY <1>1, SliceIs
<1> QED
  BY <1>2, <1>3 DEF PosOf

LEMMA PosType ==
  ASSUME NEW T, NEW s \in Seq(T), NEW o \in Nat
  PROVE  PosOf(s, o) \in Positions(s) /\ Positions(s) \subseteq Nat \X Nat
<1>1. Len(s) \in Nat
  BY ElementsOf
<1>2. \A p \in 0 .. Len(s) : PosOf(s, p) \in Nat \X Nat
  BY PosIs
<1>3. PosOf(s, o) \in Positions(s)
  <2>1. CASE o \in 0 .. Len(s)
    BY <2>1 DEF Positions
  <2>2. CASE o >= Len(s)
    <3>1. PosOf(s, o) = PosOf(s, Len(s)) /\ Len(s) \in 0 .. Len(s)
      BY <1>1, <2>2, PosClamped
    <3> QED
      BY <3>1 DEF Positions
  <2> QED
    BY <1>1, <2>1, <2>2
<1> QED
  BY <1>2, <1>3 DEF Positions

(* Where a row ends: before the next one begins, or with the text.         *)
LEMMA LineEndIs ==
  ASSUME NEW T, NEW s \in Seq(T), NEW row \in 0 .. Newlines(s)
  PROVE  /\ LineStart(s, row) \in 0 .. Len(s)
         /\ LineEnd(s, row) \in LineStart(s, row) .. Len(s)
         /\ LineLen(s, row) = LineEnd(s, row) - LineStart(s, row)
         /\ \A o \in 0 .. Len(s) :
              Rank(Breaks(s), o) = row => o \in LineStart(s, row) .. LineEnd(s, row)
<1> DEFINE b == LineStart(s, row)
           n == LineStart(s, row + 1)
<1>1. /\ Within(Breaks(s), Len(s)) /\ Len(s) \in Nat
      /\ Newlines(s) \in 0 .. Len(s) /\ row \in Nat
  BY BreaksWithin
<1>2. b \in 0 .. Len(s) /\ Rank(Breaks(s), b) = row
  BY LineStartIs
<1>3. ASSUME NEW o \in 0 .. Len(s), Rank(Breaks(s), o) = row
      PROVE  b <= o
  <2>1. Begins(s, o, b)
    BY <1>3, RowBegins
  <2> QED
    BY <2>1 DEF Begins
<1>4. LineLen(s, row) = LineEnd(s, row) - LineStart(s, row)
  BY <1>1 DEF LineLen, LineCount
<1>5. CASE row = Newlines(s)
  <2>1. LineEnd(s, row) = Len(s)
    BY <1>1, <1>5 DEF LineEnd, LineCount
  <2> QED
    BY <1>1, <1>2, <1>3, <1>4, <2>1
<1>6. CASE row < Newlines(s)
  <2>1. LineEnd(s, row) = n - 1
    BY <1>1, <1>6 DEF LineEnd, LineCount
  <2>2. row + 1 \in 0 .. Newlines(s) /\ row + 1 > 0
    BY <1>1, <1>6
  <2>3. n \in 0 .. Len(s) /\ Rank(Breaks(s), n) = row + 1 /\ n \in Breaks(s)
    BY <2>2, LineStartIs
  <2>4. ASSUME NEW o \in 0 .. Len(s), Rank(Breaks(s), o) = row
        PROVE  o < n
    <3> SUFFICES ASSUME n <= o
                 PROVE  FALSE
      BY <1>1, <2>3
    <3>1. Rank(Breaks(s), n) <= Rank(Breaks(s), o)
      BY <1>1, <2>3, RankGrows
    <3> QED
      BY <1>1, <2>3, <2>4, <3>1
  <2>5. b < n
    BY <1>2, <2>4
  <2> HIDE DEF b, n
  <2>6. LineEnd(s, row) \in b .. Len(s) /\ \A o \in 0 .. Len(s) :
          Rank(Breaks(s), o) = row => o \in b .. LineEnd(s, row)
    BY <1>1, <1>2, <1>3, <2>1, <2>3, <2>4, <2>5
  <2> QED
    BY <1>2, <1>4, <2>6 DEF b
<1> QED
  BY <1>1, <1>5, <1>6

LEMMA OffsetType ==
  ASSUME NEW T, NEW s \in Seq(T), NEW pos \in Nat \X Nat
  PROVE  OffsetOf(s, pos) \in 0 .. Len(s)
<1>1. Len(s) \in Nat /\ Newlines(s) \in 0 .. Len(s) /\ pos[1] \in Nat /\ pos[2] \in Nat
  BY BreaksWithin
<1>2. CASE pos[1] < LineCount(s)
  <2> DEFINE row == pos[1]
             b == LineStart(s, row)
             l == LineLen(s, row)
  <2>1. row \in 0 .. Newlines(s)
    BY <1>1, <1>2 DEF LineCount
  <2> HIDE DEF row
  <2>2. b \in 0 .. Len(s) /\ LineEnd(s, row) \in b .. Len(s) /\ l = LineEnd(s, row) - b
    BY <2>1, LineEndIs
  <2>3. OffsetOf(s, pos) = b + Min({pos[2], l})
    BY <1>2 DEF OffsetOf, row
  <2> HIDE DEF b, l
  <2>4. l \in Nat /\ l <= Len(s) - b
    BY <1>1, <2>2
  <2>5. Min({pos[2], l}) = IF pos[2] <= l THEN pos[2] ELSE l
    BY <1>1, <2>4, MinOf
  <2> QED
    BY <1>1, <2>2, <2>3, <2>4, <2>5
<1>3. CASE ~(pos[1] < LineCount(s))
  BY <1>1, <1>3 DEF OffsetOf
<1> QED
  BY <1>2, <1>3

(* Offsets are found again from their positions.                           *)
LEMMA OffsetOfPos ==
  ASSUME NEW T, NEW s \in Seq(T), NEW o \in 0 .. Len(s)
  PROVE  OffsetOf(s, PosOf(s, o)) = o
<1> DEFINE row == Rank(Breaks(s), o)
           b   == LineStart(s, row)
           l   == LineLen(s, row)
<1>1. Len(s) \in Nat /\ Newlines(s) \in 0 .. Len(s)
  BY BreaksWithin
<1>2. row \in 0 .. Newlines(s)
  BY RowIsRank
<1>3. /\ b \in 0 .. Len(s) /\ LineEnd(s, row) \in b .. Len(s)
      /\ l = LineEnd(s, row) - b /\ o \in b .. LineEnd(s, row)
  BY <1>2, LineEndIs
<1>4. PosOf(s, o) = <<row, o - b>>
  BY PosIs
<1>5. row < LineCount(s)
  BY <1>1, <1>2 DEF LineCount
<1> HIDE DEF row, l, b
<1>6. OffsetOf(s, <<row, o - b>>) = b + Min({o - b, l})
  BY <1>5 DEF OffsetOf, b, l
<1>7. Min({o - b, l}) = o - b
  BY <1>1, <1>3, MinOf
<1> QED
  BY <1>1, <1>3, <1>4, <1>6, <1>7

LEMMA PosOfOffset ==
  ASSUME NEW T, NEW s \in Seq(T), NEW pos \in Positions(s)
  PROVE  PosOf(s, OffsetOf(s, pos)) = pos /\ OffsetOf(s, pos) \in 0 .. Len(s)
<1>1. PICK o \in 0 .. Len(s) : pos = PosOf(s, o)
  BY DEF Positions
<1> QED
  BY <1>1, OffsetOfPos

LEMMA LineType ==
  ASSUME NEW T, NEW s \in Seq(T), NEW row \in Nat
  PROVE  Line(s, row) \in Seq(T)
<1>1. Len(s) \in Nat /\ Newlines(s) \in 0 .. Len(s)
  BY BreaksWithin
<1>2. CASE row < LineCount(s)
  <2>1. row \in 0 .. Newlines(s)
    BY <1>1, <1>2 DEF LineCount
  <2>2. LineStart(s, row) \in Nat /\ LineEnd(s, row) \in Nat
    BY <1>1, <2>1, LineEndIs
  <2>3. Slice(s, LineStart(s, row), LineEnd(s, row)) \in Seq(T)
    BY <2>2, SliceIs
  <2> QED
    BY <1>2, <2>3 DEF Line
<1>3. CASE ~(row < LineCount(s))
  BY <1>3, EmptySeq DEF Line
<1> QED
  BY <1>2, <1>3

(* A row begins at its column 0.                                           *)
LEMMA RowStarts ==
  ASSUME NEW T, NEW s \in Seq(T), NEW row \in 0 .. LineCount(s) - 1
  PROVE  <<row, 0>> \in Positions(s)
<1> DEFINE b == LineStart(s, row)
<1>1. Len(s) \in Nat /\ Newlines(s) \in 0 .. Len(s)
  BY BreaksWithin
<1>2. row \in 0 .. Newlines(s)
  BY <1>1 DEF LineCount
<1>3. b \in 0 .. Len(s) /\ Rank(Breaks(s), b) = row
  BY <1>2, LineStartIs
<1>4. PosOf(s, b) = <<Rank(Breaks(s), b), b - LineStart(s, Rank(Breaks(s), b))>>
  BY <1>3, PosIs
<1> HIDE DEF b
<1>5. b - b = 0
  BY <1>3
<1>6. PosOf(s, b) = <<row, 0>>
  BY <1>3, <1>4, <1>5 DEF b
<1> QED
  BY <1>3, <1>6 DEF Positions

LEMMA TextStarts ==
  ASSUME NEW T, NEW s \in Seq(T)
  PROVE  <<0, 0>> \in Positions(s)
<1>1. Newlines(s) \in Nat
  BY BreaksWithin
<1>2. 0 \in 0 .. LineCount(s) - 1
  BY <1>1 DEF LineCount
<1> QED
  BY <1>2, RowStarts

-----------------------------------------------------------------------------
(* Texts put together.                                                     *)

LEMMA SamePrefix ==
  ASSUME NEW T, NEW s \in Seq(T), NEW t \in Seq(T), NEW o \in 0 .. Len(s),
         o <= Len(t), \A i \in 1 .. o : s[i] = t[i]
  PROVE  PosOf(s, o) = PosOf(t, o)
<1>1. Len(s) \in Nat /\ Len(t) \in Nat /\ o \in 0 .. Len(t)
  BY ElementsOf
<1>2. /\ Slice(s, 0, o) \in Seq(T) /\ Len(Slice(s, 0, o)) = o
      /\ \A i \in 1 .. o : Slice(s, 0, o)[i] = s[i]
  BY PrefixIs
<1>3. /\ Slice(t, 0, o) \in Seq(T) /\ Len(Slice(t, 0, o)) = o
      /\ \A i \in 1 .. o : Slice(t, 0, o)[i] = t[i]
  BY <1>1, PrefixIs
<1>4. Slice(s, 0, o) = Slice(t, 0, o)
  BY <1>2, <1>3, SeqEqual
<1>5. Rank(Breaks(s), o) = Rank(Breaks(t), o)
  BY <1>1, <1>4, RowIsRank
<1> DEFINE b == LineStart(s, Rank(Breaks(s), o))
<1>6. Begins(s, o, b)
  BY PosIs
<1> HIDE DEF b
<1>7. Begins(t, o, b)
  BY <1>1, <1>6 DEF Begins
<1>8. PosOf(s, o) = <<Rank(Breaks(s), o), o - b>>
  BY <1>6, PosIs
<1>9. PosOf(t, o) = <<Rank(Breaks(t), o), o - b>>
  BY <1>1, <1>7, PosIs
<1> QED
  BY <1>5, <1>8, <1>9

LEMMA PosInPrefix ==
  ASSUME NEW T, NEW a \in Seq(T), NEW b \in Seq(T), NEW o \in 0 .. Len(a)
  PROVE  PosOf(a \o b, o) = PosOf(a, o)
<1>1. /\ a \o b \in Seq(T) /\ Len(a \o b) = Len(a) + Len(b)
      /\ \A i \in 1 .. Len(a) + Len(b) :
           (a \o b)[i] = IF i <= Len(a) THEN a[i] ELSE b[i - Len(a)]
  BY ConcatProperties
<1>2. Len(a) \in Nat /\ Len(b) \in Nat
  BY ElementsOf
<1> DEFINE s == a \o b
<1>3. s \in Seq(T) /\ o <= Len(s) /\ \A i \in 1 .. o : a[i] = s[i]
  BY <1>1, <1>2
<1> HIDE DEF s
<1>4. PosOf(a, o) = PosOf(s, o)
  BY <1>3, SamePrefix
<1> QED
  BY <1>4 DEF s

LEMMA NewlinesAdd ==
  ASSUME NEW T, NEW a \in Seq(T), NEW b \in Seq(T)
  PROVE  Newlines(a \o b) = Newlines(a) + Newlines(b)
<1> DEFINE s == a \o b
           n == Len(a)
           B == Breaks(b)
           M == {n + i : i \in B}
           f == [i \in B |-> n + i]
<1>1. /\ s \in Seq(T) /\ Len(s) = Len(a) + Len(b)
      /\ \A i \in 1 .. Len(a) + Len(b) :
           s[i] = IF i <= Len(a) THEN a[i] ELSE b[i - Len(a)]
  BY ConcatProperties
<1>2. /\ Len(a) \in Nat /\ Len(b) \in Nat
      /\ DOMAIN a = 1 .. Len(a) /\ DOMAIN b = 1 .. Len(b)
  BY ElementsOf
<1>3. DOMAIN s = 1 .. Len(a) + Len(b)
  BY <1>1, ElementsOf
<1> HIDE DEF s
<1>4. IsFiniteSet(Breaks(a)) /\ IsFiniteSet(B) /\ Cardinality(Breaks(a)) \in Nat /\ Cardinality(B) \in Nat
  BY BreaksWithin, RankIsNat, FS_CardinalityType
<1>5. Breaks(s) = Breaks(a) \cup M /\ Breaks(a) \cap M = {}
  <2>1. \A i \in Breaks(a) : i \in 1 .. n
    BY <1>2 DEF Breaks
  <2>2. \A i \in B : i \in 1 .. Len(b)
    BY <1>2 DEF Breaks
  <2>3. \A i \in M : i \in n + 1 .. n + Len(b) /\ i - n \in B
    BY <1>2, <2>2
  <2>4. ASSUME NEW i \in Breaks(s)
        PROVE  i \in Breaks(a) \cup M
    <3>1. i \in 1 .. n + Len(b) /\ s[i] = Newline
      BY <1>3 DEF Breaks
    <3>2. CASE i <= n
      BY <1>1, <1>2, <3>1, <3>2 DEF Breaks
    <3>3. CASE ~(i <= n)
      <4>1. i - n \in 1 .. Len(b) /\ b[i - n] = Newline /\ i = n + (i - n)
        BY <1>1, <1>2, <3>1, <3>3
      <4>2. i - n \in B
        BY <1>2, <4>1 DEF Breaks
      <4> HIDE DEF B
      <4> QED
        BY <4>1, <4>2
    <3> QED
      BY <3>2, <3>3
  <2>5. ASSUME NEW i \in Breaks(a)
        PROVE  i \in Breaks(s)
    <3>1. i \in 1 .. n /\ a[i] = Newline
      BY <1>2 DEF Breaks
    <3>2. i \in 1 .. n + Len(b) /\ s[i] = a[i]
      BY <1>1, <1>2, <3>1
    <3> QED
      BY <1>3, <3>1, <3>2 DEF Breaks
  <2>6. ASSUME NEW i \in M
        PROVE  i \in Breaks(s)
    <3>1. i \in n + 1 .. n + Len(b) /\ i - n \in 1 .. Len(b) /\ b[i - n] = Newline
      BY <2>2, <2>3 DEF Breaks
    <3>2. i \in 1 .. n + Len(b) /\ ~(i <= n) /\ s[i] = b[i - n]
      BY <1>1, <1>2, <3>1
    <3> QED
      BY <1>3, <3>1, <3>2 DEF Breaks
  <2>7. Breaks(s) = Breaks(a) \cup M
    <3> HIDE DEF M
    <3> QED
      BY <2>4, <2>5, <2>6
  <2>8. Breaks(a) \cap M = {}
    <3> HIDE DEF M
    <3> QED
      BY <1>2, <2>1, <2>3
  <2> QED
    BY <2>7, <2>8
<1>6. IsFiniteSet(M) /\ Cardinality(M) = Cardinality(B)
  <2>1. B \subseteq Nat /\ n \in Nat
    BY <1>2 DEF Breaks
  <2> HIDE DEF B, n
  <2>2. f \in Bijection(B, M)
    <3>1. f \in [B -> M]
      OBVIOUS
    <3>2. \A i, j \in B : f[i] = f[j] => i = j
      BY <2>1
    <3>3. \A x \in M : \E i \in B : f[i] = x
      OBVIOUS
    <3> HIDE DEF f, M
    <3> QED
      BY <3>1, <3>2, <3>3 DEF Bijection, Injection, Surjection, IsInjective
  <2>3. ExistsBijection(B, M)
    BY <2>2 DEF ExistsBijection
  <2> HIDE DEF M
  <2> QED
    BY <1>4, <2>3, FS_Bijection
<1> HIDE DEF M, B
<1>7. Cardinality(Breaks(s)) = Cardinality(Breaks(a)) + Cardinality(B)
  <2> DEFINE A == Breaks(a)
             I == A \cap M
  <2>1. IsFiniteSet(A) /\ IsFiniteSet(M)
    BY <1>4, <1>6
  <2> HIDE DEF A
  <2>2. Cardinality(A \cup M) = Cardinality(A) + Cardinality(M) - Cardinality(I)
    BY <2>1, FS_Union
  <2>3. Cardinality(I) = 0
    BY <1>5, FS_EmptySet DEF A
  <2> HIDE DEF I
  <2>4. Cardinality(A \cup M) = Cardinality(A) + Cardinality(B)
    BY <1>4, <1>6, <2>2, <2>3 DEF A
  <2> QED
    BY <1>5, <2>4 DEF A
<1> QED
  BY <1>7 DEF Newlines, B, s

(* The position behind a text that is put behind another, from the text    *)
(* alone.                                                                  *)
LEMMA EndOfIs ==
  ASSUME NEW T, NEW pre \in Seq(T), NEW new \in Seq(T)
  PROVE  EndOf(PosOf(pre, Len(pre)), new)
           = PosOf(pre \o new, Len(pre) + Len(new))
<1> DEFINE s == pre \o new
           n == Len(pre)
           l == Len(new)
           b == LineStart(pre, Rank(Breaks(pre), n))
<1>1. /\ s \in Seq(T) /\ Len(s) = n + l
      /\ \A i \in 1 .. n + l : s[i] = IF i <= n THEN pre[i] ELSE new[i - n]
  BY ConcatProperties
<1>2. n \in Nat /\ l \in Nat /\ DOMAIN new = 1 .. l
  BY ElementsOf
<1>4. Newlines(s) = Newlines(pre) + Newlines(new)
  BY NewlinesAdd
<1> HIDE DEF s
<1>3. /\ Rank(Breaks(pre), n) = Newlines(pre) /\ Rank(Breaks(s), n + l) = Newlines(s)
      /\ Newlines(pre) \in Nat /\ Newlines(new) \in Nat
  BY <1>1, RankOfAll
<1>5. n \in 0 .. n /\ n + l \in 0 .. n + l
  BY <1>2
<1>6. PosOf(pre, n) = <<Newlines(pre), n - b>> /\ Begins(pre, n, b)
  BY <1>3, <1>5, PosIs
<1>7. \A c : Begins(s, n + l, c) => PosOf(s, n + l) = <<Newlines(s), (n + l) - c>>
  <2> DEFINE o == n + l
  <2>1. o \in 0 .. Len(s)
    BY <1>1, <1>5
  <2> HIDE DEF o
  <2>2. \A c : Begins(s, o, c) => PosOf(s, o) = <<Rank(Breaks(s), o), o - c>>
    BY <1>1, <2>1, PosIs
  <2> QED
    BY <1>3, <2>2 DEF o
<1> HIDE DEF b
<1>8. CASE Newlines(new) = 0
  <2>1. Breaks(new) = {}
    <3>1. IsFiniteSet(Breaks(new))
      BY BreaksWithin, RankIsNat
    <3> QED
      BY <1>8, <3>1, FS_EmptySet DEF Newlines
  <2>2. \A i \in 1 .. l : new[i] # Newline
    BY <1>2, <2>1 DEF Breaks
  <2> HIDE DEF s, n, l
  <2>3. Begins(s, n + l, b)
    <3>1. b \in 0 .. n + l /\ b \in 0 .. n
      BY <1>2, <1>6 DEF Begins
    <3>2. b = 0 \/ s[b] = Newline
      BY <1>1, <1>2, <1>6, <3>1 DEF Begins
    <3>3. ASSUME NEW i \in b + 1 .. n + l
          PROVE  s[i] # Newline
      <4>1. CASE i <= n
        <5>1. i \in b + 1 .. n /\ i \in 1 .. n + l
          BY <1>2, <3>1, <4>1
        <5> QED
          BY <1>1, <1>6, <4>1, <5>1 DEF Begins
      <4>2. CASE ~(i <= n)
        <5>1. i - n \in 1 .. l /\ i \in 1 .. n + l
          BY <1>2, <3>1, <4>2
        <5> QED
          BY <1>1, <2>2, <4>2, <5>1
      <4> QED
        BY <4>1, <4>2
    <3> QED
      BY <3>1, <3>2, <3>3 DEF Begins
  <2>4. PosOf(s, n + l) = <<Newlines(s), (n + l) - b>>
    BY <1>7, <2>3
  <2>5. EndOf(PosOf(pre, n), new) = <<Newlines(pre), (n - b) + l>>
    BY <1>6, <1>8 DEF EndOf, l
  <2>6. (n - b) + l = (n + l) - b /\ Newlines(s) = Newlines(pre)
    BY <1>2, <1>3, <1>4, <1>6, <1>8 DEF Begins
  <2> QED
    BY <2>4, <2>5, <2>6 DEF s, n, l
<1>9. CASE Newlines(new) # 0
  <2> DEFINE m == Max(Breaks(new))
  <2>1. Breaks(new) # {} /\ Breaks(new) \subseteq 1 .. l
    BY <1>2, <1>9, FS_EmptySet DEF Newlines, Breaks
  <2>2. m \in Breaks(new) /\ \A i \in Breaks(new) : i <= m
    <3> DEFINE S == Breaks(new)
    <3>1. S \in SUBSET Nat /\ S # {} /\ \A i \in S : i <= l
      BY <1>2, <2>1
    <3> HIDE DEF S, l
    <3>2. Max(S) \in S /\ \A i \in S : i <= Max(S)
      BY <1>2, <3>1, MaxIsGreatest
    <3> QED
      BY <3>2 DEF S
  <2> HIDE DEF m
  <2>3. m \in 1 .. l /\ new[m] = Newline /\ \A i \in m + 1 .. l : new[i] # Newline
    <3>1. m \in 1 .. l /\ new[m] = Newline
      BY <1>2, <2>2 DEF Breaks
    <3>2. ASSUME NEW i \in m + 1 .. l, new[i] = Newline
          PROVE  FALSE
      <4>1. i \in 1 .. l /\ ~(i <= m)
        BY <1>2, <3>1
      <4>2. i \in Breaks(new)
        BY <1>2, <3>2, <4>1 DEF Breaks
      <4> QED
        BY <2>2, <4>1, <4>2
    <3> QED
      BY <3>1, <3>2
  <2>4. EndOf(PosOf(pre, n), new) = <<Newlines(pre) + Newlines(new), l - m>>
    BY <1>6, <1>9 DEF EndOf, m, Breaks
  <2> HIDE DEF s, n, l
  <2>5. Begins(s, n + l, n + m)
    <3>1. n + m \in 1 .. n + l /\ ~(n + m <= n) /\ (n + m) - n = m
      BY <1>2, <2>3
    <3>2. s[n + m] = Newline /\ n + m \in 0 .. n + l
      <4> DEFINE i == n + m
      <4>1. i \in 1 .. n + l /\ ~(i <= n)
        BY <3>1
      <4> HIDE DEF i
      <4>2. s[i] = new[i - n]
        BY <1>1, <4>1
      <4>3. s[n + m] = new[(n + m) - n]
        BY <4>2 DEF i
      <4> QED
        BY <1>2, <2>3, <3>1, <4>3
    <3>3. ASSUME NEW i \in n + m + 1 .. n + l
          PROVE  s[i] # Newline
      <4>1. i - n \in m + 1 .. l /\ ~(i <= n) /\ i \in 1 .. n + l
        BY <1>2, <2>3
      <4> QED
        BY <1>1, <2>3, <4>1
    <3> QED
      BY <3>2, <3>3 DEF Begins
  <2>6. PosOf(s, n + l) = <<Newlines(s), (n + l) - (n + m)>>
    BY <1>7, <2>5
  <2>7. (n + l) - (n + m) = l - m
    BY <1>2, <2>3
  <2> QED
    BY <1>4, <2>4, <2>6, <2>7 DEF s, n, l
<1> QED
  BY <1>8, <1>9

(* s is p, m and q, one behind the other.                                  *)
Falls(s, p, m, q) == s = (p \o m) \o q

(* A text falls into what is before, between and after two offsets.        *)
Parted(s, lo, hi, p, m, q) ==
  /\ p = Slice(s, 0, lo) /\ m = Slice(s, lo, hi) /\ q = Slice(s, hi, Len(s))
  /\ Len(p) = lo /\ Len(m) = hi - lo /\ Falls(s, p, m, q)

LEMMA PartedAt ==
  ASSUME NEW T, NEW s \in Seq(T), NEW lo \in Nat, NEW hi \in Nat,
         lo <= hi, hi <= Len(s)
  PROVE  \E p, m, q \in Seq(T) : Parted(s, lo, hi, p, m, q)
<1> DEFINE p == Slice(s, 0, lo)
           m == Slice(s, lo, hi)
           q == Slice(s, hi, Len(s))
           n == Len(s)
           pm == p \o m
           r == pm \o q
<1>1. n \in Nat /\ 0 <= lo /\ n <= n /\ lo <= n /\ lo \in 0 .. Len(s)
  BY ElementsOf
<1>2. /\ p \in Seq(T) /\ Len(p) = lo
      /\ \A i \in 1 .. lo : p[i] = s[i]
  BY PrefixIs
<1>3. /\ m \in Seq(T) /\ Len(m) = hi - lo
      /\ \A i \in 1 .. hi - lo : m[i] = s[lo + i]
  BY <1>1, SliceIs
<1>4. /\ q \in Seq(T) /\ Len(q) = n - hi
      /\ \A i \in 1 .. n - hi : q[i] = s[hi + i]
  BY <1>1, SliceIs
<1> HIDE DEF p, m, q, n
<1>5. /\ pm \in Seq(T) /\ Len(pm) = lo + (hi - lo)
      /\ \A i \in 1 .. lo + (hi - lo) : pm[i] = IF i <= lo THEN p[i] ELSE m[i - lo]
  <2>1. /\ pm \in Seq(T) /\ Len(pm) = Len(p) + Len(m)
        /\ \A i \in 1 .. Len(p) + Len(m) :
             pm[i] = IF i <= Len(p) THEN p[i] ELSE m[i - Len(p)]
    BY <1>2, <1>3, ConcatProperties
  <2>2. Len(p) = lo /\ Len(m) = hi - lo
    BY <1>2, <1>3
  <2> HIDE DEF pm
  <2> QED
    BY <2>1, <2>2
<1>6. lo + (hi - lo) = hi
  BY <1>1
<1> HIDE DEF pm
<1>12. pm \in Seq(T) /\ Len(pm) = hi
  BY <1>5, <1>6
<1>7. /\ r \in Seq(T) /\ Len(r) = hi + (n - hi)
      /\ \A i \in 1 .. hi + (n - hi) : r[i] = IF i <= hi THEN pm[i] ELSE q[i - hi]
  <2>1. q \in Seq(T)
    BY <1>4
  <2>2. /\ r \in Seq(T) /\ Len(r) = Len(pm) + Len(q)
        /\ \A i \in 1 .. Len(pm) + Len(q) :
             r[i] = IF i <= Len(pm) THEN pm[i] ELSE q[i - Len(pm)]
    BY <1>12, <2>1, ConcatProperties
  <2>3. Len(pm) = hi /\ Len(q) = n - hi
    BY <1>4, <1>12
  <2> HIDE DEF r
  <2> QED
    BY <2>2, <2>3
<1>8. hi + (n - hi) = n
  BY <1>1
<1> HIDE DEF r
<1>9. ASSUME NEW i \in 1 .. n
      PROVE  r[i] = s[i]
  <2>1. CASE i <= lo
    BY <1>1, <1>2, <1>5, <1>6, <1>7, <1>8, <2>1
  <2>2. CASE ~(i <= lo) /\ i <= hi
    <3>1. i - lo \in 1 .. hi - lo /\ lo + (i - lo) = i
      BY <1>1, <2>2
    <3>2. m[i - lo] = s[i]
      BY <1>3, <3>1
    <3>3. pm[i] = m[i - lo]
      BY <1>1, <1>5, <1>6, <2>2
    <3> QED
      BY <1>7, <1>8, <2>2, <3>2, <3>3
  <2>3. CASE ~(i <= hi)
    <3>1. i - hi \in 1 .. n - hi /\ hi + (i - hi) = i
      BY <1>1, <2>3
    <3>2. q[i - hi] = s[i]
      BY <1>4, <3>1
    <3> QED
      BY <1>7, <1>8, <2>3, <3>2
  <2> QED
    BY <2>1, <2>2, <2>3
<1>10. s \in Seq(T) /\ Len(s) = n
  BY DEF n
<1>11. s = r
  BY <1>7, <1>8, <1>9, <1>10, SeqEqual
<1>13. Falls(s, p, m, q)
  BY <1>11 DEF Falls, r, pm
<1>14. Parted(s, lo, hi, p, m, q)
  BY <1>2, <1>3, <1>13 DEF Parted, p, m, q, n
<1> QED
  BY <1>2, <1>3, <1>4, <1>14

(* And the slices of what is put together are the parts.                   *)
LEMMA SlicesOf ==
  ASSUME NEW T, NEW a \in Seq(T), NEW b \in Seq(T)
  PROVE  /\ Slice(a \o b, 0, Len(a)) = a
         /\ Slice(a \o b, Len(a), Len(a \o b)) = b
         /\ a \o b \in Seq(T) /\ Len(a \o b) = Len(a) + Len(b)
         /\ Len(a) \in Nat /\ Len(b) \in Nat
<1> DEFINE s == a \o b
           n == Len(a)
           l == Len(b)
           p == Slice(s, 0, n)
           q == Slice(s, n, n + l)
<1>1. n \in Nat /\ l \in Nat
  BY ElementsOf
<1>2. /\ s \in Seq(T) /\ Len(s) = n + l
      /\ \A i \in 1 .. n + l : s[i] = IF i <= n THEN a[i] ELSE b[i - n]
  BY ConcatProperties
<1> HIDE DEF s, n, l
<1>3. p = a
  <2>1. n \in 0 .. Len(s)
    BY <1>1, <1>2
  <2>2. /\ p \in Seq(T) /\ Len(p) = n
        /\ \A i \in 1 .. n : p[i] = s[i]
    BY <1>2, <2>1, PrefixIs
  <2> HIDE DEF p
  <2>3. ASSUME NEW i \in 1 .. n
        PROVE  p[i] = a[i]
    <3>1. i \in 1 .. n + l /\ i <= n
      BY <1>1
    <3> QED
      BY <1>2, <2>2, <3>1
  <2> QED
    BY <2>2, <2>3, SeqEqual DEF n
<1>4. q = b
  <2> DEFINE m == n + l
  <2>1. m \in Nat /\ n <= m /\ m <= Len(s) /\ m - n = l
    BY <1>1, <1>2
  <2> HIDE DEF m
  <2>5. s \in Seq(T)
    BY <1>2
  <2>2. /\ Slice(s, n, m) \in Seq(T) /\ Len(Slice(s, n, m)) = m - n
        /\ \A i \in 1 .. m - n : Slice(s, n, m)[i] = s[n + i]
    <3> HIDE DEF p, q
    <3>1. n \in Nat
      BY <1>1
    <3> QED
      BY <2>1, <2>5, <3>1, SliceIs
  <2>3. q \in Seq(T) /\ Len(q) = l /\ \A i \in 1 .. l : q[i] = s[n + i]
    BY <2>1, <2>2 DEF m
  <2> HIDE DEF q
  <2>4. ASSUME NEW i \in 1 .. l
        PROVE  q[i] = b[i]
    <3> DEFINE j == n + i
    <3>1. j \in 1 .. n + l /\ ~(j <= n) /\ j - n = i
      BY <1>1
    <3> HIDE DEF j
    <3>2. s[j] = b[i]
      BY <1>2, <3>1
    <3> QED
      BY <2>3, <3>2 DEF j
  <2> QED
    BY <2>3, <2>4, SeqEqual DEF l
<1> QED
  BY <1>1, <1>2, <1>3, <1>4 DEF s, n, l, p, q

LEMMA SplicedType ==
  ASSUME NEW T, NEW s \in Seq(T), NEW o \in Nat, NEW new \in Seq(T)
  PROVE  Spliced(s, o, new) \in Seq(T)
<1>1. Slice(s, 0, o) \in Seq(T) /\ Slice(s, o, Len(s)) \in Seq(T)
  BY SliceIs, ElementsOf
<1>2. Slice(s, 0, o) \o new \in Seq(T)
  BY <1>1, ConcatProperties
<1> QED
  BY <1>1, <1>2, ConcatProperties DEF Spliced

LEMMA WithoutType ==
  ASSUME NEW T, NEW s \in Seq(T), NEW o \in Nat, NEW n \in Nat
  PROVE  Without(s, o, n) \in Seq(T)
<1> DEFINE m == o + n
<1>0. m \in Nat /\ Len(s) \in Nat
  BY ElementsOf
<1> HIDE DEF m
<1>2. Slice(s, 0, o) \in Seq(T)
  BY SliceIs, ElementsOf
<1>3. Slice(s, m, Len(s)) \in Seq(T)
  BY <1>0, SliceIs
<1>1. Slice(s, 0, o) \in Seq(T) /\ Slice(s, o + n, Len(s)) \in Seq(T)
  BY <1>2, <1>3 DEF m
<1> QED
  BY <1>1, ConcatProperties DEF Without

LEMMA SplicedAt ==
  ASSUME NEW T, NEW pre \in Seq(T), NEW new \in Seq(T), NEW post \in Seq(T)
  PROVE  Spliced(pre \o post, Len(pre), new) = (pre \o new) \o post
<1>1. /\ Slice(pre \o post, 0, Len(pre)) = pre
      /\ Slice(pre \o post, Len(pre), Len(pre \o post)) = post
  BY SlicesOf
<1> DEFINE s == pre \o post
<1>2. /\ Slice(s, 0, Len(pre)) = pre
      /\ Slice(s, Len(pre), Len(s)) = post
  BY <1>1
<1> HIDE DEF s
<1>3. Spliced(s, Len(pre), new) = (pre \o new) \o post
  BY <1>2 DEF Spliced
<1> QED
  BY <1>3 DEF s

LEMMA WithoutAt ==
  ASSUME NEW T, NEW pre \in Seq(T), NEW mid \in Seq(T), NEW post \in Seq(T)
  PROVE  Without((pre \o mid) \o post, Len(pre), Len(mid)) = pre \o post
<1> DEFINE a == pre \o mid
           s == a \o post
<1>1. a \in Seq(T) /\ Len(a) = Len(pre) + Len(mid) /\ mid \o post \in Seq(T)
  BY SlicesOf
<1>2. s = pre \o (mid \o post)
  BY ConcatAssociative
<1>3. Slice(s, 0, Len(pre)) = pre
  <2> DEFINE b == mid \o post
  <2>1. b \in Seq(T)
    BY <1>1
  <2> HIDE DEF b
  <2>2. Slice(pre \o b, 0, Len(pre)) = pre
    BY <2>1, SlicesOf
  <2> QED
    BY <1>2, <2>2 DEF b
<1>4. Slice(s, Len(pre) + Len(mid), Len(s)) = post
  <2> HIDE DEF a
  <2> QED
    BY <1>1, SlicesOf
<1> QED
  BY <1>3, <1>4 DEF Without

-----------------------------------------------------------------------------
(* Returns.                                                                *)

LEMMA DecodedIs ==
  ASSUME NEW T, NEW t \in Seq(T), Newline \in T
  PROVE  /\ Decoded(t) \in Seq(T) /\ Len(Decoded(t)) = Len(t)
         /\ Return \notin T => Decoded(t) = t
<1> DEFINE d == Decoded(t)
           n == Len(t)
<1>1. n \in Nat /\ DOMAIN t = 1 .. n /\ \A i \in 1 .. n : t[i] \in T
  BY ElementsOf
<1>2. /\ DOMAIN d = 1 .. n
      /\ \A i \in 1 .. n : d[i] = IF t[i] = Return THEN Newline ELSE t[i]
      /\ d = [i \in 1 .. n |-> d[i]]
  BY <1>1 DEF Decoded
<1> HIDE DEF d, n
<1>3. d \in [1 .. n -> T]
  BY <1>1, <1>2
<1>4. d \in Seq(T)
  BY <1>1, <1>3, SeqDef
<1>5. Len(d) = n
  <2>1. DOMAIN d = 1 .. Len(d) /\ Len(d) \in Nat
    BY <1>4, ElementsOf
  <2> QED
    BY <1>1, <1>2, <2>1
<1>6. Return \notin T => d = t
  <2>1. Return \notin T => \A i \in 1 .. n : d[i] = t[i]
    BY <1>1, <1>2
  <2> QED
    BY <1>4, <1>5, <2>1, SeqEqual DEF n
<1> QED
  BY <1>4, <1>5, <1>6 DEF d, n

Kept(t) == {i \in DOMAIN t : ~(t[i] = Return /\ BeforeNewline(t, i))}

LEMMA UnixIs ==
  ASSUME NEW T, NEW t \in Seq(T)
  PROVE  LET n == Cardinality(Kept(t)) IN
         /\ Within(Kept(t), Len(t)) /\ n \in 0 .. Len(t)
         /\ DOMAIN Unix(t) = 1 .. n
         /\ \A k \in 1 .. n : /\ Nth(Kept(t), k) \in Kept(t)
                              /\ Unix(t)[k] = t[Nth(Kept(t), k)]
         /\ Unix(t) = [k \in 1 .. n |-> Unix(t)[k]]
<1>1. Len(t) \in Nat /\ DOMAIN t = 1 .. Len(t)
  BY ElementsOf
<1>2. Within(Kept(t), Len(t))
  BY <1>1 DEF Within, Kept
<1>3. Cardinality(Kept(t)) \in 0 .. Len(t)
  BY <1>1, <1>2, RankIsNat
<1>4. \A k \in 1 .. Cardinality(Kept(t)) : Nth(Kept(t), k) \in Kept(t)
  BY <1>1, <1>2, NthOf
<1>5. Unix(t) = [k \in 1 .. Cardinality(Kept(t)) |-> t[Nth(Kept(t), k)]]
  BY DEF Unix, Kept
<1> QED
  BY <1>2, <1>3, <1>4, <1>5

(* What is left has no return if each is followed by a newline.            *)
LEMMA UnixType ==
  ASSUME NEW T, NEW t \in Seq(T), NEW U,
         \A i \in 1 .. Len(t) : t[i] \in U \/ (t[i] = Return /\ BeforeNewline(t, i))
  PROVE  Unix(t) \in Seq(U)
<1> DEFINE n == Cardinality(Kept(t))
           u == Unix(t)
<1>1. Len(t) \in Nat /\ DOMAIN t = 1 .. Len(t)
  BY ElementsOf
<1>2. /\ n \in 0 .. Len(t)
      /\ \A k \in 1 .. n : Nth(Kept(t), k) \in Kept(t) /\ u[k] = t[Nth(Kept(t), k)]
      /\ u = [k \in 1 .. n |-> u[k]]
  BY UnixIs
<1>3. \A i \in Kept(t) : t[i] \in U
  BY <1>1 DEF Kept
<1> HIDE DEF n, u
<1>4. u \in [1 .. n -> U]
  BY <1>2, <1>3
<1>5. n \in Nat
  BY <1>1, <1>2
<1> QED
  BY <1>4, <1>5, SeqDef DEF u

LEMMA UnixSame ==
  ASSUME NEW T, NEW t \in Seq(T), Return \notin T
  PROVE  Unix(t) = t
<1> DEFINE n == Len(t)
           K == 1 .. n
           u == Unix(t)
<1>1. n \in Nat /\ DOMAIN t = K /\ \A i \in K : t[i] \in T
  BY ElementsOf
<1>2. Kept(t) = K
  BY <1>1 DEF Kept
<1>3. Cardinality(K) = n
  BY <1>1, FirstNumbers
<1>4. ASSUME NEW k \in K
      PROVE  Nth(K, k) = k
  <2>1. UpTo(K, k) = 1 .. k /\ k \in Nat
    BY <1>1 DEF UpTo
  <2>2. Rank(K, k) = k
    BY <2>1, FirstNumbers DEF Rank
  <2>3. Within(K, n)
    BY DEF Within
  <2> HIDE DEF K, n
  <2> QED
    BY <1>1, <2>2, <2>3, NthIs
<1>5. /\ u = [k \in 1 .. n |-> u[k]]
      /\ \A k \in 1 .. n : u[k] = t[Nth(K, k)]
  BY <1>2, <1>3, UnixIs
<1>6. t = [k \in 1 .. n |-> t[k]]
  BY <1>1, LenProperties
<1> HIDE DEF u, K
<1>7. \A k \in 1 .. n : u[k] = t[k]
  BY <1>4, <1>5 DEF K
<1> HIDE DEF n
<1> QED
  BY <1>5, <1>6, <1>7 DEF u

-----------------------------------------------------------------------------
(* Replacing all, round by round.                                          *)

LEMMA RoundsStep ==
  ASSUME NEW e, NEW pattern, NEW new, Len(e.text) \in Nat
  PROVE  /\ Rounds(e, pattern, new)[0] = [ed |-> e, from |-> 0]
         /\ \A n \in 1 .. Len(e.text) :
              Rounds(e, pattern, new)[n] =
                ReplaceNext(Rounds(e, pattern, new)[n - 1], pattern, new)
<1> DEFINE n == Len(e.text)
           first == [ed |-> e, from |-> 0]
           Runs(g, j) ==
             g = [k \in 0 .. j |->
                    IF k = 0 THEN first ELSE ReplaceNext(g[k - 1], pattern, new)]
           S == {j \in Nat : \E g : Runs(g, j)}
<1>1. Rounds(e, pattern, new) = CHOOSE g : Runs(g, n)
  BY DEF Rounds
<1> HIDE DEF first
<1>2. S = Nat
  <2>1. 0 \in S
    <3> DEFINE g == [k \in 0 .. 0 |-> first]
    <3>1. \A k \in 0 .. 0 : k = 0
      OBVIOUS
    <3>2. Runs(g, 0)
      BY <3>1
    <3> QED
      BY <3>2
  <2>2. ASSUME NEW j \in S
        PROVE  j + 1 \in S
    <3>1. PICK g : Runs(g, j)
      OBVIOUS
    <3> DEFINE h == [k \in 0 .. j + 1 |->
                       IF k <= j THEN g[k] ELSE ReplaceNext(g[j], pattern, new)]
    <3>2. \A k \in 0 .. j + 1 :
            h[k] = IF k = 0 THEN first ELSE ReplaceNext(h[k - 1], pattern, new)
      <4> TAKE k \in 0 .. j + 1
      <4>1. CASE k = 0
        BY <4>1, <3>1
      <4>2. CASE k \in 1 .. j
        <5>1. k - 1 \in 0 .. j /\ k \in 0 .. j /\ k # 0
          BY <4>2
        <5>2. h[k - 1] = g[k - 1] /\ h[k] = g[k]
          BY <5>1
        <5>3. g[k] = ReplaceNext(g[k - 1], pattern, new)
          BY <3>1, <5>1
        <5> QED
          BY <5>1, <5>2, <5>3
      <4>3. CASE k = j + 1
        <5>1. k - 1 = j /\ ~(k <= j) /\ j \in 0 .. j + 1 /\ k # 0
          BY <4>3
        <5>2. h[k] = ReplaceNext(g[j], pattern, new) /\ h[k - 1] = g[j]
          BY <5>1, <4>3
        <5> QED
          BY <5>1, <5>2
      <4> QED
        BY <4>1, <4>2, <4>3
    <3>3. h = [k \in 0 .. j + 1 |-> h[k]]
      OBVIOUS
    <3> HIDE DEF h
    <3>4. Runs(h, j + 1)
      BY <3>2, <3>3
    <3> QED
      BY <3>4
  <2> HIDE DEF S
  <2>3. S \in SUBSET Nat
    BY DEF S
  <2> QED
    BY <2>1, <2>2, <2>3, SetInduction
<1>3. \E g : Runs(g, n)
  BY <1>2
<1> DEFINE f == Rounds(e, pattern, new)
<1>4. Runs(f, n)
  <2> HIDE DEF Runs
  <2> QED
    BY <1>1, <1>3
<1> HIDE DEF f
<1>5. f[0] = first
  BY <1>4
<1>6. ASSUME NEW k \in 1 .. n
      PROVE  f[k] = ReplaceNext(f[k - 1], pattern, new)
  <2>1. k \in 0 .. n /\ k # 0
    OBVIOUS
  <2> QED
    BY <2>1, <1>4
<1> QED
  BY <1>5, <1>6 DEF f, first


-----------------------------------------------------------------------------
(* What changes the text marks it.                                         *)

Fields ==
  {"text", "cursor", "anchor", "undo", "redo", "coalesce", "dirty", "stale"}

(* A record with the fields of an editing state.                           *)
Marks(e) == DOMAIN e = Fields /\ e.dirty \in BOOLEAN /\ e.stale \in BOOLEAN

(* d comes from e: the diagnostics are those of the same text, or greyed.  *)
Greyed(e, d) ==
  /\ Marks(d)
  /\ d.stale \/ (d.text = e.text /\ d.stale = e.stale)

(* And the text is the same, or it counts as modified.                     *)
Marked(e, d) ==
  /\ Greyed(e, d)
  /\ d.dirty \/ (d.text = e.text /\ d.dirty = e.dirty)

LEMMA MarkedOnce ==
  ASSUME NEW e, Marks(e)
  PROVE  Marked(e, e)
  BY DEF Marked, Greyed, Marks

LEMMA MarkedTwice ==
  ASSUME NEW e, NEW d, NEW c, Marked(e, d), Marked(d, c)
  PROVE  Marked(e, c)
  BY DEF Marked, Greyed, Marks

(* Cursor, anchor and what a run of typing is are no part of the text.     *)
LEMMA MarkedMove ==
  ASSUME NEW e, Marks(e), NEW p, NEW q, NEW c
  PROVE  /\ Marked(e, [e EXCEPT !.cursor = p, !.anchor = q])
         /\ Marked(e, [e EXCEPT !.anchor = p, !.cursor = q])
         /\ Marked(e, [e EXCEPT !.cursor = p, !.anchor = q, !.coalesce = c])
         /\ Marked(e, [e EXCEPT !.anchor = q, !.coalesce = c, !.cursor = p])
  BY DEF Marked, Greyed, Marks, Fields

LEMMA MarkedSetCursor ==
  ASSUME NEW e, Marks(e), NEW pos, NEW extend
  PROVE  Marked(e, SetCursor(e, pos, extend))
  BY DEF SetCursor, Marked, Greyed, Marks, Fields

LEMMA GreyedSplice ==
  ASSUME NEW e, Marks(e), NEW p, NEW q
  PROVE  Greyed(e, SpliceIn(e, p, q)) /\ Greyed(e, SpliceOut(e, p, q))
<1> DEFINE in  == Spliced(e.text, OffsetOf(e.text, p), Decoded(Unix(q)))
           lo  == OffsetOf(e.text, p)
           hi  == OffsetOf(e.text, q)
           out == IF hi <= lo THEN e.text ELSE Without(e.text, lo, hi - lo)
<1>1. SpliceIn(e, p, q) = IF q = <<>> THEN e ELSE [e EXCEPT !.text = in, !.stale = TRUE]
  BY DEF SpliceIn, Marks, Fields
<1>2. SpliceOut(e, p, q) = IF p = q THEN e ELSE [e EXCEPT !.text = out, !.stale = TRUE]
  BY DEF SpliceOut, Marks, Fields
<1> HIDE DEF in, out
<1> QED
  BY <1>1, <1>2 DEF Greyed, Marks, Fields

(* What is marked as modified besides.                                     *)
LEMMA MarkedDirty ==
  ASSUME NEW e, NEW d, Greyed(e, d), NEW p, NEW c, NEW u, NEW r
  PROVE  /\ Marked(e, [CursorAt(d, p) EXCEPT !.dirty = TRUE, !.coalesce = c])
         /\ Marked(e, [CursorAt(d, p) EXCEPT !.dirty = TRUE, !.redo = r,
                                             !.coalesce = c])
         /\ Marked(e, [CursorAt(d, p) EXCEPT !.dirty = TRUE, !.coalesce = c,
                                             !.undo = u, !.redo = r])
  BY DEF CursorAt, Marked, Greyed, Marks, Fields

LEMMA MarkedStacks ==
  ASSUME NEW e, NEW d, Marked(e, d), NEW u
  PROVE  Marked(e, [d EXCEPT !.undo = u]) /\ Marked(e, [d EXCEPT !.redo = u])
  BY DEF Marked, Greyed, Marks, Fields

LEMMA MarkedPush ==
  ASSUME NEW e, NEW d, Marked(e, d), NEW op
  PROVE  Marked(e, PushUndo(d, op))
<1> DEFINE u == IF Len(d.undo) >= UndoCap THEN Append(Tail(d.undo), op)
                                          ELSE Append(d.undo, op)
<1>1. PushUndo(d, op) = [d EXCEPT !.undo = u]
  BY DEF PushUndo, Marked, Greyed, Marks, Fields
<1> HIDE DEF u
<1>2. Marked(e, [d EXCEPT !.undo = u])
  BY MarkedStacks
<1> QED
  BY <1>1, <1>2

LEMMA MarkedDelete ==
  ASSUME NEW e, Marks(e)
  PROVE  /\ Marked(e, DeleteSelection(e)) /\ Marked(e, CutSelection(e))
<1> DEFINE s   == SpliceOut(e, SelStart(e), SelEnd(e))
           cut == [CursorAt(s, SelStart(e)) EXCEPT !.dirty = TRUE, !.coalesce = "none"]
           op  == Op("deleted", SelStart(e), SelStart(e), Selected(e), e.cursor,
                     SelStart(e), e.text, cut.text)
<1>1. DeleteSelection(e) = IF ~Selecting(e) THEN e ELSE PushUndo(cut, op)
  BY DEF DeleteSelection
<1>2. Greyed(e, s)
  BY GreyedSplice
<1> HIDE DEF s
<1>3. Marked(e, cut)
  BY <1>2, MarkedDirty
<1> HIDE DEF cut, op
<1>4. Marked(e, DeleteSelection(e))
  BY <1>1, <1>3, MarkedPush, MarkedOnce
<1> QED
  BY <1>4, MarkedStacks DEF CutSelection


LEMMA MarkedInsert ==
  ASSUME NEW e, Marks(e), NEW new, NEW kind
  PROVE  Marked(e, DoInsert(e, new, kind)) /\ Marked(e, InsertStr(e, new))
<1> DEFINE d     == DeleteSelection(e)
           start == d.cursor
           end   == EndOf(start, Unix(new))
           in    == SpliceIn(d, start, new)
           put(c) == [CursorAt(in, end) EXCEPT !.dirty = TRUE, !.redo = <<>>,
                                               !.coalesce = c]
           grown(c) == Op("inserted", Last(d.undo).start, end,
                          Last(d.undo).text \o new, Last(d.undo).before, end,
                          Last(d.undo).was, put(c).text)
           fresh(c) == Op("inserted", start, end, new, start, end, d.text,
                          put(c).text)
           grow(c)  == /\ c = "insert" /\ d.coalesce = "insert" /\ d.undo # <<>>
                       /\ Last(d.undo).kind = "inserted" /\ Last(d.undo).end = start
           under(c) == [put(c).undo EXCEPT ![Len(d.undo)] = grown(c)]
<1>1. \A c : DoInsert(e, new, c) =
         IF grow(c) THEN [put(c) EXCEPT !.undo = under(c)]
                    ELSE PushUndo(put(c), fresh(c))
  BY DEF DoInsert
<1>2. Marked(e, d) /\ Marks(d)
  BY MarkedDelete DEF Marked, Greyed
<1>3. Greyed(d, in)
  BY <1>2, GreyedSplice
<1> HIDE DEF d, in
<1>4. \A c : Marked(d, put(c))
  BY <1>3, MarkedDirty
<1> HIDE DEF put, grown, fresh, grow, under
<1>5. \A c : Marked(e, put(c))
  BY <1>2, <1>4, MarkedTwice
<1>6. ASSUME NEW c
      PROVE  Marked(e, DoInsert(e, new, c))
  <2>1. Marked(e, put(c))
    BY <1>5
  <2> DEFINE m == put(c)
             u == under(c)
             f == fresh(c)
  <2> HIDE DEF m, u, f
  <2>2. Marked(e, [m EXCEPT !.undo = u]) /\ Marked(e, PushUndo(m, f))
    BY <2>1, MarkedStacks, MarkedPush DEF m
  <2> QED
    BY <1>1, <2>2 DEF m, u, f
<1> QED
  BY <1>6, MarkedOnce DEF InsertStr

LEMMA MarkedCut ==
  ASSUME NEW e, Marks(e), NEW from, NEW to, NEW kind
  PROVE  Marked(e, Cut(e, from, to, kind))
<1> DEFINE s     == SpliceOut(e, from, to)
           c     == [CursorAt(s, from) EXCEPT !.dirty = TRUE, !.redo = <<>>,
                                              !.coalesce = kind]
           gone  == Between(e, from, to)
           last  == Last(e.undo)
           grow  == /\ kind = "backspace" /\ e.coalesce = "backspace"
                    /\ e.undo # <<>> /\ last.kind = "deleted" /\ last.start = to
           u     == [c.undo EXCEPT ![Len(e.undo)] =
                       Op("deleted", from, from, gone \o last.text, last.before,
                          from, last.was, c.text)]
           f     == Op("deleted", from, from, gone, e.cursor, from, e.text, c.text)
<1>1. Cut(e, from, to, kind) =
        IF grow THEN [c EXCEPT !.undo = u] ELSE PushUndo(c, f)
  BY DEF Cut
<1>2. Greyed(e, s)
  BY GreyedSplice
<1> HIDE DEF s
<1>3. Marked(e, c)
  BY <1>2, MarkedDirty
<1> HIDE DEF c, u, f, grow
<1>4. Marked(e, [c EXCEPT !.undo = u]) /\ Marked(e, PushUndo(c, f))
  BY <1>3, MarkedStacks, MarkedPush
<1> QED
  BY <1>1, <1>4

LEMMA MarkedKeys ==
  ASSUME NEW e, Marks(e)
  PROVE  Marked(e, Backspace(e)) /\ Marked(e, DeleteForward(e))
  BY MarkedCut, MarkedDelete, MarkedOnce DEF Backspace, DeleteForward

LEMMA MarkedHistory ==
  ASSUME NEW e, Marks(e)
  PROVE  Marked(e, Undone(e)) /\ Marked(e, Redone(e))
<1>1. Marked(e, Undone(e))
  <2> DEFINE op == Last(e.undo)
             s  == IF op.kind = "inserted" THEN SpliceOut(e, op.start, op.end)
                                           ELSE SpliceIn(e, op.start, op.text)
             u  == Front(s.undo)
             r  == Append(s.redo, op)
  <2>1. Greyed(e, s)
    BY GreyedSplice
  <2>2. Undone(e) = [CursorAt(s, op.before)
                       EXCEPT !.dirty = TRUE, !.coalesce = "none",
                              !.undo = u, !.redo = r]
    <3>1. Undone(e) = [CursorAt(s, op.before)
                         EXCEPT !.dirty = TRUE, !.coalesce = "none",
                                !.undo = Front(@), !.redo = Append(@, op)]
      BY DEF Undone
    <3> HIDE DEF s, op
    <3> QED
      BY <2>1, <3>1 DEF CursorAt, Greyed, Marks, Fields
  <2> HIDE DEF s, u, r, op
  <2>3. Marked(e, [CursorAt(s, op.before)
                     EXCEPT !.dirty = TRUE, !.coalesce = "none",
                            !.undo = u, !.redo = r])
    BY <2>1, MarkedDirty
  <2> QED
    BY <2>2, <2>3
<1>2. Marked(e, Redone(e))
  <2> DEFINE op == Last(e.redo)
             s  == SpliceIn(e, op.start, op.text)
             r  == Front(s.redo)
             u  == Append(s.undo, op)
  <2>1. Greyed(e, s)
    BY GreyedSplice
  <2>2. Redone(e) = [CursorAt(s, op.after)
                       EXCEPT !.dirty = TRUE, !.coalesce = "none",
                              !.undo = u, !.redo = r]
    <3>1. Redone(e) = [CursorAt(s, op.after)
                         EXCEPT !.dirty = TRUE, !.coalesce = "none",
                                !.redo = Front(@), !.undo = Append(@, op)]
      BY DEF Redone
    <3> HIDE DEF s, op
    <3> QED
      BY <2>1, <3>1 DEF CursorAt, Greyed, Marks, Fields
  <2> HIDE DEF s, u, r, op
  <2>3. Marked(e, [CursorAt(s, op.after)
                     EXCEPT !.dirty = TRUE, !.coalesce = "none",
                            !.undo = u, !.redo = r])
    BY <2>1, MarkedDirty
  <2> QED
    BY <2>2, <2>3
<1> QED
  BY <1>1, <1>2

LEMMA MarkedMatch ==
  ASSUME NEW e, Marks(e), NEW hit, NEW pattern
  PROVE  Marked(e, Match(e, hit, pattern))
<1> DEFINE p == PosOf(e.text, hit)
           q == PosOf(e.text, hit + Len(pattern))
<1>1. Match(e, hit, pattern) = [e EXCEPT !.anchor = p, !.cursor = q]
  BY DEF Match
<1> HIDE DEF p, q
<1>2. Marked(e, [e EXCEPT !.anchor = p, !.cursor = q])
  BY MarkedMove
<1> QED
  BY <1>1, <1>2

LEMMA MarkedFind ==
  ASSUME NEW e, Marks(e), NEW pattern
  PROVE  Marked(e, FindNext(e, pattern)) /\ Marked(e, FindPrev(e, pattern))
  BY MarkedMatch, MarkedOnce DEF FindNext, FindPrev

LEMMA MarkedReplace ==
  ASSUME NEW e, Marks(e), NEW pattern, NEW new
  PROVE  /\ Marked(e, ReplaceSelection(e, new))
         /\ Marked(e, ReplaceCurrent(e, pattern, new))
<1>1. Marked(e, ReplaceSelection(e, new))
  <2> DEFINE d == DeleteSelection(e)
  <2>1. Marked(e, d) /\ Marks(d)
    BY MarkedDelete DEF Marked, Greyed
  <2> HIDE DEF d
  <2>2. Marked(d, InsertStr(d, new))
    BY <2>1, MarkedInsert
  <2> QED
    BY <2>1, <2>2, MarkedTwice DEF ReplaceSelection, d
<1>2. Marked(e, ReplaceCurrent(e, pattern, new))
  <2> DEFINE r == IF Selecting(e) /\ Selected(e) = pattern
                  THEN ReplaceSelection(e, new) ELSE e
  <2>1. Marked(e, r) /\ Marks(r)
    BY <1>1, MarkedOnce DEF Marked, Greyed
  <2> HIDE DEF r
  <2>2. Marked(r, FindNext(r, pattern))
    BY <2>1, MarkedFind
  <2> QED
    BY <2>1, <2>2, MarkedTwice DEF ReplaceCurrent, r
<1> QED
  BY <1>1, <1>2

LEMMA MarkedReplaceEach ==
  ASSUME NEW e, Marks(e), NEW pattern, NEW new, Len(e.text) \in Nat
  PROVE  Marked(e, ReplaceEach(e, pattern, new))
<1> DEFINE n == Len(e.text)
           f == Rounds(e, pattern, new)
           S == {k \in Nat : k <= n => Marked(e, f[k].ed)}
<1>1. /\ f[0] = [ed |-> e, from |-> 0]
      /\ \A k \in 1 .. n : f[k] = ReplaceNext(f[k - 1], pattern, new)
  BY RoundsStep
<1> HIDE DEF f
<1>2. 0 \in S
  BY <1>1, MarkedOnce
<1>3. ASSUME NEW k \in S
      PROVE  k + 1 \in S
  <2> SUFFICES ASSUME k + 1 <= n
               PROVE  Marked(e, f[k + 1].ed)
    OBVIOUS
  <2> DEFINE r    == f[k]
             next == {h \in Hits(r.ed.text, pattern) : h >= r.from}
             m    == Match(r.ed, Min(next), pattern)
             d    == ReplaceSelection(m, new)
  <2>1. k <= n /\ k + 1 \in 1 .. n /\ k + 1 - 1 = k
    OBVIOUS
  <2>2. f[k + 1] = IF next = {} THEN r
                   ELSE [ed |-> d, from |-> OffsetOf(d.text, d.cursor)]
    <3>1. f[k + 1] = ReplaceNext(r, pattern, new)
      BY <1>1, <2>1
    <3> QED
      BY <3>1 DEF ReplaceNext
  <2>3. Marked(e, r.ed) /\ Marks(r.ed)
    BY <2>1 DEF Marked, Greyed
  <2> HIDE DEF r
  <2>4. Marked(r.ed, m) /\ Marks(m)
    BY <2>3, MarkedMatch DEF Marked, Greyed
  <2> HIDE DEF m
  <2>5. Marked(m, d)
    BY <2>4, MarkedReplace
  <2> HIDE DEF d
  <2>6. Marked(e, d)
    BY <2>3, <2>4, <2>5, MarkedTwice
  <2>7. CASE next = {}
    BY <2>2, <2>3, <2>7
  <2>8. CASE next # {}
    BY <2>2, <2>6, <2>8
  <2> QED
    BY <2>7, <2>8
<1> HIDE DEF S
<1>4. S = Nat
  <2>1. S \in SUBSET Nat
    BY DEF S
  <2> QED
    BY <1>2, <1>3, <2>1, SetInduction
<1>5. Marked(e, f[n].ed)
  BY <1>4 DEF S
<1> QED
  BY <1>5 DEF ReplaceEach, f


-----------------------------------------------------------------------------
(* What the editing operations make of text, cursor and stacks.            *)

(* The text with something spliced in, and with something spliced out.     *)
PutIn(text, pos, new) ==
  IF new = <<>> THEN text
  ELSE Spliced(text, OffsetOf(text, pos), Decoded(Unix(new)))

TakenOut(text, from, to) ==
  IF from = to \/ OffsetOf(text, to) <= OffsetOf(text, from) THEN text
  ELSE Without(text, OffsetOf(text, from),
               OffsetOf(text, to) - OffsetOf(text, from))

(* A stack with an entry added, and with its last entry replaced.          *)
Pushed(stack, op) ==
  IF Len(stack) >= UndoCap THEN Append(Tail(stack), op) ELSE Append(stack, op)

Grown(stack, op) == [stack EXCEPT ![Len(stack)] = op]

(* After an edit nothing is selected.                                      *)
Edited(e, text, pos, undo, redo) ==
  /\ Marks(e) /\ e.text = text /\ e.cursor = pos /\ e.anchor = pos
  /\ e.undo = undo /\ e.redo = redo

LEMMA SpliceIs ==
  ASSUME NEW e, Marks(e), NEW p, NEW q
  PROVE  /\ SpliceIn(e, p, q).text = PutIn(e.text, p, q)
         /\ SpliceIn(e, p, q).undo = e.undo /\ SpliceIn(e, p, q).redo = e.redo
         /\ SpliceOut(e, p, q).text = TakenOut(e.text, p, q)
         /\ SpliceOut(e, p, q).undo = e.undo /\ SpliceOut(e, p, q).redo = e.redo
<1> DEFINE in  == Spliced(e.text, OffsetOf(e.text, p), Decoded(Unix(q)))
           lo  == OffsetOf(e.text, p)
           hi  == OffsetOf(e.text, q)
           out == IF hi <= lo THEN e.text ELSE Without(e.text, lo, hi - lo)
<1>1. SpliceIn(e, p, q) = IF q = <<>> THEN e ELSE [e EXCEPT !.text = in, !.stale = TRUE]
  BY DEF SpliceIn, Marks, Fields
<1>2. SpliceOut(e, p, q) = IF p = q THEN e ELSE [e EXCEPT !.text = out, !.stale = TRUE]
  BY DEF SpliceOut, Marks, Fields
<1>3. PutIn(e.text, p, q) = IF q = <<>> THEN e.text ELSE in
  BY DEF PutIn
<1>4. TakenOut(e.text, p, q) = IF p = q THEN e.text ELSE out
  BY DEF TakenOut
<1> HIDE DEF in, out
<1> QED
  BY <1>1, <1>2, <1>3, <1>4 DEF Marks, Fields

LEMMA PushIs ==
  ASSUME NEW e, Marks(e), NEW op
  PROVE  /\ Marks(PushUndo(e, op))
         /\ PushUndo(e, op).undo = Pushed(e.undo, op)
         /\ PushUndo(e, op).text = e.text /\ PushUndo(e, op).redo = e.redo
         /\ PushUndo(e, op).cursor = e.cursor /\ PushUndo(e, op).anchor = e.anchor
         /\ PushUndo(e, op).coalesce = e.coalesce
<1> DEFINE u == Pushed(e.undo, op)
<1>1. PushUndo(e, op) = [e EXCEPT !.undo = u]
  BY DEF PushUndo, Pushed, Marks, Fields
<1> HIDE DEF u
<1>2. Marks([e EXCEPT !.undo = u])
  BY DEF Marks, Fields
<1>3. /\ [e EXCEPT !.undo = u].undo = u
      /\ [e EXCEPT !.undo = u].text = e.text /\ [e EXCEPT !.undo = u].redo = e.redo
      /\ [e EXCEPT !.undo = u].cursor = e.cursor
      /\ [e EXCEPT !.undo = u].anchor = e.anchor
      /\ [e EXCEPT !.undo = u].coalesce = e.coalesce
  BY DEF Marks, Fields
<1> QED
  BY <1>1, <1>2, <1>3 DEF u

LEMMA DeleteIs ==
  ASSUME NEW e, Marks(e)
  PROVE  /\ ~Selecting(e) => DeleteSelection(e) = e
         /\ Selecting(e) =>
              LET from == SelStart(e)
                  text == TakenOut(e.text, from, SelEnd(e))
              IN /\ Edited(DeleteSelection(e), text, from,
                           Pushed(e.undo, Op("deleted", from, from, Selected(e),
                                             e.cursor, from, e.text, text)),
                           e.redo)
                 /\ DeleteSelection(e).coalesce = "none"
<1> DEFINE from == SelStart(e)
           text == TakenOut(e.text, from, SelEnd(e))
           s    == SpliceOut(e, from, SelEnd(e))
           cut  == [CursorAt(s, from) EXCEPT !.dirty = TRUE, !.coalesce = "none"]
           op(t) == Op("deleted", from, from, Selected(e), e.cursor, from, e.text, t)
<1>1. DeleteSelection(e) = IF ~Selecting(e) THEN e ELSE PushUndo(cut, op(cut.text))
  BY DEF DeleteSelection
<1>2. Marks(s) /\ s.text = text /\ s.undo = e.undo /\ s.redo = e.redo
  BY GreyedSplice, SpliceIs DEF Greyed
<1> HIDE DEF s, text, from, op
<1>3. Edited(cut, text, from, e.undo, e.redo) /\ cut.coalesce = "none"
  BY <1>2 DEF Edited, CursorAt, Marks, Fields
<1> HIDE DEF cut
<1>4. cut.text = text
  BY <1>3 DEF Edited
<1>5. /\ Edited(PushUndo(cut, op(text)), text, from, Pushed(e.undo, op(text)), e.redo)
      /\ PushUndo(cut, op(text)).coalesce = "none"
  BY <1>3, PushIs DEF Edited
<1>6. Selecting(e) =>
        /\ Edited(DeleteSelection(e), text, from, Pushed(e.undo, op(text)), e.redo)
        /\ DeleteSelection(e).coalesce = "none"
  BY <1>1, <1>4, <1>5
<1> QED
  BY <1>1, <1>6 DEF text, from, op


(* What do_insert leaves of d, the state without its selection.            *)
Grows(d, kind) ==
  /\ kind = "insert" /\ d.coalesce = "insert" /\ d.undo # <<>>
  /\ Last(d.undo).kind = "inserted" /\ Last(d.undo).end = d.cursor

Insertion(d, new) ==
  Op("inserted", d.cursor, EndOf(d.cursor, Unix(new)), new, d.cursor,
     EndOf(d.cursor, Unix(new)), d.text, PutIn(d.text, d.cursor, new))

LongerInsertion(d, new) ==
  Op("inserted", Last(d.undo).start, EndOf(d.cursor, Unix(new)),
     Last(d.undo).text \o new, Last(d.undo).before,
     EndOf(d.cursor, Unix(new)), Last(d.undo).was, PutIn(d.text, d.cursor, new))

LEMMA InsertIs ==
  ASSUME NEW e, Marks(e), NEW new, NEW kind, NEW d, d = DeleteSelection(e)
  PROVE  /\ Marks(d)
         /\ Edited(DoInsert(e, new, kind), PutIn(d.text, d.cursor, new),
                   EndOf(d.cursor, Unix(new)),
                   IF Grows(d, kind) THEN Grown(d.undo, LongerInsertion(d, new))
                                     ELSE Pushed(d.undo, Insertion(d, new)),
                   <<>>)
<1> DEFINE end  == EndOf(d.cursor, Unix(new))
           text == PutIn(d.text, d.cursor, new)
           in   == SpliceIn(d, d.cursor, new)
           put  == [CursorAt(in, end) EXCEPT !.dirty = TRUE, !.redo = <<>>,
                                             !.coalesce = kind]
           long(t) == Op("inserted", Last(d.undo).start, end,
                         Last(d.undo).text \o new, Last(d.undo).before, end,
                         Last(d.undo).was, t)
           op(t) == Op("inserted", d.cursor, end, new, d.cursor, end, d.text, t)
           over(t) == [put.undo EXCEPT ![Len(d.undo)] = long(t)]
<1>1. DoInsert(e, new, kind) =
         IF Grows(d, kind) THEN [put EXCEPT !.undo = over(put.text)]
                           ELSE PushUndo(put, op(put.text))
  BY DEF DoInsert, Grows
<1>2. Marks(d)
  BY MarkedDelete DEF Marked, Greyed
<1>3. Marks(in) /\ in.text = text /\ in.undo = d.undo
  BY <1>2, GreyedSplice, SpliceIs DEF Greyed
<1>4. long(text) = LongerInsertion(d, new) /\ op(text) = Insertion(d, new)
  BY DEF LongerInsertion, Insertion
<1> HIDE DEF in, text, end, op, long
<1>5. Edited(put, text, end, d.undo, <<>>)
  BY <1>3 DEF Edited, CursorAt, Marks, Fields
<1>6. put.text = text /\ put.undo = d.undo /\ Marks(put)
  BY <1>5 DEF Edited
<1> HIDE DEF put
<1>7. over(text) = Grown(d.undo, long(text))
  BY <1>6 DEF Grown
<1>8. Edited([put EXCEPT !.undo = over(text)], text, end, over(text), <<>>)
  <2> DEFINE u == over(text)
  <2> HIDE DEF u
  <2> QED
    BY <1>5 DEF Edited, Marks, Fields, u
<1>9. Edited(PushUndo(put, op(text)), text, end, Pushed(d.undo, op(text)), <<>>)
  BY <1>5, PushIs DEF Edited
<1> HIDE DEF over
<1>10. Edited(DoInsert(e, new, kind), text, end,
              IF Grows(d, kind) THEN Grown(d.undo, long(text))
                                ELSE Pushed(d.undo, op(text)), <<>>)
  <2>1. CASE Grows(d, kind)
    BY <1>1, <1>6, <1>7, <1>8, <2>1
  <2>2. CASE ~Grows(d, kind)
    BY <1>1, <1>6, <1>9, <2>2
  <2> QED
    BY <2>1, <2>2
<1> QED
  BY <1>2, <1>4, <1>10 DEF text, end

(* The same for backspace and delete.                                      *)
Deletion(e, from, to) ==
  Op("deleted", from, from, Between(e, from, to), e.cursor, from, e.text,
     TakenOut(e.text, from, to))

LongerDeletion(e, from, to) ==
  Op("deleted", from, from, Between(e, from, to) \o Last(e.undo).text,
     Last(e.undo).before, from, Last(e.undo).was, TakenOut(e.text, from, to))

LEMMA CutIs ==
  ASSUME NEW e, Marks(e), NEW from, NEW to, NEW kind
  PROVE  Edited(Cut(e, from, to, kind), TakenOut(e.text, from, to), from,
                IF /\ kind = "backspace" /\ e.coalesce = "backspace"
                   /\ e.undo # <<>> /\ Last(e.undo).kind = "deleted"
                   /\ Last(e.undo).start = to
                THEN Grown(e.undo, LongerDeletion(e, from, to))
                ELSE Pushed(e.undo, Deletion(e, from, to)),
                <<>>)
<1> DEFINE text == TakenOut(e.text, from, to)
           s    == SpliceOut(e, from, to)
           c    == [CursorAt(s, from) EXCEPT !.dirty = TRUE, !.redo = <<>>,
                                             !.coalesce = kind]
           long(t) == Op("deleted", from, from,
                         Between(e, from, to) \o Last(e.undo).text,
                         Last(e.undo).before, from, Last(e.undo).was, t)
           op(t) == Op("deleted", from, from, Between(e, from, to), e.cursor,
                       from, e.text, t)
           over(t) == [c.undo EXCEPT ![Len(e.undo)] = long(t)]
           grow == /\ kind = "backspace" /\ e.coalesce = "backspace"
                   /\ e.undo # <<>> /\ Last(e.undo).kind = "deleted"
                   /\ Last(e.undo).start = to
<1>1. Cut(e, from, to, kind) = IF grow THEN [c EXCEPT !.undo = over(c.text)]
                                       ELSE PushUndo(c, op(c.text))
  BY DEF Cut
<1>3. Marks(s) /\ s.text = text /\ s.undo = e.undo
  BY GreyedSplice, SpliceIs DEF Greyed
<1>4. long(text) = LongerDeletion(e, from, to) /\ op(text) = Deletion(e, from, to)
  BY DEF LongerDeletion, Deletion
<1> HIDE DEF s, text, op, long
<1>5. Edited(c, text, from, e.undo, <<>>)
  BY <1>3 DEF Edited, CursorAt, Marks, Fields
<1>6. c.text = text /\ c.undo = e.undo /\ Marks(c)
  BY <1>5 DEF Edited
<1> HIDE DEF c
<1>7. over(text) = Grown(e.undo, long(text))
  BY <1>6 DEF Grown
<1>8. Edited([c EXCEPT !.undo = over(text)], text, from, over(text), <<>>)
  <2> DEFINE u == over(text)
  <2> HIDE DEF u
  <2> QED
    BY <1>5 DEF Edited, Marks, Fields, u
<1>9. Edited(PushUndo(c, op(text)), text, from, Pushed(e.undo, op(text)), <<>>)
  BY <1>5, PushIs DEF Edited
<1> HIDE DEF over, grow
<1>10. Edited(Cut(e, from, to, kind), text, from,
              IF grow THEN Grown(e.undo, long(text))
                      ELSE Pushed(e.undo, op(text)), <<>>)
  <2>1. CASE grow
    BY <1>1, <1>6, <1>7, <1>8, <2>1
  <2>2. CASE ~grow
    BY <1>1, <1>6, <1>9, <2>2
  <2> QED
    BY <2>1, <2>2
<1> QED
  BY <1>4, <1>10 DEF text, grow

LEMMA UndoneIs ==
  ASSUME NEW e, Marks(e), NEW op, op = Last(e.undo)
  PROVE  Edited(Undone(e),
                IF op.kind = "inserted" THEN TakenOut(e.text, op.start, op.end)
                                        ELSE PutIn(e.text, op.start, op.text),
                op.before, Front(e.undo), Append(e.redo, op))
<1> DEFINE text == IF op.kind = "inserted" THEN TakenOut(e.text, op.start, op.end)
                                           ELSE PutIn(e.text, op.start, op.text)
           s == IF op.kind = "inserted" THEN SpliceOut(e, op.start, op.end)
                                        ELSE SpliceIn(e, op.start, op.text)
<1>1. Undone(e) = [CursorAt(s, op.before)
                     EXCEPT !.dirty = TRUE, !.coalesce = "none",
                            !.undo = Front(@), !.redo = Append(@, op)]
  BY DEF Undone
<1>2. Marks(s) /\ s.text = text /\ s.undo = e.undo /\ s.redo = e.redo
  BY GreyedSplice, SpliceIs DEF Greyed
<1> HIDE DEF s, text
<1> DEFINE u == Front(e.undo)
           r == Append(e.redo, op)
<1>3. Undone(e) = [CursorAt(s, op.before)
                     EXCEPT !.dirty = TRUE, !.coalesce = "none",
                            !.undo = u, !.redo = r]
  BY <1>1, <1>2 DEF CursorAt, Marks, Fields
<1> HIDE DEF u, r
<1>4. Edited(Undone(e), text, op.before, u, r)
  BY <1>2, <1>3 DEF Edited, CursorAt, Marks, Fields
<1> QED
  BY <1>4 DEF text, u, r

LEMMA RedoneIs ==
  ASSUME NEW e, Marks(e), NEW op, op = Last(e.redo)
  PROVE  Edited(Redone(e), PutIn(e.text, op.start, op.text), op.after,
                Append(e.undo, op), Front(e.redo))
<1> DEFINE text == PutIn(e.text, op.start, op.text)
           s == SpliceIn(e, op.start, op.text)
<1>1. Redone(e) = [CursorAt(s, op.after)
                     EXCEPT !.dirty = TRUE, !.coalesce = "none",
                            !.redo = Front(@), !.undo = Append(@, op)]
  BY DEF Redone
<1>2. Marks(s) /\ s.text = text /\ s.undo = e.undo /\ s.redo = e.redo
  BY GreyedSplice, SpliceIs DEF Greyed
<1> HIDE DEF s, text
<1> DEFINE u == Append(e.undo, op)
           r == Front(e.redo)
<1>3. Redone(e) = [CursorAt(s, op.after)
                     EXCEPT !.dirty = TRUE, !.coalesce = "none",
                            !.redo = r, !.undo = u]
  BY <1>1, <1>2 DEF CursorAt, Marks, Fields
<1> HIDE DEF u, r
<1>4. Edited(Redone(e), text, op.after, u, r)
  BY <1>2, <1>3 DEF Edited, CursorAt, Marks, Fields
<1> QED
  BY <1>4 DEF text, u, r


-----------------------------------------------------------------------------
(* Types.                                                                  *)

Place == Nat \X Nat

Entry(T) ==
  [kind : {"inserted", "deleted"}, start : Place, end : Place, text : Seq(T),
   before : Place, after : Place, was : Seq(T), now : Seq(T)]

(* An editing state over the characters of T.                              *)
Editing(T, e) ==
  /\ Marks(e)
  /\ e.text \in Seq(T)
  /\ e.cursor \in Place /\ e.anchor \in Place
  /\ e.undo \in Seq(Entry(T)) /\ e.redo \in Seq(Entry(T))

LEMMA EntryIs ==
  ASSUME NEW T, NEW op \in Entry(T)
  PROVE  /\ op.kind \in {"inserted", "deleted"}
         /\ op.start \in Place /\ op.end \in Place /\ op.text \in Seq(T)
         /\ op.before \in Place /\ op.after \in Place
         /\ op.was \in Seq(T) /\ op.now \in Seq(T)
  BY DEF Entry

LEMMA OpIs ==
  ASSUME NEW T, NEW kind \in {"inserted", "deleted"}, NEW start \in Place,
         NEW end \in Place, NEW new \in Seq(T), NEW before \in Place,
         NEW after \in Place, NEW was \in Seq(T), NEW now \in Seq(T)
  PROVE  Op(kind, start, end, new, before, after, was, now) \in Entry(T)
  BY DEF Op, Entry

LEMMA OpFields ==
  ASSUME NEW kind, NEW start, NEW end, NEW new, NEW before, NEW after,
         NEW was, NEW now
  PROVE  LET op == Op(kind, start, end, new, before, after, was, now)
         IN /\ op.kind = kind /\ op.start = start /\ op.end = end
            /\ op.text = new /\ op.before = before /\ op.after = after
            /\ op.was = was /\ op.now = now
  BY DEF Op

LEMMA LastIs ==
  ASSUME NEW S, NEW s \in Seq(S), s # <<>>
  PROVE  /\ Len(s) \in Nat \ {0}
         /\ Last(s) = s[Len(s)] /\ Last(s) \in S
         /\ Front(s) \in Seq(S) /\ Len(Front(s)) = Len(s) - 1
         /\ \A i \in 1 .. Len(s) - 1 : Front(s)[i] = s[i]
<1>1. Len(s) \in Nat /\ \A i \in 1 .. Len(s) : s[i] \in S
  BY ElementsOf
<1>2. Len(s) # 0
  BY EmptySeq
<1>3. Last(s) = s[Len(s)] /\ Last(s) \in S
  BY <1>1, <1>2 DEF Last
<1> DEFINE n == Len(s) - 1
<1>4. n \in 0 .. Len(s) /\ 1 \in 1 .. Len(s) + 1 /\ n \in 1 - 1 .. Len(s) /\ n - 1 + 1 = n
  BY <1>1, <1>2
<1> HIDE DEF n
<1>5. /\ SubSeq(s, 1, n) \in Seq(S)
      /\ Len(SubSeq(s, 1, n)) = IF 1 <= n THEN n - 1 + 1 ELSE 0
      /\ \A i \in 1 .. n - 1 + 1 : SubSeq(s, 1, n)[i] = s[1 + i - 1]
  BY <1>1, <1>4, SubSeqProperties
<1>6. Len(SubSeq(s, 1, n)) = n
  BY <1>1, <1>4, <1>5
<1>7. \A i \in 1 .. n : SubSeq(s, 1, n)[i] = s[i]
  BY <1>1, <1>4, <1>5
<1> QED
  BY <1>1, <1>2, <1>3, <1>5, <1>6, <1>7 DEF Front, n

LEMMA PushedIs ==
  ASSUME NEW S, NEW s \in Seq(S), NEW op \in S, UndoCap \in Nat \ {0}
  PROVE  LET m == IF Len(s) >= UndoCap THEN 1 ELSE 0
             n == Len(s) - m
         IN /\ Pushed(s, op) \in Seq(S) /\ Pushed(s, op) # <<>>
            /\ n \in Nat /\ Len(Pushed(s, op)) = n + 1
            /\ \A i \in 1 .. n : Pushed(s, op)[i] = s[i + m]
            /\ Pushed(s, op)[n + 1] = op
<1>1. Len(s) \in Nat
  BY ElementsOf
<1>2. CASE Len(s) >= UndoCap
  <2> DEFINE t == Tail(s)
  <2>1. s # <<>>
    BY <1>2, EmptySeq
  <2>2. /\ t \in Seq(S) /\ Len(t) = Len(s) - 1
        /\ \A i \in 1 .. Len(s) - 1 : t[i] = s[i + 1]
    BY <2>1, Beheaded
  <2>3. Pushed(s, op) = Append(t, op)
    BY <1>2 DEF Pushed
  <2> HIDE DEF t
  <2>4. /\ Append(t, op) \in Seq(S) /\ Len(Append(t, op)) = Len(t) + 1
        /\ \A i \in 1 .. Len(t) : Append(t, op)[i] = t[i]
        /\ Append(t, op)[Len(t) + 1] = op
    BY <2>2, Appended
  <2> DEFINE u == Append(t, op)
  <2>5. u # <<>>
    BY <1>1, <1>2, <2>2, <2>4, EmptySeq
  <2> HIDE DEF u
  <2> QED
    BY <1>1, <1>2, <2>2, <2>3, <2>4, <2>5 DEF u
<1>3. CASE ~(Len(s) >= UndoCap)
  <2> DEFINE u == Append(s, op)
  <2>1. /\ u \in Seq(S) /\ Len(u) = Len(s) + 1
        /\ \A i \in 1 .. Len(s) : u[i] = s[i]
        /\ u[Len(s) + 1] = op
    BY Appended
  <2>2. Pushed(s, op) = u
    BY <1>3 DEF Pushed
  <2> HIDE DEF u
  <2>3. u # <<>>
    BY <1>1, <2>1, EmptySeq
  <2> QED
    BY <1>1, <1>3, <2>1, <2>2, <2>3
<1> QED
  BY <1>2, <1>3

LEMMA GrownIs ==
  ASSUME NEW S, NEW s \in Seq(S), s # <<>>, NEW op \in S
  PROVE  /\ Grown(s, op) \in Seq(S) /\ Len(Grown(s, op)) = Len(s)
         /\ Grown(s, op)[Len(s)] = op
         /\ \A i \in 1 .. Len(s) - 1 : Grown(s, op)[i] = s[i]
<1>1. Len(s) \in Nat \ {0}
  BY LastIs
<1>2. Len(s) \in 1 .. Len(s)
  BY <1>1
<1>3. /\ Grown(s, op) \in Seq(S) /\ Len(Grown(s, op)) = Len(s)
      /\ \A j \in 1 .. Len(s) :
           Grown(s, op)[j] = IF j = Len(s) THEN op ELSE s[j]
  BY <1>2, ExceptSeq DEF Grown
<1> QED
  BY <1>1, <1>3


LEMMA PutInType ==
  ASSUME NEW T, Newline \in T, NEW text \in Seq(T), NEW pos \in Place,
         NEW new \in Seq(T)
  PROVE  PutIn(text, pos, new) \in Seq(T)
<1> DEFINE o == OffsetOf(text, pos)
           d == Decoded(Unix(new))
<1>1. o \in Nat
  <2>1. o \in 0 .. Len(text) /\ Len(text) \in Nat
    BY OffsetType, ElementsOf DEF Place
  <2> QED
    BY <2>1
<1>2. Unix(new) \in Seq(T)
  <2>1. \A i \in 1 .. Len(new) : new[i] \in T
    BY ElementsOf
  <2> QED
    BY <2>1, UnixType
<1>3. d \in Seq(T)
  BY <1>2, DecodedIs
<1> HIDE DEF o, d
<1>4. Spliced(text, o, d) \in Seq(T)
  BY <1>1, <1>3, SplicedType
<1> QED
  BY <1>4 DEF PutIn, o, d

LEMMA TakenOutType ==
  ASSUME NEW T, NEW text \in Seq(T), NEW from \in Place, NEW to \in Place
  PROVE  TakenOut(text, from, to) \in Seq(T)
<1> DEFINE lo == OffsetOf(text, from)
           hi == OffsetOf(text, to)
           n  == hi - lo
<1>1. Len(text) \in Nat /\ lo \in 0 .. Len(text) /\ hi \in 0 .. Len(text)
  BY OffsetType, ElementsOf DEF Place
<1> HIDE DEF lo, hi
<1>2. ASSUME ~(hi <= lo)
      PROVE  Without(text, lo, n) \in Seq(T)
  <2>1. lo \in Nat /\ n \in Nat
    BY <1>1, <1>2
  <2> HIDE DEF n
  <2> QED
    BY <2>1, WithoutType
<1>3. TakenOut(text, from, to) =
        IF from = to \/ hi <= lo THEN text ELSE Without(text, lo, n)
  BY DEF TakenOut, lo, hi
<1> HIDE DEF n
<1> QED
  BY <1>2, <1>3

LEMMA BetweenType ==
  ASSUME NEW T, NEW e, e.text \in Seq(T), NEW from \in Place, NEW to \in Place
  PROVE  Between(e, from, to) \in Seq(T)
<1> DEFINE s  == e.text
           lo == OffsetOf(s, from)
           hi == OffsetOf(s, to)
<1>1. Len(s) \in Nat /\ lo \in 0 .. Len(s) /\ hi \in 0 .. Len(s) /\ s \in Seq(T)
  BY OffsetType, ElementsOf DEF Place
<1>2. Between(e, from, to) = Slice(s, lo, hi)
  BY DEF Between
<1> HIDE DEF s, lo, hi
<1>3. lo \in Nat /\ hi \in Nat
  BY <1>1
<1>4. Slice(s, lo, hi) \in Seq(T)
  BY <1>1, <1>3, SliceIs
<1> QED
  BY <1>2, <1>4

LEMMA EndOfType ==
  ASSUME NEW T, NEW new \in Seq(T), NEW pos \in Place
  PROVE  EndOf(pos, new) \in Place
<1> DEFINE S == Breaks(new)
           n == Len(new)
<1>1. Within(S, n) /\ n \in Nat /\ Newlines(new) \in 0 .. n
  BY BreaksWithin
<1>2. Newlines(new) = Cardinality(S) /\ {i \in DOMAIN new : new[i] = Newline} = S
  BY DEF Newlines, Breaks
<1>3. pos[1] \in Nat /\ pos[2] \in Nat
  BY DEF Place
<1> HIDE DEF S
<1>4. CASE Newlines(new) = 0
  BY <1>1, <1>3, <1>4 DEF EndOf, Place
<1>5. CASE Newlines(new) # 0
  <2>1. S # {}
    BY <1>2, <1>5, FS_EmptySet
  <2>2. S \in SUBSET Nat /\ \A i \in S : i <= n
    BY <1>1 DEF Within
  <2>3. Max(S) \in S
    BY <1>1, <2>1, <2>2, MaxIsGreatest
  <2>6. Max(S) \in Nat /\ Max(S) <= Len(new)
    BY <2>2, <2>3
  <2>7. Len(new) \in Nat /\ Newlines(new) \in Nat
    BY <1>1
  <2> DEFINE m == Max(S)
             k == Newlines(new)
  <2>4. Len(new) - m \in Nat /\ pos[1] + k \in Nat
    <3> HIDE DEF m, k, n
    <3> QED
      BY <1>3, <2>6, <2>7 DEF m, k
  <2>5. EndOf(pos, new) = <<pos[1] + Newlines(new), Len(new) - Max(S)>>
    BY <1>2, <1>5 DEF EndOf
  <2> QED
    BY <2>4, <2>5 DEF Place
<1> QED
  BY <1>4, <1>5

LEMMA SelectionType ==
  ASSUME NEW e
  PROVE  /\ SelStart(e) \in {e.cursor, e.anchor}
         /\ SelEnd(e) \in {e.cursor, e.anchor}
  BY DEF SelStart, SelEnd

(* An edit with a text, a position and stacks that are what they should be.*)
LEMMA EditedType ==
  ASSUME NEW T, NEW d, NEW text \in Seq(T), NEW pos \in Place,
         NEW u \in Seq(Entry(T)), NEW r \in Seq(Entry(T)),
         Edited(d, text, pos, u, r)
  PROVE  Editing(T, d)
  BY DEF Edited, Editing

LEMMA PushedType ==
  ASSUME NEW T, NEW u \in Seq(Entry(T)), NEW op \in Entry(T)
  PROVE  Pushed(u, op) \in Seq(Entry(T))
  BY PushedIs, EditorAssumption

LEMMA EditingDelete ==
  ASSUME NEW T, NEW e, Editing(T, e)
  PROVE  Editing(T, DeleteSelection(e)) /\ Editing(T, CutSelection(e))
<1> DEFINE from == SelStart(e)
           to   == SelEnd(e)
           text == TakenOut(e.text, from, to)
           op   == Op("deleted", from, from, Selected(e), e.cursor, from,
                      e.text, text)
           d    == DeleteSelection(e)
<1>1. Marks(e) /\ e.text \in Seq(T) /\ e.cursor \in Place /\ e.anchor \in Place
      /\ e.undo \in Seq(Entry(T)) /\ e.redo \in Seq(Entry(T))
  BY DEF Editing
<1>2. from \in Place /\ to \in Place
  BY <1>1, SelectionType
<1>3. Selecting(e) => Edited(d, text, from, Pushed(e.undo, op), e.redo)
  BY <1>1, DeleteIs
<1>4. Selected(e) \in Seq(T)
  BY <1>1, <1>2, BetweenType DEF Selected
<1> HIDE DEF from, to
<1>5. text \in Seq(T)
  BY <1>1, <1>2, TakenOutType
<1> HIDE DEF text
<1>6. op \in Entry(T)
  BY <1>1, <1>2, <1>4, <1>5, OpIs
<1> HIDE DEF op
<1>7. Pushed(e.undo, op) \in Seq(Entry(T))
  BY <1>1, <1>6, PushedType
<1>8. Editing(T, d)
  <2>1. CASE Selecting(e)
    <3> DEFINE u == Pushed(e.undo, op)
    <3> HIDE DEF u, d
    <3> QED
      BY <1>1, <1>2, <1>3, <1>5, <1>7, <2>1, EditedType DEF u
  <2>2. CASE ~Selecting(e)
    BY <1>1, <2>2, DeleteIs
  <2> QED
    BY <2>1, <2>2
<1> HIDE DEF d
<1>9. Editing(T, [d EXCEPT !.redo = <<>>])
  BY <1>8, EmptySeq DEF Editing, Marks, Fields
<1> QED
  BY <1>8, <1>9 DEF CutSelection, d


LEMMA EditingInsert ==
  ASSUME NEW T, Newline \in T, NEW e, Editing(T, e), NEW new \in Seq(T),
         NEW kind
  PROVE  /\ Editing(T, DoInsert(e, new, kind))
         /\ Editing(T, InsertStr(e, new))
<1> DEFINE d    == DeleteSelection(e)
           end  == EndOf(d.cursor, Unix(new))
           text == PutIn(d.text, d.cursor, new)
           op   == Insertion(d, new)
           long == LongerInsertion(d, new)
           u(k) == IF Grows(d, k) THEN Grown(d.undo, long) ELSE Pushed(d.undo, op)
<1>1. Editing(T, d) /\ Marks(e)
  BY EditingDelete DEF Editing
<1>2. \A k : Edited(DoInsert(e, new, k), text, end, u(k), <<>>)
  BY <1>1, InsertIs
<1>3. Unix(new) \in Seq(T)
  <2>1. \A i \in 1 .. Len(new) : new[i] \in T
    BY ElementsOf
  <2> QED
    BY <2>1, UnixType
<1> HIDE DEF d
<1>4. d.text \in Seq(T) /\ d.cursor \in Place /\ d.undo \in Seq(Entry(T))
  BY <1>1 DEF Editing
<1>5. end \in Place /\ text \in Seq(T)
  BY <1>3, <1>4, EndOfType, PutInType
<1>6. op \in Entry(T)
  BY <1>4, <1>5, OpIs DEF Insertion
<1>7. d.undo # <<>> => long \in Entry(T)
  <2> SUFFICES ASSUME d.undo # <<>>
               PROVE  long \in Entry(T)
    OBVIOUS
  <2> DEFINE last == Last(d.undo)
             t == last.text \o new
  <2>1. last \in Entry(T)
    BY <1>4, LastIs
  <2> HIDE DEF last
  <2>2. /\ last.start \in Place /\ last.before \in Place /\ last.text \in Seq(T)
        /\ last.was \in Seq(T)
    BY <2>1, EntryIs
  <2>3. t \in Seq(T)
    BY <2>2, ConcatProperties
  <2>4. long = Op("inserted", last.start, end, t, last.before, end, last.was, text)
    BY DEF LongerInsertion, last
  <2> HIDE DEF t, end, text, long
  <2> QED
    BY <1>5, <2>2, <2>3, <2>4, OpIs
<1> HIDE DEF end, text, op, long
<1>8. ASSUME NEW k
      PROVE  Editing(T, DoInsert(e, new, k))
  <2>1. u(k) \in Seq(Entry(T))
    <3>1. CASE Grows(d, k)
      <4>1. d.undo # <<>>
        BY <3>1 DEF Grows
      <4>2. Grown(d.undo, long) \in Seq(Entry(T))
        BY <1>4, <1>7, <4>1, GrownIs
      <4> QED
        BY <3>1, <4>2
    <3>2. CASE ~Grows(d, k)
      BY <1>4, <1>6, <3>2, PushedType
    <3> QED
      BY <3>1, <3>2
  <2>2. Edited(DoInsert(e, new, k), text, end, u(k), <<>>)
    BY <1>2
  <2> DEFINE v == u(k)
             r == <<>>
  <2>3. r \in Seq(Entry(T))
    BY EmptySeq
  <2> HIDE DEF v, r
  <2> QED
    BY <1>5, <2>1, <2>2, <2>3, EditedType DEF v, r
<1> QED
  BY <1>8 DEF InsertStr

LEMMA EditingCut ==
  ASSUME NEW T, NEW e, Editing(T, e), NEW from \in Place, NEW to \in Place,
         NEW kind
  PROVE  Editing(T, Cut(e, from, to, kind))
<1> DEFINE text == TakenOut(e.text, from, to)
           op   == Deletion(e, from, to)
           long == LongerDeletion(e, from, to)
           grow == /\ kind = "backspace" /\ e.coalesce = "backspace"
                   /\ e.undo # <<>> /\ Last(e.undo).kind = "deleted"
                   /\ Last(e.undo).start = to
           u    == IF grow THEN Grown(e.undo, long) ELSE Pushed(e.undo, op)
           r    == <<>>
<1>1. Marks(e) /\ e.text \in Seq(T) /\ e.cursor \in Place
      /\ e.undo \in Seq(Entry(T)) /\ r \in Seq(Entry(T))
  BY EmptySeq DEF Editing
<1>2. Edited(Cut(e, from, to, kind), text, from, u, r)
  BY <1>1, CutIs
<1>3. text \in Seq(T) /\ Between(e, from, to) \in Seq(T)
  BY <1>1, TakenOutType, BetweenType
<1>4. op \in Entry(T)
  BY <1>1, <1>3, OpIs DEF Deletion
<1>5. e.undo # <<>> => long \in Entry(T)
  <2> SUFFICES ASSUME e.undo # <<>>
               PROVE  long \in Entry(T)
    OBVIOUS
  <2> DEFINE last == Last(e.undo)
             t == Between(e, from, to) \o last.text
  <2>1. last \in Entry(T)
    BY <1>1, LastIs
  <2> HIDE DEF last
  <2>2. last.before \in Place /\ last.text \in Seq(T) /\ last.was \in Seq(T)
    BY <2>1, EntryIs
  <2>3. t \in Seq(T)
    BY <1>3, <2>2, ConcatProperties
  <2>4. long = Op("deleted", from, from, t, last.before, from, last.was, text)
    BY DEF LongerDeletion, last
  <2> HIDE DEF t, text, long
  <2> QED
    BY <1>3, <2>2, <2>3, <2>4, OpIs
<1> HIDE DEF text, op, long, r
<1>6. u \in Seq(Entry(T))
  <2>1. CASE grow
    BY <1>1, <1>5, <2>1, GrownIs
  <2>2. CASE ~grow
    BY <1>1, <1>4, <2>2, PushedType
  <2> QED
    BY <2>1, <2>2
<1> HIDE DEF u
<1> QED
  BY <1>1, <1>2, <1>3, <1>6, EditedType

LEMMA EditingHistory ==
  ASSUME NEW T, Newline \in T, NEW e, Editing(T, e)
  PROVE  /\ e.undo # <<>> => Editing(T, Undone(e))
         /\ e.redo # <<>> => Editing(T, Redone(e))
<1>1. Marks(e) /\ e.text \in Seq(T)
      /\ e.undo \in Seq(Entry(T)) /\ e.redo \in Seq(Entry(T))
  BY DEF Editing
<1>2. ASSUME e.undo # <<>>
      PROVE  Editing(T, Undone(e))
  <2> DEFINE op == Last(e.undo)
             text == IF op.kind = "inserted" THEN TakenOut(e.text, op.start, op.end)
                                             ELSE PutIn(e.text, op.start, op.text)
             u == Front(e.undo)
             r == Append(e.redo, op)
  <2>1. op \in Entry(T) /\ u \in Seq(Entry(T))
    BY <1>1, <1>2, LastIs
  <2>2. Edited(Undone(e), text, op.before, u, r)
    BY <1>1, UndoneIs
  <2> HIDE DEF op, u
  <2>3. r \in Seq(Entry(T))
    BY <1>1, <2>1, AppendProperties
  <2>4. op.start \in Place /\ op.end \in Place /\ op.text \in Seq(T) /\ op.before \in Place
    BY <2>1, EntryIs
  <2>5. text \in Seq(T)
    BY <1>1, <2>4, TakenOutType, PutInType
  <2> HIDE DEF r, text
  <2> QED
    BY <2>1, <2>2, <2>3, <2>4, <2>5, EditedType
<1>3. ASSUME e.redo # <<>>
      PROVE  Editing(T, Redone(e))
  <2> DEFINE op == Last(e.redo)
             text == PutIn(e.text, op.start, op.text)
             u == Append(e.undo, op)
             r == Front(e.redo)
  <2>1. op \in Entry(T) /\ r \in Seq(Entry(T))
    BY <1>1, <1>3, LastIs
  <2>2. Edited(Redone(e), text, op.after, u, r)
    BY <1>1, RedoneIs
  <2> HIDE DEF op, r
  <2>3. u \in Seq(Entry(T))
    BY <1>1, <2>1, AppendProperties
  <2>4. op.start \in Place /\ op.text \in Seq(T) /\ op.after \in Place
    BY <2>1, EntryIs
  <2>5. text \in Seq(T)
    BY <1>1, <2>4, PutInType
  <2> HIDE DEF u, text
  <2> QED
    BY <2>1, <2>2, <2>3, <2>4, <2>5, EditedType
<1> QED
  BY <1>2, <1>3


-----------------------------------------------------------------------------
(* Moving about.                                                           *)

(* Only cursor and anchor move, to where they were or where the text is.   *)
Moved(e, d) ==
  /\ Marks(d) /\ d.text = e.text /\ d.undo = e.undo /\ d.redo = e.redo
  /\ {d.cursor, d.anchor} \subseteq {e.cursor, e.anchor} \cup Positions(e.text)

LEMMA EditingMoved ==
  ASSUME NEW T, NEW e, Editing(T, e), NEW d, Moved(e, d)
  PROVE  Editing(T, d)
<1>1. e.text \in Seq(T)
  BY DEF Editing
<1> DEFINE P == Positions(e.text)
<1>2. P \subseteq Place
  BY <1>1, PosType DEF Place
<1>3. {d.cursor, d.anchor} \subseteq {e.cursor, e.anchor} \cup P
  BY DEF Moved
<1> HIDE DEF P
<1>4. d.cursor \in Place /\ d.anchor \in Place
  BY <1>2, <1>3 DEF Editing
<1> QED
  BY <1>4 DEF Editing, Moved

LEMMA SetCursorMoves ==
  ASSUME NEW e, Marks(e), NEW pos, NEW extend,
         pos \in {e.cursor, e.anchor} \cup Positions(e.text)
  PROVE  Moved(e, SetCursor(e, pos, extend))
<1> DEFINE P == {e.cursor, e.anchor} \cup Positions(e.text)
           d == SetCursor(e, pos, extend)
           a == IF extend THEN e.anchor ELSE pos
<1>1. a \in P /\ pos \in P
  OBVIOUS
<1>2. d = [e EXCEPT !.cursor = pos, !.anchor = a, !.coalesce = "none"]
  BY DEF SetCursor, Marks, Fields
<1> HIDE DEF a, d
<1>3. /\ Marks(d) /\ d.text = e.text /\ d.undo = e.undo /\ d.redo = e.redo
      /\ d.cursor = pos /\ d.anchor = a
  BY <1>2 DEF Marks, Fields
<1> HIDE DEF P
<1>4. {d.cursor, d.anchor} \subseteq P
  BY <1>1, <1>3
<1> QED
  BY <1>3, <1>4 DEF Moved, P, d

LEMMA SelectAllMoves ==
  ASSUME NEW T, NEW e, Editing(T, e), NEW d,
         d = [e EXCEPT !.anchor = <<0, 0>>, !.coalesce = "none",
                       !.cursor = PosOf(e.text, Len(e.text))]
  PROVE  Moved(e, d)
<1> DEFINE s == e.text
           p == PosOf(s, Len(s))
           o == <<0, 0>>
<1>1. s \in Seq(T) /\ Len(s) \in Nat
  BY ElementsOf DEF Editing
<1>2. p \in Positions(s) /\ o \in Positions(s)
  BY <1>1, PosType, TextStarts
<1>3. d = [e EXCEPT !.anchor = o, !.coalesce = "none", !.cursor = p]
  OBVIOUS
<1> HIDE DEF p, o
<1>4. /\ Marks(d) /\ d.text = s /\ d.undo = e.undo /\ d.redo = e.redo
      /\ d.cursor = p /\ d.anchor = o
  BY <1>3 DEF Marks, Fields, Editing
<1> QED
  BY <1>2, <1>4 DEF Moved

LEMMA MatchMoves ==
  ASSUME NEW T, NEW e, Editing(T, e), NEW hit \in Nat,
         NEW pattern, Len(pattern) \in Nat
  PROVE  Moved(e, Match(e, hit, pattern))
<1> DEFINE s == e.text
           m == hit + Len(pattern)
           p == PosOf(s, hit)
           q == PosOf(s, m)
           d == Match(e, hit, pattern)
<1>1. s \in Seq(T) /\ m \in Nat
  BY DEF Editing
<1>2. d = [e EXCEPT !.anchor = p, !.cursor = q]
  BY DEF Match
<1> HIDE DEF m
<1>3. p \in Positions(s) /\ q \in Positions(s)
  BY <1>1, PosType
<1> HIDE DEF p, q, d
<1>4. /\ Marks(d) /\ d.text = s /\ d.undo = e.undo /\ d.redo = e.redo
      /\ d.cursor = q /\ d.anchor = p
  BY <1>2 DEF Marks, Fields, Editing
<1> QED
  BY <1>3, <1>4 DEF Moved, d

LEMMA MovedOnce ==
  ASSUME NEW T, NEW e, Editing(T, e)
  PROVE  Moved(e, e)
  BY DEF Moved, Editing

LEMMA HitsAre ==
  ASSUME NEW T, NEW text \in Seq(T), NEW pattern, Len(pattern) \in Nat
  PROVE  /\ Hits(text, pattern) \in SUBSET Nat
         /\ \A h \in Hits(text, pattern) : h <= Len(text)
         /\ Len(text) \in Nat
<1>1. Len(pattern) \in Nat /\ Len(text) \in Nat
  BY ElementsOf
<1>2. \A h \in Hits(text, pattern) : h \in 0 .. Len(text) - Len(pattern)
  BY DEF Hits
<1>3. \A h \in 0 .. Len(text) - Len(pattern) : h \in Nat /\ h <= Len(text)
  BY <1>1
<1> QED
  BY <1>1, <1>2, <1>3

LEMMA FindMoves ==
  ASSUME NEW T, NEW e, Editing(T, e), NEW pattern, Len(pattern) \in Nat
  PROVE  Moved(e, FindNext(e, pattern)) /\ Moved(e, FindPrev(e, pattern))
<1> DEFINE all  == Hits(e.text, pattern)
           from == Min({OffsetOf(e.text, e.cursor) + 1, Len(e.text)})
           next == {h \in all : h >= from}
           prev == {h \in all : h + Len(pattern) <= OffsetOf(e.text, e.cursor)}
           down == IF next # {} THEN next ELSE all
           up   == IF prev # {} THEN prev ELSE all
<1>1. /\ all \in SUBSET Nat /\ \A h \in all : h <= Len(e.text)
      /\ Len(pattern) \in Nat /\ Len(e.text) \in Nat
  BY HitsAre DEF Editing
<1>2. FindNext(e, pattern) = IF all = {} THEN e ELSE Match(e, Min(down), pattern)
  BY DEF FindNext
<1>3. FindPrev(e, pattern) = IF all = {} THEN e ELSE Match(e, Max(up), pattern)
  BY DEF FindPrev
<1>4. all # {} => down # {} /\ up # {}
  OBVIOUS
<1>5. down \subseteq all /\ up \subseteq all
  OBVIOUS
<1> HIDE DEF all, down, up
<1>6. CASE all = {}
  BY <1>2, <1>3, <1>6, MovedOnce
<1>7. CASE all # {}
  <2>1. down \in SUBSET Nat /\ up \in SUBSET Nat /\ \A h \in up : h <= Len(e.text)
    BY <1>1, <1>5
  <2>2. Min(down) \in Nat
    BY <1>4, <1>7, <2>1, MinIsLeast
  <2>3. Max(up) \in Nat
    BY <1>1, <1>4, <1>7, <2>1, MaxIsGreatest
  <2> QED
    BY <1>1, <1>2, <1>3, <1>7, <2>2, <2>3, MatchMoves
<1> QED
  BY <1>6, <1>7

(* The keys that move by characters and words.                             *)
LEMMA HopsAre ==
  ASSUME NEW T, NEW e, Editing(T, e)
  PROVE  Hops(e) \subseteq Positions(e.text)
<1> DEFINE s  == e.text
           at == OffsetOf(s, e.cursor)
<1>1. s \in Seq(T) /\ Len(s) \in Nat /\ at \in 0 .. Len(s)
  BY OffsetType, ElementsOf DEF Editing, Place
<1>2. at \in Nat /\ at - 1 \in Int /\ 0 \in Int
  BY <1>1
<1>3. LeftOf(e) \in Positions(s)
  <2> DEFINE o == Max({at - 1, 0})
  <2>1. o = IF at - 1 <= 0 THEN 0 ELSE at - 1
    <3> DEFINE a == at - 1
    <3> HIDE DEF a
    <3>1. Max({a, 0}) = IF a <= 0 THEN 0 ELSE a
      BY <1>2, MaxOf DEF a
    <3> QED
      BY <3>1 DEF a
  <2>2. LeftOf(e) = PosOf(s, o)
    BY DEF LeftOf
  <2> HIDE DEF o
  <2>3. o \in Nat
    BY <1>2, <2>1
  <2> QED
    BY <1>1, <2>2, <2>3, PosType
<1>4. RightOf(e) \in Positions(s)
  <2> DEFINE o == at + 1
  <2>1. RightOf(e) = PosOf(s, o) /\ o \in Nat
    BY <1>2 DEF RightOf
  <2> HIDE DEF o
  <2> QED
    BY <1>1, <2>1, PosType
<1>5. WordLeft(e) \in Positions(s)
  <2> DEFINE S == {p \in 0 .. at - 1 : IsWord(s, p) /\ (p = 0 \/ ~IsWord(s, p - 1))}
             o == IF S = {} THEN 0 ELSE Max(S)
  <2>1. WordLeft(e) = PosOf(s, o)
    BY DEF WordLeft
  <2>2. S \in SUBSET Nat /\ \A p \in S : p <= at
    BY <1>2
  <2> HIDE DEF S
  <2>3. S # {} => Max(S) \in S
    BY <1>2, <2>2, MaxIsGreatest
  <2>4. o \in Nat
    BY <2>2, <2>3
  <2> HIDE DEF o
  <2> QED
    BY <1>1, <2>1, <2>4, PosType
<1>6. WordRight(e) \in Positions(s)
  <2> DEFINE S == {p \in at .. Len(s) : ~IsWord(s, p)}
             R == {p \in Min(S) .. Len(s) : IsWord(s, p)} \cup {Len(s)}
             o == Min(R)
  <2>1. WordRight(e) = PosOf(s, o)
    BY DEF WordRight
  <2>2. S \in SUBSET Nat
    BY <1>2
  <2>3. S # {}
    <3>1. Len(s) \in at .. Len(s) /\ ~(Len(s) < Len(s))
      BY <1>1
    <3>2. ~IsWord(s, Len(s))
      BY <3>1 DEF IsWord
    <3> QED
      BY <3>1, <3>2
  <2> HIDE DEF S
  <2>4. Min(S) \in Nat
    BY <2>2, <2>3, MinIsLeast
  <2>5. R \in SUBSET Nat /\ R # {}
    BY <1>1, <2>4
  <2> HIDE DEF R
  <2>6. o \in Nat
    BY <2>5, MinIsLeast
  <2> HIDE DEF o
  <2> QED
    BY <1>1, <2>1, <2>6, PosType
<1> QED
  BY <1>3, <1>4, <1>5, <1>6 DEF Hops

LEMMA LinesMove ==
  ASSUME NEW T, NEW e, Editing(T, e), NEW d \in Lines(e)
  PROVE  Moved(e, d)
<1>1. PICK row \in 0 .. LineCount(e.text) - 1 : d = SetCursor(e, <<row, 0>>, FALSE)
  BY DEF Lines
<1> DEFINE pos == <<row, 0>>
<1>2. pos \in Positions(e.text)
  BY RowStarts DEF Editing
<1> HIDE DEF pos
<1>3. Moved(e, SetCursor(e, pos, FALSE))
  BY <1>2, SetCursorMoves DEF Editing
<1> QED
  BY <1>1, <1>3 DEF pos


-----------------------------------------------------------------------------
(* What is typed and replaced.                                             *)

LEMMA IndentType ==
  ASSUME NEW T, Space \in T, NEW e, Editing(T, e)
  PROVE  AutoIndent(e) \in Seq(T)
<1> DEFINE row  == Line(e.text, e.cursor[1])
           body == {i \in DOMAIN row : row[i] # Space}
           lead == IF body = {} THEN row ELSE SubSeq(row, 1, Min(body) - 1)
           two  == <<Space, Space>>
<1>1. e.text \in Seq(T) /\ e.cursor[1] \in Nat
  BY DEF Editing, Place
<1>2. row \in Seq(T)
  BY <1>1, LineType
<1>3. two \in Seq(T)
  OBVIOUS
<1>4. AutoIndent(e) = IF Depth(Slice(row, 0, e.cursor[2])) > 0 THEN lead \o two
                                                                ELSE lead
  BY DEF AutoIndent
<1> HIDE DEF row
<1>5. DOMAIN row = 1 .. Len(row) /\ \A i \in 1 .. Len(row) : row[i] \in T
  BY <1>2, ElementsOf
<1>6. body \in SUBSET Nat /\ body \subseteq 1 .. Len(row)
  BY <1>5
<1> HIDE DEF body
<1>7. ASSUME body # {}
      PROVE  SubSeq(row, 1, Min(body) - 1) \in Seq(T)
  <2> DEFINE m == Min(body) - 1
  <2>1. Min(body) \in 1 .. Len(row)
    BY <1>6, <1>7, MinIsLeast
  <2>2. Len(row) \in Nat
    BY <1>2, ElementsOf
  <2>3. m \in Int /\ m <= Len(row)
    BY <2>1, <2>2
  <2> HIDE DEF m
  <2>4. \A i \in 1 .. m : row[i] \in T
    BY <1>5, <2>2, <2>3
  <2>5. SubSeq(row, 1, m) \in Seq(T)
    BY <2>3, <2>4, SubSeqProperties
  <2> QED
    BY <2>5 DEF m
<1>8. lead \in Seq(T)
  BY <1>2, <1>7
<1> HIDE DEF lead, two
<1>9. lead \o two \in Seq(T)
  BY <1>3, <1>8, ConcatProperties
<1> QED
  BY <1>4, <1>8, <1>9

LEMMA TabType ==
  ASSUME NEW T, Space \in T, NEW e, Editing(T, e)
  PROVE  [i \in 1 .. 2 - (e.cursor[2] % 2) |-> Space] \in Seq(T)
<1> DEFINE n == 2 - (e.cursor[2] % 2)
<1>1. e.cursor[2] \in Nat
  BY DEF Editing, Place
<1>2. n \in Nat
  BY <1>1
<1> HIDE DEF n
<1>3. [i \in 1 .. n |-> Space] \in [1 .. n -> T]
  OBVIOUS
<1>4. [i \in 1 .. n |-> Space] \in Seq(T)
  BY <1>2, <1>3, SeqDef
<1> QED
  BY <1>4 DEF n

LEMMA NewlineType ==
  ASSUME NEW T, {Newline, Space} \subseteq T, NEW e, Editing(T, e)
  PROVE  <<Newline>> \o AutoIndent(e) \in Seq(T)
<1>1. AutoIndent(e) \in Seq(T)
  BY IndentType
<1> DEFINE a == AutoIndent(e)
           n == <<Newline>>
<1>2. n \in Seq(T)
  OBVIOUS
<1> HIDE DEF a, n
<1>3. n \o a \in Seq(T)
  BY <1>1, <1>2, ConcatProperties DEF a
<1> QED
  BY <1>3 DEF a, n

LEMMA EditingKeys ==
  ASSUME NEW T, {Newline, Space} \subseteq T, NEW e, Editing(T, e)
  PROVE  /\ Editing(T, SoftTab(e)) /\ Editing(T, InsertNewline(e))
         /\ Editing(T, Backspace(e)) /\ Editing(T, DeleteForward(e))
<1>1. Editing(T, SoftTab(e))
  <2> DEFINE t == [i \in 1 .. 2 - (e.cursor[2] % 2) |-> Space]
  <2>1. t \in Seq(T)
    BY TabType
  <2> HIDE DEF t
  <2>2. Editing(T, InsertStr(e, t))
    BY <2>1, EditingInsert
  <2> QED
    BY <2>2 DEF SoftTab, t
<1>2. Editing(T, InsertNewline(e))
  <2> DEFINE t == <<Newline>> \o AutoIndent(e)
  <2>1. t \in Seq(T)
    BY NewlineType
  <2> HIDE DEF t
  <2>2. Editing(T, DoInsert(e, t, "none"))
    BY <2>1, EditingInsert
  <2> QED
    BY <2>2 DEF InsertNewline, t
<1>3. e.cursor \in Place /\ LeftOf(e) \in Place /\ RightOf(e) \in Place
  <2>1. Hops(e) \subseteq Place
    BY HopsAre, PosType DEF Editing, Place
  <2> QED
    BY <2>1 DEF Hops, Editing
<1>4. Editing(T, CutSelection(e))
  BY EditingDelete
<1>5. /\ Editing(T, Cut(e, LeftOf(e), e.cursor, "backspace"))
      /\ Editing(T, Cut(e, e.cursor, RightOf(e), "none"))
  BY <1>3, EditingCut
<1> QED
  BY <1>1, <1>2, <1>4, <1>5 DEF Backspace, DeleteForward

LEMMA EditingReplace ==
  ASSUME NEW T, Newline \in T, NEW e, Editing(T, e), NEW pattern,
         Len(pattern) \in Nat, NEW new \in Seq(T)
  PROVE  /\ Editing(T, ReplaceSelection(e, new))
         /\ Editing(T, ReplaceCurrent(e, pattern, new))
<1>1. Editing(T, ReplaceSelection(e, new))
  <2> DEFINE d == DeleteSelection(e)
  <2>1. Editing(T, d)
    BY EditingDelete
  <2> HIDE DEF d
  <2>2. Editing(T, InsertStr(d, new))
    BY <2>1, EditingInsert
  <2> QED
    BY <2>2 DEF ReplaceSelection, d
<1>2. Editing(T, ReplaceCurrent(e, pattern, new))
  <2> DEFINE r == IF Selecting(e) /\ Selected(e) = pattern
                  THEN ReplaceSelection(e, new) ELSE e
  <2>1. Editing(T, r)
    BY <1>1
  <2> HIDE DEF r
  <2>2. Editing(T, FindNext(r, pattern))
    BY <2>1, FindMoves, EditingMoved
  <2> QED
    BY <2>2 DEF ReplaceCurrent, r
<1> QED
  BY <1>1, <1>2

LEMMA EditingReplaceEach ==
  ASSUME NEW T, Newline \in T, NEW e, Editing(T, e), NEW pattern,
         Len(pattern) \in Nat, NEW new \in Seq(T)
  PROVE  Editing(T, ReplaceEach(e, pattern, new))
<1> DEFINE n == Len(e.text)
           f == Rounds(e, pattern, new)
           S == {k \in Nat : k <= n => Editing(T, f[k].ed) /\ f[k].from \in Nat}
<1>1. n \in Nat
  BY ElementsOf DEF Editing
<1>2. /\ f[0] = [ed |-> e, from |-> 0]
      /\ \A k \in 1 .. n : f[k] = ReplaceNext(f[k - 1], pattern, new)
  BY <1>1, RoundsStep
<1> HIDE DEF f
<1>3. 0 \in S
  BY <1>2
<1>4. ASSUME NEW k \in S
      PROVE  k + 1 \in S
  <2> SUFFICES ASSUME k + 1 <= n
               PROVE  Editing(T, f[k + 1].ed) /\ f[k + 1].from \in Nat
    OBVIOUS
  <2> DEFINE r    == f[k]
             next == {h \in Hits(r.ed.text, pattern) : h >= r.from}
             m    == Match(r.ed, Min(next), pattern)
             d    == ReplaceSelection(m, new)
  <2>1. k <= n /\ k + 1 \in 1 .. n /\ k + 1 - 1 = k
    BY <1>1
  <2>2. f[k + 1] = IF next = {} THEN r
                   ELSE [ed |-> d, from |-> OffsetOf(d.text, d.cursor)]
    <3>1. f[k + 1] = ReplaceNext(r, pattern, new)
      BY <1>2, <2>1
    <3> QED
      BY <3>1 DEF ReplaceNext
  <2>3. Editing(T, r.ed) /\ r.from \in Nat
    BY <2>1
  <2> HIDE DEF r
  <2>4. CASE next = {}
    BY <2>2, <2>3, <2>4
  <2>5. CASE next # {}
    <3>1. r.ed.text \in Seq(T)
      BY <2>3 DEF Editing
    <3>2. Hits(r.ed.text, pattern) \in SUBSET Nat /\ Len(pattern) \in Nat
      BY <3>1, HitsAre
    <3>3. next \in SUBSET Nat
      BY <3>2
    <3> HIDE DEF next
    <3>4. Min(next) \in Nat
      BY <2>5, <3>3, MinIsLeast
    <3>5. Editing(T, m)
      BY <2>3, <3>2, <3>4, MatchMoves, EditingMoved
    <3> HIDE DEF m
    <3>6. Editing(T, d)
      BY <3>5, EditingReplace
    <3> HIDE DEF d
    <3>7. OffsetOf(d.text, d.cursor) \in 0 .. Len(d.text) /\ Len(d.text) \in Nat
      BY <3>6, OffsetType, ElementsOf DEF Editing, Place
    <3>8. OffsetOf(d.text, d.cursor) \in Nat
      BY <3>7
    <3> QED
      BY <2>2, <2>5, <3>6, <3>8
  <2> QED
    BY <2>4, <2>5
<1> HIDE DEF S
<1>5. S = Nat
  <2>1. S \in SUBSET Nat
    BY DEF S
  <2> QED
    BY <1>3, <1>4, <2>1, SetInduction
<1>6. Editing(T, f[n].ed)
  BY <1>1, <1>5 DEF S
<1> QED
  BY <1>6 DEF ReplaceEach, f


-----------------------------------------------------------------------------
(* The file and the diagnostics.                                           *)

(* The inductive invariant: types, and the two properties.                 *)
Clean ==
  /\ Editing(Characters, ed) /\ torn \in BOOLEAN
  /\ CleanMeansSaved
  /\ DiagnosticsCurrent

LEMMA CharactersAre ==
  /\ Newline \in Characters /\ Space \in Characters
  /\ {Newline, Space} \subseteq Characters
  /\ \A c \in Typed : <<c>> \in Seq(Characters) /\ <<c>> # <<>>
  /\ \A pattern \in Patterns : Len(pattern) \in Nat
  /\ \A new \in Replacements : new \in Seq(Characters)
  /\ \A clip \in Clips : Unix(clip) \in Seq(Characters)
<1>1. {Newline, Space} \subseteq Characters \ {Return}
  BY EditorAssumption
<1>2. \A c \in Typed : <<c>> \in Seq(Characters) /\ <<c>> # <<>>
  BY EditorAssumption
<1>3. ASSUME NEW pattern \in Patterns
      PROVE  Len(pattern) \in Nat
  <2>1. pattern \in Seq(Characters)
    BY EditorAssumption
  <2> QED
    BY <2>1, ElementsOf
<1>4. ASSUME NEW new \in Replacements
      PROVE  new \in Seq(Characters)
  <2>1. new \in Seq(Characters \ {Newline, Return})
    BY EditorAssumption
  <2> QED
    BY <2>1
<1>5. ASSUME NEW clip \in Clips
      PROVE  Unix(clip) \in Seq(Characters)
  <2>1. clip \in Seq(Characters)
    BY EditorAssumption
  <2>2. \A i \in 1 .. Len(clip) : clip[i] \in Characters
    BY <2>1, ElementsOf
  <2> QED
    BY <2>1, <2>2, UnixType
<1> QED
  BY <1>1, <1>2, <1>3, <1>4, <1>5

LEMMA FreshType ==
  ASSUME NEW T, NEW file \in Seq(T)
  PROVE  Editing(T, Fresh(file))
<1> DEFINE o == <<>>
           p == <<0, 0>>
<1>1. o \in Seq(Entry(T)) /\ p \in Place
  BY EmptySeq DEF Place
<1>2. Fresh(file) = [text |-> file, cursor |-> p, anchor |-> p, undo |-> o,
                     redo |-> o, coalesce |-> "none", dirty |-> FALSE,
                     stale |-> TRUE]
  BY DEF Fresh
<1> HIDE DEF o, p
<1> QED
  BY <1>1, <1>2 DEF Editing, Marks, Fields

LEMMA CleanInit ==
  ASSUME NEW file \in Files, ed = Fresh(file), saved = file, torn = FALSE
  PROVE  Clean
<1>1. file \in Seq(Characters)
  <2>1. file \in Seq(Characters \ {Return})
    BY EditorAssumption
  <2> QED
    BY <2>1
<1>2. ed.text = file /\ ed.stale
  BY DEF Fresh
<1> QED
  BY <1>1, <1>2, FreshType DEF Clean, CleanMeansSaved, DiagnosticsCurrent

(* A message that marks what it changes.                                   *)
LEMMA CleanBecomes ==
  ASSUME Clean, NEW e, NEW noted,
         Editing(Characters, e), Marked(ed, e), Strays(e, noted)
  PROVE  Clean'
<1>1. /\ ed' = e
      /\ saved' = IF e.dirty THEN <<>> ELSE saved
      /\ checked' = IF e.stale THEN <<>> ELSE checked
      /\ torn' = (torn /\ ~e.dirty)
  BY DEF Strays
<1>2. e.dirty \in BOOLEAN /\ e.stale \in BOOLEAN
  BY DEF Marked, Greyed, Marks
<1>3. torn \in BOOLEAN /\ (ed.dirty \/ torn \/ ed.text = saved)
  BY DEF Clean, CleanMeansSaved
<1>4. ed.stale \/ checked = ed.text
  BY DEF Clean, DiagnosticsCurrent
<1>5. e.dirty \/ (e.text = ed.text /\ e.dirty = ed.dirty)
  BY DEF Marked
<1>6. e.stale \/ (e.text = ed.text /\ e.stale = ed.stale)
  BY DEF Marked, Greyed
<1>7. torn' \in BOOLEAN /\ (e.dirty \/ torn' \/ e.text = saved')
  BY <1>1, <1>2, <1>3, <1>5
<1>8. e.stale \/ checked' = e.text
  BY <1>1, <1>4, <1>6
<1>9. CleanMeansSaved' /\ DiagnosticsCurrent'
  BY <1>1, <1>7, <1>8 DEF CleanMeansSaved, DiagnosticsCurrent
<1>10. Editing(Characters, ed)'
  BY <1>1
<1> QED
  BY <1>7, <1>9, <1>10 DEF Clean

LEMMA MarkedMoved ==
  ASSUME NEW e, NEW d, Marks(e), NEW pos, NEW extend
  PROVE  /\ Marked(e, SetCursor(e, pos, extend))
         /\ d = [e EXCEPT !.anchor = <<0, 0>>, !.coalesce = "none",
                          !.cursor = PosOf(e.text, Len(e.text))]
              => Marked(e, d)
<1> DEFINE p == PosOf(e.text, Len(e.text))
           o == <<0, 0>>
<1> HIDE DEF p, o
<1>1. Marked(e, [e EXCEPT !.anchor = o, !.coalesce = "none", !.cursor = p])
  BY MarkedMove
<1> QED
  BY <1>1, MarkedSetCursor DEF p, o

(* What Enter in a prompt does before its character arrives.               *)
Prompted(e) == {e} \cup Found(e) \cup Replacing(e) \cup Lines(e)

LEMMA CleanPrompted ==
  ASSUME Editing(Characters, ed), NEW e \in Prompted(ed)
  PROVE  Editing(Characters, e) /\ Marked(ed, e)
<1>0. Marks(ed) /\ Newline \in Characters
  BY CharactersAre DEF Editing
<1>1. CASE e = ed
  BY <1>0, <1>1, MarkedOnce
<1>2. CASE e \in Found(ed)
  <2>1. PICK p \in Patterns : e \in {FindNext(ed, p), FindPrev(ed, p)}
    BY <1>2 DEF Found
  <2>2. Len(p) \in Nat
    BY CharactersAre
  <2> QED
    BY <1>0, <2>1, <2>2, FindMoves, EditingMoved, MarkedFind
<1>3. CASE e \in Replacing(ed)
  <2>1. PICK p \in Patterns, new \in Replacements : e = ReplaceCurrent(ed, p, new)
    BY <1>3 DEF Replacing
  <2>2. Len(p) \in Nat /\ new \in Seq(Characters)
    BY CharactersAre
  <2> QED
    BY <1>0, <2>1, <2>2, EditingReplace, MarkedReplace
<1>4. CASE e \in Lines(ed)
  <2>1. Editing(Characters, e)
    BY <1>4, LinesMove, EditingMoved
  <2>2. PICK row \in 0 .. LineCount(ed.text) - 1 : e = SetCursor(ed, <<row, 0>>, FALSE)
    BY <1>4 DEF Lines
  <2> QED
    BY <1>0, <2>1, <2>2, MarkedSetCursor
<1> QED
  BY <1>1, <1>2, <1>3, <1>4 DEF Prompted

LEMMA CleanStep ==
  ASSUME Clean, [Next]_vars
  PROVE  Clean'
<1> DEFINE C == Characters
<1>0. Editing(C, ed) /\ Marks(ed) /\ ed.text \in Seq(C) /\ torn \in BOOLEAN
  BY DEF Clean, Editing
<1>1. /\ Newline \in C /\ {Newline, Space} \subseteq C
  BY CharactersAre
<1>2. CASE TypeChar
  <2>1. PICK c \in Typed : Becomes(DoInsert(ed, <<c>>, "insert"))
    BY <1>2 DEF TypeChar
  <2> DEFINE t == <<c>>
             e == DoInsert(ed, t, "insert")
  <2>2. t \in Seq(C)
    BY CharactersAre
  <2> HIDE DEF t
  <2>3. Editing(C, e) /\ Marked(ed, e)
    BY <1>0, <1>1, <2>2, EditingInsert, MarkedInsert
  <2>4. Becomes(e)
    BY <2>1 DEF t
  <2> HIDE DEF e
  <2> QED
    BY <2>3, <2>4, CleanBecomes DEF Becomes
<1>3. CASE TabKey
  <2>1. Editing(C, SoftTab(ed)) /\ Marked(ed, SoftTab(ed))
    BY <1>0, <1>1, EditingKeys, MarkedInsert DEF SoftTab
  <2> QED
    BY <1>3, <2>1, CleanBecomes DEF TabKey, Becomes
<1>4. CASE BackspaceKey
  <2>1. Editing(C, Backspace(ed)) /\ Marked(ed, Backspace(ed))
    BY <1>0, <1>1, EditingKeys, MarkedKeys
  <2> QED
    BY <1>4, <2>1, CleanBecomes DEF BackspaceKey, Becomes
<1>5. CASE DeleteKey
  <2>1. Editing(C, DeleteForward(ed)) /\ Marked(ed, DeleteForward(ed))
    BY <1>0, <1>1, EditingKeys, MarkedKeys
  <2> QED
    BY <1>5, <2>1, CleanBecomes DEF DeleteKey, Becomes
<1>6. CASE Paste
  <2>1. PICK text \in ({Unix(clip) : clip \in Clips} \cup {Selected(ed)}) \ {<<>>} :
               Strays(DoInsert(ed, text, "none"),
                      Noted("return", Return \in ToSet(text)))
    BY <1>6 DEF Paste
  <2>2. Selected(ed) \in Seq(C)
    <3>1. ed.cursor \in Place /\ ed.anchor \in Place
      BY <1>0 DEF Editing
    <3>2. SelStart(ed) \in Place /\ SelEnd(ed) \in Place
      BY <3>1, SelectionType
    <3> QED
      BY <1>0, <3>2, BetweenType DEF Selected
  <2>3. text \in Seq(C)
    BY <2>2, CharactersAre
  <2>4. /\ Editing(C, DoInsert(ed, text, "none"))
        /\ Marked(ed, DoInsert(ed, text, "none"))
    BY <1>0, <1>1, <2>3, EditingInsert, MarkedInsert
  <2> QED
    BY <2>1, <2>4, CleanBecomes
<1>7. CASE CutKey
  <2>1. Editing(C, CutSelection(ed)) /\ Marked(ed, CutSelection(ed))
    BY <1>0, EditingDelete, MarkedDelete
  <2> QED
    BY <1>7, <2>1, CleanBecomes DEF CutKey, Becomes
<1>8. CASE UndoKey
  <2>1. Editing(C, Undone(ed)) /\ Marked(ed, Undone(ed))
    BY <1>0, <1>1, <1>8, EditingHistory, MarkedHistory DEF UndoKey
  <2> QED
    BY <1>8, <2>1, CleanBecomes DEF UndoKey, Becomes
<1>9. CASE RedoKey
  <2>1. Editing(C, Redone(ed)) /\ Marked(ed, Redone(ed))
    BY <1>0, <1>1, <1>9, EditingHistory, MarkedHistory DEF RedoKey
  <2> QED
    BY <1>9, <2>1, CleanBecomes DEF RedoKey
<1>10. ASSUME NEW pos \in {ed.cursor, ed.anchor} \cup Positions(ed.text), NEW extend,
              Becomes(SetCursor(ed, pos, extend))
       PROVE  Clean'
  <2>1. Editing(C, SetCursor(ed, pos, extend)) /\ Marked(ed, SetCursor(ed, pos, extend))
    BY <1>0, SetCursorMoves, EditingMoved, MarkedSetCursor
  <2> QED
    BY <1>10, <2>1, CleanBecomes DEF Becomes
<1>11. CASE ArrowKeys
  <2>1. /\ Hops(ed) \subseteq Positions(ed.text)
        /\ SelStart(ed) \in {ed.cursor, ed.anchor}
        /\ SelEnd(ed) \in {ed.cursor, ed.anchor}
    BY <1>0, HopsAre, SelectionType
  <2>2. CASE \E pos \in Hops(ed) : Becomes(SetCursor(ed, pos, TRUE))
    BY <1>10, <2>1, <2>2
  <2>3. CASE \E pos \in IF Selecting(ed) THEN {SelStart(ed), SelEnd(ed)} ELSE Hops(ed) :
               Becomes(SetCursor(ed, pos, FALSE))
    BY <1>10, <2>1, <2>3
  <2> QED
    BY <1>11, <2>2, <2>3 DEF ArrowKeys
<1>12. CASE PointAt
  BY <1>10, <1>12 DEF PointAt
<1>13. CASE SelectAll
  <2> DEFINE e == [ed EXCEPT !.anchor = <<0, 0>>, !.coalesce = "none",
                             !.cursor = PosOf(ed.text, Len(ed.text))]
  <2>1. Becomes(e)
    BY <1>13 DEF SelectAll
  <2>2. Editing(C, e) /\ Marked(ed, e)
    BY <1>0, SelectAllMoves, EditingMoved, MarkedMoved
  <2> HIDE DEF e
  <2> QED
    BY <2>1, <2>2, CleanBecomes DEF Becomes
<1>14. CASE FindKey
  <2>1. PICK e \in Found(ed) : Becomes(e)
    BY <1>14 DEF FindKey
  <2>2. Editing(C, e) /\ Marked(ed, e)
    BY <1>0, CleanPrompted DEF Prompted
  <2> QED
    BY <2>1, <2>2, CleanBecomes DEF Becomes
<1>15. CASE EnterKey
  <2>1. PICK e \in Prompted(ed) : Becomes(InsertNewline(e))
    BY <1>15 DEF EnterKey, Prompted
  <2>2. Editing(C, e) /\ Marked(ed, e) /\ Marks(e)
    BY <1>0, CleanPrompted DEF Editing
  <2>3. Editing(C, InsertNewline(e)) /\ Marked(e, InsertNewline(e))
    BY <1>1, <2>2, EditingKeys, MarkedInsert DEF InsertNewline
  <2>4. Marked(ed, InsertNewline(e))
    BY <2>2, <2>3, MarkedTwice
  <2> QED
    BY <2>1, <2>3, <2>4, CleanBecomes DEF Becomes
<1>16. CASE ReplaceAllKey
  <2>1. PICK pattern \in Patterns, new \in Replacements :
               Strays(ReplaceEach(ed, pattern, new),
                      Noted("replace", /\ new = <<>> /\ ed.redo # <<>>
                                       /\ Hits(ed.text, pattern) # {}))
    BY <1>16 DEF ReplaceAllKey
  <2>2. Len(pattern) \in Nat /\ new \in Seq(C) /\ Len(ed.text) \in Nat
    BY <1>0, CharactersAre, ElementsOf
  <2>3. Editing(C, ReplaceEach(ed, pattern, new)) /\ Marked(ed, ReplaceEach(ed, pattern, new))
    BY <1>0, <1>1, <2>2, EditingReplaceEach, MarkedReplaceEach
  <2> QED
    BY <2>1, <2>3, CleanBecomes
<1>17. ASSUME ed' = [ed EXCEPT !.stale = FALSE], checked' = ed.text,
              saved' = saved, torn' = torn
       PROVE  Clean'
  <2>1. Editing(C, ed)'
    BY <1>0, <1>17 DEF Editing, Marks, Fields
  <2>2. ed'.text = ed.text /\ ed'.dirty = ed.dirty
    BY <1>0, <1>17 DEF Marks, Fields
  <2>3. CleanMeansSaved' /\ DiagnosticsCurrent'
    BY <1>17, <2>2 DEF Clean, CleanMeansSaved, DiagnosticsCurrent
  <2> QED
    BY <1>0, <1>17, <2>1, <2>3 DEF Clean
<1>18. CASE Save
  <2>1. CASE /\ ed' = [ed EXCEPT !.dirty = FALSE, !.stale = FALSE]
             /\ checked' = ed.text /\ saved' = ed.text /\ torn' = FALSE
    <3>1. Editing(C, ed)'
      BY <1>0, <2>1 DEF Editing, Marks, Fields
    <3>2. ed'.text = ed.text
      BY <1>0, <2>1 DEF Marks, Fields
    <3>3. CleanMeansSaved' /\ DiagnosticsCurrent'
      BY <2>1, <3>2 DEF CleanMeansSaved, DiagnosticsCurrent
    <3> QED
      BY <2>1, <3>1, <3>3 DEF Clean
  <2>2. CASE ed' = ed /\ checked' = checked /\ torn' = ~ed.dirty
    <3>1. Editing(C, ed)' /\ DiagnosticsCurrent'
      BY <1>0, <2>2 DEF Clean, DiagnosticsCurrent
    <3>2. torn' \in BOOLEAN /\ (ed'.dirty \/ torn')
      BY <1>0, <2>2 DEF Marks
    <3> QED
      BY <3>1, <3>2 DEF Clean, CleanMeansSaved
  <2> QED
    BY <1>18, <2>1, <2>2 DEF Save
<1>19. CASE Load
  <2>1. PICK file \in Files : ed' = Fresh(file) /\ saved' = file /\ torn' = FALSE
    BY <1>19 DEF Load
  <2>2. file \in Seq(C)
    <3>1. file \in Seq(C \ {Return})
      BY EditorAssumption
    <3> QED
      BY <3>1
  <2>3. Editing(C, ed)'
    BY <2>1, <2>2, FreshType
  <2>4. ed'.text = file /\ ed'.stale
    BY <2>1 DEF Fresh
  <2> QED
    BY <2>1, <2>3, <2>4 DEF Clean, CleanMeansSaved, DiagnosticsCurrent
<1>20. CASE UNCHANGED vars
  BY <1>20 DEF vars, Clean, CleanMeansSaved, DiagnosticsCurrent
<1> QED
  BY <1>2, <1>3, <1>4, <1>5, <1>6, <1>7, <1>8, <1>9, <1>11, <1>12, <1>13, <1>14,
     <1>15, <1>16, <1>17, <1>18, <1>19, <1>20 DEF Next, CheckKey

(* Types, marks and greying hold together whatever the keys: the inductive *)
(* invariant behind the two theorems about files and diagnostics.          *)
THEOREM CleanAlways == Spec => []Clean
<1>1. Init => Clean
  BY CleanInit DEF Init
<1>2. Clean /\ [Next]_vars => Clean'
  BY CleanStep
<1> QED
  BY <1>1, <1>2, PTL DEF Spec


-----------------------------------------------------------------------------
(* Splicing at the positions of a text without returns.                    *)

(* s is a and b, one behind the other.                                     *)
Joins(s, a, b) == s = a \o b

LEMMA Joined ==
  ASSUME NEW T, NEW a \in Seq(T), NEW b \in Seq(T), NEW s, Joins(s, a, b)
  PROVE  Slice(s, 0, Len(a)) = a /\ Slice(s, Len(a), Len(s)) = b
<1>1. /\ Slice(a \o b, 0, Len(a)) = a
      /\ Slice(a \o b, Len(a), Len(a \o b)) = b
  BY SlicesOf
<1>2. s = a \o b
  BY DEF Joins
<1> QED
  BY <1>1, <1>2

LEMMA Uncut ==
  ASSUME NEW T, NEW a \in Seq(T), NEW b \in Seq(T), NEW c \in Seq(T),
         NEW d \in Seq(T), NEW s, Joins(s, a, b), Joins(s, c, d), Len(a) = Len(c)
  PROVE  a = c /\ b = d
<1>1. Slice(s, 0, Len(a)) = a /\ Slice(s, Len(a), Len(s)) = b
  BY Joined
<1>2. Slice(s, 0, Len(c)) = c /\ Slice(s, Len(c), Len(s)) = d
  BY Joined
<1> QED
  BY <1>1, <1>2

LEMMA ParsedAt ==
  ASSUME NEW T, NEW s \in Seq(T), NEW o \in Nat, o <= Len(s)
  PROVE  \E a, b \in Seq(T) : s = a \o b /\ Len(a) = o
<1>1. PICK p \in Seq(T), m \in Seq(T), q \in Seq(T) : Parted(s, o, o, p, m, q)
  BY PartedAt
<1>2. Len(p) = o /\ Len(m) = o - o /\ s = (p \o m) \o q
  BY <1>1 DEF Parted, Falls
<1> DEFINE a == p \o m
<1>3. a \in Seq(T) /\ Len(a) = Len(p) + Len(m)
  BY ConcatProperties
<1>4. Len(a) = o
  BY <1>2, <1>3
<1>5. s = a \o q
  BY <1>2
<1> HIDE DEF a
<1> QED
  BY <1>3, <1>4, <1>5

(* Positions before a place do not depend on what is behind it.            *)
LEMMA PosBehind ==
  ASSUME NEW T, NEW a \in Seq(T), NEW b \in Seq(T), NEW c \in Seq(T)
  PROVE  /\ PosOf(a \o b, Len(a)) = PosOf(a, Len(a))
         /\ PosOf((a \o b) \o c, Len(a)) = PosOf(a \o c, Len(a))
         /\ OffsetOf(a \o b, PosOf(a \o b, Len(a))) = Len(a)
         /\ PosOf(a \o b, Len(a)) \in Positions(a \o b)
<1>1. Len(a) \in Nat /\ Len(a) \in 0 .. Len(a)
  BY ElementsOf
<1>2. PosOf(a \o b, Len(a)) = PosOf(a, Len(a)) /\ PosOf(a \o c, Len(a)) = PosOf(a, Len(a))
  BY <1>1, PosInPrefix
<1>3. PosOf((a \o b) \o c, Len(a)) = PosOf(a, Len(a))
  <2> DEFINE d == b \o c
  <2>1. d \in Seq(T)
    BY ConcatProperties
  <2>2. (a \o b) \o c = a \o d
    BY ConcatAssociative
  <2> HIDE DEF d
  <2>3. PosOf(a \o d, Len(a)) = PosOf(a, Len(a))
    BY <1>1, <2>1, PosInPrefix
  <2> QED
    BY <2>2, <2>3
<1> DEFINE s == a \o b
           o == Len(a)
<1>4. s \in Seq(T) /\ o \in 0 .. Len(s)
  BY SlicesOf
<1> HIDE DEF s, o
<1>5. OffsetOf(s, PosOf(s, o)) = o
  BY <1>4, OffsetOfPos
<1>6. o \in Nat
  BY <1>1 DEF o
<1>7. PosOf(s, o) \in Positions(s)
  BY <1>4, <1>6, PosType
<1> QED
  BY <1>2, <1>3, <1>5, <1>7 DEF s, o

(* With new put in at pos, between pre and post, s is t and pos is end.    *)
Gains(s, pos, pre, new, post, t, end) ==
  /\ t = PutIn(s, pos, new) /\ Falls(t, pre, new, post)
  /\ end = PosOf(t, Len(pre) + Len(new)) /\ end \in Positions(t)

LEMMA PutInAt ==
  ASSUME NEW T, Newline \in T, Return \notin T, NEW pre \in Seq(T),
         NEW post \in Seq(T), NEW new \in Seq(T), NEW s, Joins(s, pre, post),
         NEW pos, pos = PosOf(s, Len(pre))
  PROVE  Gains(s, pos, pre, new, post, PutIn(s, pos, new), EndOf(pos, Unix(new)))
<1>0. s = pre \o post
  BY DEF Joins
<1>1. Unix(new) = new /\ Decoded(new) = new
  BY UnixSame, DecodedIs
<1>2. OffsetOf(pre \o post, pos) = Len(pre)
  BY <1>0, PosBehind
<1>3. PutIn(pre \o post, pos, new) = (pre \o new) \o post
  <2>1. CASE new = <<>>
    <3>1. pre \o new = pre
      BY <2>1, ConcatEmptySeq
    <3> QED
      BY <2>1, <3>1 DEF PutIn
  <2>2. CASE new # <<>>
    <3>1. Spliced(pre \o post, Len(pre), new) = (pre \o new) \o post
      BY SplicedAt
    <3>2. PutIn(pre \o post, pos, new)
            = Spliced(pre \o post, OffsetOf(pre \o post, pos), Decoded(Unix(new)))
      BY <2>2 DEF PutIn
    <3> QED
      BY <1>1, <1>2, <3>1, <3>2
  <2> QED
    BY <2>1, <2>2
<1> DEFINE a == pre \o new
           o == Len(pre) + Len(new)
<1>4. a \in Seq(T) /\ Len(a) = o
  BY ConcatProperties
<1>5. EndOf(pos, new) = PosOf(a, o)
  <2>1. pos = PosOf(pre, Len(pre))
    BY <1>0, PosBehind
  <2> QED
    BY <2>1, EndOfIs
<1> HIDE DEF a, o
<1>6. PosOf(a \o post, Len(a)) = PosOf(a, Len(a))
  BY <1>4, PosBehind
<1>7. PosOf(a \o post, Len(a)) \in Positions(a \o post)
  BY <1>4, PosBehind
<1>8. PutIn(s, pos, new) = a \o post
  BY <1>0, <1>3 DEF a
<1>9. Falls(PutIn(s, pos, new), pre, new, post)
  BY <1>8 DEF Falls, a
<1>10. EndOf(pos, Unix(new)) = PosOf(PutIn(s, pos, new), o)
  BY <1>1, <1>4, <1>5, <1>6, <1>8
<1>11. EndOf(pos, Unix(new)) \in Positions(PutIn(s, pos, new))
  BY <1>1, <1>4, <1>5, <1>6, <1>7, <1>8
<1> QED
  BY <1>9, <1>10, <1>11 DEF Gains, o

(* Without mid, which is between from and to, s is pre and post.           *)
Loses(s, from, to, pre, mid, post) ==
  /\ TakenOut(s, from, to) = pre \o post
  /\ Slice(s, OffsetOf(s, from), OffsetOf(s, to)) = mid
  /\ from = PosOf(pre \o post, Len(pre))

LEMMA TakenOutAt ==
  ASSUME NEW T, NEW pre \in Seq(T), NEW mid \in Seq(T), NEW post \in Seq(T),
         NEW s, Falls(s, pre, mid, post),
         NEW from, from = PosOf(s, Len(pre)),
         NEW to, to = PosOf(s, Len(pre) + Len(mid))
  PROVE  Loses(s, from, to, pre, mid, post)
<1> DEFINE a  == pre \o mid
           b  == mid \o post
           lo == Len(pre)
           hi == Len(pre) + Len(mid)
<1>1. /\ a \in Seq(T) /\ Len(a) = hi /\ b \in Seq(T)
      /\ lo \in Nat /\ Len(mid) \in Nat /\ hi - lo = Len(mid)
  BY SlicesOf
<1>2. s = a \o post /\ s = pre \o b
  BY ConcatAssociative DEF Falls
<1> HIDE DEF a, b
<1>3. OffsetOf(s, to) = hi
  <2>1. OffsetOf(a \o post, PosOf(a \o post, Len(a))) = Len(a)
    BY <1>1, PosBehind
  <2>2. to = PosOf(s, hi)
    OBVIOUS
  <2> HIDE DEF hi
  <2> QED
    BY <1>1, <1>2, <2>1, <2>2
<1>4. OffsetOf(s, from) = lo
  <2>1. OffsetOf(pre \o b, PosOf(pre \o b, Len(pre))) = Len(pre)
    BY <1>1, PosBehind
  <2> QED
    BY <1>2, <2>1
<1>9. s = (pre \o mid) \o post
  BY DEF Falls
<1>5. from = PosOf(pre \o post, Len(pre))
  <2>1. PosOf((pre \o mid) \o post, Len(pre)) = PosOf(pre \o post, Len(pre))
    BY PosBehind
  <2> QED
    BY <1>9, <2>1
<1>6. Slice(s, lo, hi) = mid
  <2>1. s \in Seq(T) /\ Len(s) = hi + Len(post) /\ Len(post) \in Nat
    <3>1. /\ a \o post \in Seq(T) /\ Len(a \o post) = Len(a) + Len(post)
          /\ Len(post) \in Nat
      BY <1>1, SlicesOf
    <3> HIDE DEF hi
    <3> QED
      BY <1>1, <1>2, <3>1
  <2>2. lo \in Nat /\ hi \in Nat /\ lo <= hi /\ hi <= Len(s) /\ lo + (hi - lo) = hi
    BY <1>1, <2>1
  <2> HIDE DEF lo, hi
  <2>3. PICK P \in Seq(T), M \in Seq(T), Q \in Seq(T) : Parted(s, lo, hi, P, M, Q)
    BY <2>1, <2>2, PartedAt
  <2>4. /\ M = Slice(s, lo, hi)
        /\ Len(P) = lo /\ Len(M) = hi - lo /\ s = (P \o M) \o Q
    BY <2>3 DEF Parted, Falls
  <2> DEFINE A == P \o M
  <2>5. A \in Seq(T) /\ Len(A) = Len(P) + Len(M)
    BY ConcatProperties
  <2>6. Len(A) = hi
    BY <2>2, <2>4, <2>5
  <2>7. Joins(s, A, Q) /\ Joins(s, a, post)
    BY <1>2, <2>4 DEF Joins
  <2>8. Joins(A, P, M)
    BY DEF Joins
  <2>9. Joins(a, pre, mid)
    BY DEF Joins, a
  <2> HIDE DEF A
  <2>10. A = a
    BY <1>1, <2>5, <2>6, <2>7, Uncut
  <2>11. Len(P) = Len(pre)
    BY <2>4 DEF lo
  <2>12. M = mid
    BY <2>8, <2>9, <2>10, <2>11, Uncut
  <2> QED
    BY <2>4, <2>12
<1>7. TakenOut(s, from, to) = IF from = to \/ hi <= lo THEN s
                              ELSE Without(s, lo, hi - lo)
  BY <1>3, <1>4 DEF TakenOut
<1>8. TakenOut(s, from, to) = pre \o post
  <2>1. CASE mid = <<>>
    <3>1. hi <= lo
      BY <1>1, <2>1, EmptySeq
    <3>2. s = pre \o post
      BY <1>9, <2>1, ConcatEmptySeq
    <3> QED
      BY <1>7, <3>1, <3>2
  <2>2. CASE mid # <<>>
    <3>1. Len(mid) # 0
      BY <2>2, EmptySeq
    <3>2. ~(hi <= lo) /\ hi # lo
      BY <1>1, <3>1
    <3>3. from # to
      BY <1>3, <1>4, <3>2
    <3>4. Without(s, lo, Len(mid)) = pre \o post
      <4>1. Without((pre \o mid) \o post, Len(pre), Len(mid)) = pre \o post
        BY WithoutAt
      <4> QED
        BY <1>9, <4>1
    <3> QED
      BY <1>1, <1>7, <3>2, <3>3, <3>4
  <2> QED
    BY <2>1, <2>2
<1> QED
  BY <1>3, <1>4, <1>5, <1>6, <1>8 DEF Loses

(* Whatever two positions, the text falls into parts.                      *)
LEMMA TakenOutParts ==
  ASSUME NEW T, NEW s \in Seq(T), NEW from \in Positions(s), NEW to \in Positions(s)
  PROVE  \E pre, mid, post \in Seq(T) :
           Falls(s, pre, mid, post) /\ Loses(s, from, to, pre, mid, post)
<1> DEFINE lo == OffsetOf(s, from)
           hi == OffsetOf(s, to)
<1>1. /\ from = PosOf(s, lo) /\ to = PosOf(s, hi)
      /\ lo \in 0 .. Len(s) /\ hi \in 0 .. Len(s) /\ Len(s) \in Nat
  BY PosOfOffset, ElementsOf
<1>2. TakenOut(s, from, to) = IF from = to \/ hi <= lo THEN s
                              ELSE Without(s, lo, hi - lo)
  BY DEF TakenOut
<1> HIDE DEF lo, hi
<1>3. CASE lo <= hi
  <2>1. lo \in Nat /\ hi \in Nat /\ hi <= Len(s) /\ lo + (hi - lo) = hi
    BY <1>1
  <2>2. PICK pre \in Seq(T), mid \in Seq(T), post \in Seq(T) :
               Parted(s, lo, hi, pre, mid, post)
    BY <1>3, <2>1, PartedAt
  <2>3. Len(pre) = lo /\ Len(mid) = hi - lo /\ Falls(s, pre, mid, post)
    BY <2>2 DEF Parted
  <2>4. from = PosOf(s, Len(pre)) /\ to = PosOf(s, Len(pre) + Len(mid))
    BY <1>1, <2>1, <2>3
  <2>5. Loses(s, from, to, pre, mid, post)
    BY <2>3, <2>4, TakenOutAt
  <2> QED
    BY <2>3, <2>5
<1>4. CASE ~(lo <= hi)
  <2>1. PICK pre, post \in Seq(T) : s = pre \o post /\ Len(pre) = lo
    <3>1. lo \in Nat /\ lo <= Len(s)
      BY <1>1
    <3> QED
      BY <3>1, ParsedAt
  <2> DEFINE mid == <<>>
  <2>2. mid \in Seq(T) /\ pre \o mid = pre
    BY EmptySeq, ConcatEmptySeq
  <2>3. Slice(s, lo, hi) = <<>>
    <3>1. lo \in Nat /\ hi \in Nat /\ hi <= lo
      BY <1>1, <1>4
    <3> QED
      BY <3>1, SliceIs
  <2>4. TakenOut(s, from, to) = pre \o post
    <3>1. hi <= lo
      BY <1>1, <1>4
    <3> QED
      BY <1>2, <2>1, <3>1
  <2>5. from = PosOf(pre \o post, Len(pre))
    BY <1>1, <2>1
  <2>6. Falls(s, pre, mid, post)
    BY <2>1, <2>2 DEF Falls
  <2> HIDE DEF mid
  <2> QED
    BY <2>2, <2>3, <2>4, <2>5, <2>6 DEF mid, lo, hi, Loses
<1> QED
  BY <1>3, <1>4


-----------------------------------------------------------------------------
(* Entries that undo and redo what they stand for.                         *)

(* Without returns, which put cursors where no text is.                    *)
Plain == Characters \ {Return}

(* What an entry says of the texts on its two sides.                       *)
Inserts(op, pre, post) ==
  /\ Joins(op.was, pre, post) /\ Falls(op.now, pre, op.text, post)
  /\ op.start = PosOf(op.was, Len(pre))
  /\ op.end = PosOf(op.now, Len(pre) + Len(op.text))

Deletes(op, pre, post) ==
  /\ Joins(op.now, pre, post) /\ Falls(op.was, pre, op.text, post)
  /\ op.start = PosOf(op.now, Len(pre))

Sound(op) ==
  /\ op.before \in Positions(op.was) /\ op.after \in Positions(op.now)
  /\ op.kind = "inserted" => \E pre, post \in Seq(Plain) : Inserts(op, pre, post)
  /\ op.kind = "deleted" => \E pre, post \in Seq(Plain) : Deletes(op, pre, post)

LEMMA PlainIs ==
  /\ Newline \in Plain /\ Return \notin Plain /\ Space \in Plain
  /\ {Newline, Space} \subseteq Plain
  BY EditorAssumption DEF Plain

LEMMA SoundDeletion ==
  ASSUME NEW s \in Seq(Plain), NEW from \in Positions(s), NEW to \in Positions(s),
         NEW at \in Positions(s), NEW text, text = TakenOut(s, from, to),
         NEW gone, gone = Slice(s, OffsetOf(s, from), OffsetOf(s, to)),
         NEW op, op = Op("deleted", from, from, gone, at, from, s, text)
  PROVE  Sound(op) /\ from \in Positions(text) /\ op.was = s /\ op.now = text
<1>1. PICK pre \in Seq(Plain), mid \in Seq(Plain), post \in Seq(Plain) :
             Falls(s, pre, mid, post) /\ Loses(s, from, to, pre, mid, post)
  BY TakenOutParts
<1>2. /\ text = pre \o post /\ gone = mid
      /\ from = PosOf(pre \o post, Len(pre))
  BY <1>1 DEF Loses
<1>3. from \in Positions(text)
  BY <1>2, PosBehind
<1>4. /\ op.kind = "deleted" /\ op.start = from /\ op.text = gone
      /\ op.before = at /\ op.after = from /\ op.was = s /\ op.now = text
  BY DEF Op
<1>5. Joins(text, pre, post)
  BY <1>2 DEF Joins
<1>6. from = PosOf(text, Len(pre))
  BY <1>2
<1>7. Falls(s, pre, gone, post)
  BY <1>1, <1>2
<1>8. Deletes(op, pre, post)
  BY <1>4, <1>5, <1>6, <1>7 DEF Deletes
<1> QED
  BY <1>3, <1>4, <1>8 DEF Sound

LEMMA SoundInsertion ==
  ASSUME NEW s \in Seq(Plain), NEW at \in Positions(s), NEW new \in Seq(Plain),
         NEW text, text = PutIn(s, at, new), NEW end, end = EndOf(at, Unix(new)),
         NEW op, op = Op("inserted", at, end, new, at, end, s, text)
  PROVE  Sound(op) /\ end \in Positions(text) /\ op.was = s /\ op.now = text
<1> DEFINE o == OffsetOf(s, at)
<1>1. at = PosOf(s, o) /\ o \in Nat /\ o <= Len(s)
  <2>1. PosOf(s, o) = at /\ o \in 0 .. Len(s) /\ Len(s) \in Nat
    BY PosOfOffset, ElementsOf
  <2> QED
    BY <2>1
<1> HIDE DEF o
<1>2. PICK pre, post \in Seq(Plain) : s = pre \o post /\ Len(pre) = o
  BY <1>1, ParsedAt
<1>3. Joins(s, pre, post) /\ at = PosOf(s, Len(pre))
  BY <1>1, <1>2 DEF Joins
<1>4. Gains(s, at, pre, new, post, PutIn(s, at, new), EndOf(at, Unix(new)))
  BY <1>3, PlainIs, PutInAt
<1>5. /\ Falls(text, pre, new, post)
      /\ end = PosOf(text, Len(pre) + Len(new)) /\ end \in Positions(text)
  BY <1>4 DEF Gains
<1>6. /\ op.kind = "inserted" /\ op.start = at /\ op.text = new /\ op.end = end
      /\ op.before = at /\ op.after = end /\ op.was = s /\ op.now = text
  BY DEF Op
<1>7. Inserts(op, pre, post)
  BY <1>3, <1>5, <1>6 DEF Inserts
<1> QED
  BY <1>5, <1>6, <1>7 DEF Sound

(* Typing goes on where the last entry ends.                               *)
LEMMA SoundTyping ==
  ASSUME NEW last, last.text \in Seq(Plain), Sound(last), last.kind = "inserted",
         NEW s \in Seq(Plain), s = last.now, NEW at, at = last.end,
         NEW new \in Seq(Plain),
         NEW text, text = PutIn(s, at, new), NEW end, end = EndOf(at, Unix(new)),
         NEW op, op = Op("inserted", last.start, end, last.text \o new,
                         last.before, end, last.was, text)
  PROVE  Sound(op) /\ end \in Positions(text) /\ op.was = last.was /\ op.now = text
<1>1. PICK pre, post \in Seq(Plain) : Inserts(last, pre, post)
  BY DEF Sound
<1> DEFINE old == last.text
           P   == pre \o old
           n   == Len(pre) + Len(old)
           w   == old \o new
<1>2. old \in Seq(Plain)
  OBVIOUS
<1>3. s = P \o post /\ at = PosOf(s, n)
  BY <1>1 DEF Inserts, Falls
<1>4. op = Op("inserted", last.start, end, w, last.before, end, last.was, text)
  OBVIOUS
<1> HIDE DEF old
<1>5. /\ P \in Seq(Plain) /\ Len(P) = n
      /\ w \in Seq(Plain) /\ Len(w) = Len(old) + Len(new)
  BY <1>2, ConcatProperties
<1>6. P \o new = pre \o w
  BY <1>2, ConcatAssociative
<1>7. n + Len(new) = Len(pre) + Len(w)
  <2>1. Len(pre) \in Nat /\ Len(old) \in Nat /\ Len(new) \in Nat
    BY <1>2, ElementsOf
  <2> QED
    BY <1>5, <2>1
<1> HIDE DEF P, n, w
<1>8. Joins(s, P, post) /\ at = PosOf(s, Len(P))
  BY <1>3, <1>5 DEF Joins
<1>9. Gains(s, at, P, new, post, PutIn(s, at, new), EndOf(at, Unix(new)))
  BY <1>5, <1>8, PlainIs, PutInAt
<1>10. /\ Falls(text, pre, w, post)
       /\ end = PosOf(text, Len(pre) + Len(w)) /\ end \in Positions(text)
  BY <1>5, <1>6, <1>7, <1>9 DEF Gains, Falls
<1>11. /\ op.kind = "inserted" /\ op.start = last.start /\ op.text = w
       /\ op.end = end /\ op.before = last.before /\ op.after = end
       /\ op.was = last.was /\ op.now = text
  BY <1>4 DEF Op
<1>12. Joins(last.was, pre, post) /\ last.start = PosOf(last.was, Len(pre))
  BY <1>1 DEF Inserts
<1>13. Inserts(op, pre, post)
  BY <1>10, <1>11, <1>12 DEF Inserts
<1>14. last.before \in Positions(last.was)
  BY DEF Sound
<1> QED
  BY <1>10, <1>11, <1>13, <1>14 DEF Sound

LEMMA Regrouped ==
  ASSUME NEW T, NEW a \in Seq(T), NEW b \in Seq(T), NEW c \in Seq(T), NEW d,
         NEW s, NEW ab, Falls(s, ab, c, d), ab = a \o b
  PROVE  Falls(s, a, b \o c, d)
<1>1. (a \o b) \o c = a \o (b \o c)
  BY ConcatAssociative
<1> QED
  BY <1>1 DEF Falls

(* Backspace goes on to the left of what it deleted before.                *)
GoesOn(last, s, from, to) ==
  /\ last.text \in Seq(Plain) /\ Sound(last) /\ last.kind = "deleted"
  /\ s = last.now /\ to = last.start
  /\ OffsetOf(s, from) <= OffsetOf(s, to)

LEMMA SoundBackspace ==
  ASSUME NEW last, NEW s \in Seq(Plain), NEW from \in Positions(s), NEW to,
         GoesOn(last, s, from, to),
         NEW text, text = TakenOut(s, from, to),
         NEW gone, gone = Slice(s, OffsetOf(s, from), OffsetOf(s, to)),
         NEW op, op = Op("deleted", from, from, gone \o last.text, last.before,
                         from, last.was, text)
  PROVE  Sound(op) /\ from \in Positions(text) /\ op.was = last.was /\ op.now = text
<1>0. /\ last.text \in Seq(Plain) /\ Sound(last) /\ last.kind = "deleted"
      /\ s = last.now /\ to = last.start
      /\ OffsetOf(s, from) <= OffsetOf(s, to)
  BY DEF GoesOn
<1>1. PICK P, post \in Seq(Plain) : Deletes(last, P, post)
  BY <1>0 DEF Sound
<1>2. s = P \o post /\ to = PosOf(s, Len(P)) /\ Falls(last.was, P, last.text, post)
  BY <1>0, <1>1 DEF Deletes, Joins
<1> DEFINE lo == OffsetOf(s, from)
<1>3. OffsetOf(s, to) = Len(P)
  BY <1>2, PosBehind
<1>4. from = PosOf(s, lo) /\ lo \in Nat /\ lo <= Len(P)
  <2>1. PosOf(s, lo) = from /\ lo \in 0 .. Len(s) /\ Len(s) \in Nat
    BY PosOfOffset, ElementsOf
  <2>2. lo <= Len(P)
    BY <1>0, <1>3
  <2> QED
    BY <2>1, <2>2
<1> HIDE DEF lo
<1>5. PICK pre, mid \in Seq(Plain) : P = pre \o mid /\ Len(pre) = lo
  BY <1>4, ParsedAt
<1>6. Len(P) = Len(pre) + Len(mid)
  BY <1>5, ConcatProperties
<1>7. Falls(s, pre, mid, post)
  BY <1>2, <1>5 DEF Falls
<1>8. from = PosOf(s, Len(pre)) /\ to = PosOf(s, Len(pre) + Len(mid))
  BY <1>2, <1>4, <1>5, <1>6
<1>9. Loses(s, from, to, pre, mid, post)
  BY <1>7, <1>8, TakenOutAt
<1>10. text = pre \o post /\ gone = mid /\ from = PosOf(pre \o post, Len(pre))
  BY <1>9 DEF Loses
<1> DEFINE old == last.text
           w   == mid \o old
<1>11. Falls(last.was, pre, w, post)
  <2>1. old \in Seq(Plain) /\ Falls(last.was, P, old, post) /\ P = pre \o mid
    BY <1>0, <1>2, <1>5
  <2> HIDE DEF old
  <2> QED
    BY <2>1, Regrouped
<1>12. from \in Positions(text)
  BY <1>10, PosBehind
<1>13. /\ op.kind = "deleted" /\ op.start = from /\ op.text = w
       /\ op.before = last.before /\ op.after = from
       /\ op.was = last.was /\ op.now = text
  BY <1>10 DEF Op
<1>14. Joins(text, pre, post) /\ from = PosOf(text, Len(pre))
  BY <1>10 DEF Joins
<1> HIDE DEF w
<1>15. Deletes(op, pre, post)
  BY <1>11, <1>13, <1>14 DEF Deletes
<1>16. last.before \in Positions(last.was)
  BY <1>0 DEF Sound
<1> QED
  BY <1>12, <1>13, <1>15, <1>16 DEF Sound

(* What undo and redo make of an entry.                                    *)
LEMMA SoundUndone ==
  ASSUME NEW op \in Entry(Plain), Sound(op)
  PROVE  (IF op.kind = "inserted" THEN TakenOut(op.now, op.start, op.end)
                                  ELSE PutIn(op.now, op.start, op.text)) = op.was
<1> DEFINE new == op.text
<1>1. new \in Seq(Plain) /\ op.kind \in {"inserted", "deleted"}
  BY EntryIs
<1>2. CASE op.kind = "inserted"
  <2>1. PICK pre, post \in Seq(Plain) : Inserts(op, pre, post)
    BY <1>2 DEF Sound
  <2>2. /\ op.was = pre \o post /\ Falls(op.now, pre, new, post)
        /\ op.start = PosOf(op.was, Len(pre))
        /\ op.end = PosOf(op.now, Len(pre) + Len(new))
    BY <2>1 DEF Inserts, Joins
  <2>3. op.start = PosOf(op.now, Len(pre))
    <3>1. PosOf((pre \o new) \o post, Len(pre)) = PosOf(pre \o post, Len(pre))
      BY <1>1, PosBehind
    <3> QED
      BY <2>2, <3>1 DEF Falls
  <2>4. Loses(op.now, op.start, op.end, pre, new, post)
    BY <1>1, <2>2, <2>3, TakenOutAt
  <2> QED
    BY <1>2, <2>2, <2>4 DEF Loses
<1>3. CASE op.kind = "deleted"
  <2>1. PICK pre, post \in Seq(Plain) : Deletes(op, pre, post)
    BY <1>3 DEF Sound
  <2>2. /\ Joins(op.now, pre, post) /\ op.was = (pre \o new) \o post
        /\ op.start = PosOf(op.now, Len(pre))
    BY <2>1 DEF Deletes, Falls
  <2> DEFINE t == PutIn(op.now, op.start, new)
  <2>4. Gains(op.now, op.start, pre, new, post, t, EndOf(op.start, Unix(new)))
    <3> HIDE DEF new
    <3> QED
      BY <1>1, <2>2, PlainIs, PutInAt
  <2>3. t = (pre \o new) \o post
    BY <2>4 DEF Gains, Falls
  <2> QED
    BY <1>3, <2>2, <2>3
<1> QED
  BY <1>1, <1>2, <1>3

LEMMA SoundRedone ==
  ASSUME NEW op \in Entry(Plain), Sound(op), op.kind = "inserted"
  PROVE  PutIn(op.was, op.start, op.text) = op.now
<1> DEFINE new == op.text
<1>1. new \in Seq(Plain)
  BY EntryIs
<1>2. PICK pre, post \in Seq(Plain) : Inserts(op, pre, post)
  BY DEF Sound
<1>3. /\ Joins(op.was, pre, post) /\ op.now = (pre \o new) \o post
      /\ op.start = PosOf(op.was, Len(pre))
  BY <1>2 DEF Inserts, Falls
<1> DEFINE t == PutIn(op.was, op.start, new)
<1>4. Gains(op.was, op.start, pre, new, post, t, EndOf(op.start, Unix(new)))
  <2> HIDE DEF new
  <2> QED
    BY <1>1, <1>3, PlainIs, PutInAt
<1> QED
  BY <1>3, <1>4 DEF Gains, Falls


-----------------------------------------------------------------------------
(* Stacks that lead from text to text.                                     *)

Undoes(text, u) ==
  \A i \in 1 .. Len(u) :
    Sound(u[i]) /\ u[i].now = IF i = Len(u) THEN text ELSE u[i + 1].was

Redoes(text, r) ==
  \A i \in 1 .. Len(r) :
    Sound(r[i]) /\ r[i].was = IF i = Len(r) THEN text ELSE r[i + 1].now

LEMMA UndoesPushed ==
  ASSUME NEW T, NEW text, NEW u \in Seq(Entry(T)), Undoes(text, u),
         NEW op \in Entry(T), Sound(op), op.was = text
  PROVE  Undoes(op.now, Pushed(u, op))
<1> DEFINE m == IF Len(u) >= UndoCap THEN 1 ELSE 0
           n == Len(u) - m
           v == Pushed(u, op)
<1>1. /\ n \in Nat /\ Len(v) = n + 1
      /\ \A i \in 1 .. n : v[i] = u[i + m]
      /\ v[n + 1] = op
  BY PushedIs, EditorAssumption
<1>2. Len(u) \in Nat /\ m \in {0, 1} /\ n + m = Len(u)
  <2>1. Len(u) \in Nat
    BY ElementsOf
  <2> QED
    BY <2>1
<1> HIDE DEF v, m, n
<1>3. ASSUME NEW i \in 1 .. n + 1
      PROVE  Sound(v[i]) /\ v[i].now = IF i = n + 1 THEN op.now ELSE v[i + 1].was
  <2>1. CASE i = n + 1
    BY <1>1, <2>1
  <2>2. CASE i # n + 1
    <3>1. i \in 1 .. n
      BY <1>1, <2>2
    <3> DEFINE j == i + m
    <3>2. j \in 1 .. Len(u) /\ (j = Len(u) <=> i = n)
      BY <1>1, <1>2, <3>1
    <3>3. v[i] = u[j]
      BY <1>1, <3>1
    <3>4. CASE i = n
      <4>1. v[i + 1] = op
        BY <1>1, <3>4
      <4> HIDE DEF j
      <4>2. Sound(u[j]) /\ u[j].now = text
        BY <3>2, <3>4 DEF Undoes
      <4> QED
        BY <2>2, <3>3, <4>1, <4>2
    <3>5. CASE i # n
      <4>1. i + 1 \in 1 .. n /\ (i + 1) + m = j + 1
        BY <1>1, <1>2, <3>1, <3>5
      <4>2. v[i + 1] = u[j + 1]
        BY <1>1, <4>1
      <4> HIDE DEF j
      <4>3. Sound(u[j]) /\ u[j].now = u[j + 1].was
        BY <3>2, <3>5 DEF Undoes
      <4> QED
        BY <2>2, <3>3, <4>2, <4>3
    <3> QED
      BY <3>4, <3>5
  <2> QED
    BY <2>1, <2>2
<1> QED
  BY <1>1, <1>3 DEF Undoes, v

LEMMA UndoesGrown ==
  ASSUME NEW T, NEW text, NEW u \in Seq(Entry(T)), u # <<>>, Undoes(text, u),
         NEW op \in Entry(T), Sound(op), op.was = Last(u).was
  PROVE  Undoes(op.now, Grown(u, op))
<1> DEFINE v == Grown(u, op)
           n == Len(u)
<1>1. n \in Nat \ {0} /\ Last(u) = u[n]
  BY LastIs
<1>2. Len(v) = n /\ v[n] = op /\ \A i \in 1 .. n - 1 : v[i] = u[i]
  <2> DEFINE S == Entry(T)
  <2>1. u \in Seq(S) /\ op \in S /\ u # <<>>
    OBVIOUS
  <2> HIDE DEF S
  <2>2. /\ Len(Grown(u, op)) = Len(u) /\ Grown(u, op)[Len(u)] = op
        /\ \A i \in 1 .. Len(u) - 1 : Grown(u, op)[i] = u[i]
    BY <2>1, GrownIs
  <2> QED
    BY <2>2
<1> HIDE DEF v
<1>3. ASSUME NEW i \in 1 .. n
      PROVE  Sound(v[i]) /\ v[i].now = IF i = n THEN op.now ELSE v[i + 1].was
  <2>1. CASE i = n
    BY <1>2, <2>1
  <2>2. CASE i # n
    <3>1. i \in 1 .. n - 1 /\ i + 1 \in 1 .. n
      BY <1>1, <2>2
    <3>2. v[i] = u[i] /\ Sound(u[i]) /\ u[i].now = u[i + 1].was
      BY <1>2, <2>2, <3>1 DEF Undoes
    <3>3. v[i + 1].was = u[i + 1].was
      <4>1. CASE i + 1 = n
        BY <1>1, <1>2, <4>1
      <4>2. CASE i + 1 # n
        <5>1. i + 1 \in 1 .. n - 1
          BY <1>1, <3>1, <4>2
        <5> QED
          BY <1>2, <5>1
      <4> QED
        BY <4>1, <4>2
    <3> QED
      BY <2>2, <3>2, <3>3
  <2> QED
    BY <2>1, <2>2
<1> QED
  BY <1>2, <1>3 DEF Undoes, v

(* The last entry leads to the text, and the others to the one before.     *)
LEMMA UndoesLast ==
  ASSUME NEW T, NEW text, NEW u \in Seq(Entry(T)), u # <<>>, Undoes(text, u)
  PROVE  /\ Last(u) \in Entry(T) /\ Sound(Last(u)) /\ Last(u).now = text
         /\ Undoes(Last(u).was, Front(u))
<1> DEFINE v == Front(u)
           n == Len(u)
           last == Last(u)
<1>1. /\ n \in Nat \ {0} /\ last = u[n] /\ last \in Entry(T)
      /\ Len(v) = n - 1 /\ \A i \in 1 .. n - 1 : v[i] = u[i]
  BY LastIs
<1> HIDE DEF v, last
<1>2. Sound(u[n]) /\ u[n].now = text
  <2>1. n \in 1 .. n
    BY <1>1
  <2> QED
    BY <2>1 DEF Undoes
<1>3. ASSUME NEW i \in 1 .. n - 1
      PROVE  Sound(v[i]) /\ v[i].now = IF i = n - 1 THEN last.was ELSE v[i + 1].was
  <2>1. i \in 1 .. n /\ i # n
    BY <1>1
  <2>2. v[i] = u[i] /\ Sound(u[i]) /\ u[i].now = u[i + 1].was
    BY <1>1, <2>1 DEF Undoes
  <2>3. CASE i = n - 1
    <3>1. i + 1 = n
      BY <1>1, <2>3
    <3> QED
      BY <1>1, <2>2, <2>3, <3>1
  <2>4. CASE i # n - 1
    <3>1. i + 1 \in 1 .. n - 1
      BY <1>1, <2>1, <2>4
    <3> QED
      BY <1>1, <2>2, <2>4, <3>1
  <2> QED
    BY <2>3, <2>4
<1> QED
  BY <1>1, <1>2, <1>3 DEF Undoes, v, last

LEMMA UndoesAppended ==
  ASSUME NEW T, NEW text, NEW u \in Seq(Entry(T)), Undoes(text, u),
         NEW op \in Entry(T), Sound(op), op.was = text
  PROVE  Undoes(op.now, Append(u, op))
<1> DEFINE v == Append(u, op)
           n == Len(u)
<1>1. /\ n \in Nat /\ Len(v) = n + 1 /\ v[n + 1] = op
      /\ \A i \in 1 .. n : v[i] = u[i]
  BY Appended, ElementsOf
<1> HIDE DEF v, n
<1>2. ASSUME NEW i \in 1 .. n + 1
      PROVE  Sound(v[i]) /\ v[i].now = IF i = n + 1 THEN op.now ELSE v[i + 1].was
  <2>1. CASE i = n + 1
    BY <1>1, <2>1
  <2>2. CASE i # n + 1
    <3>1. i \in 1 .. n
      BY <1>1, <2>2
    <3>2. /\ v[i] = u[i] /\ Sound(u[i])
          /\ u[i].now = IF i = n THEN text ELSE u[i + 1].was
      BY <1>1, <3>1 DEF Undoes, n
    <3>3. i # n => i + 1 \in 1 .. n
      BY <1>1, <3>1
    <3>4. v[i + 1].was = IF i = n THEN text ELSE u[i + 1].was
      BY <1>1, <3>3
    <3> QED
      BY <2>2, <3>2, <3>4
  <2> QED
    BY <2>1, <2>2
<1> QED
  BY <1>1, <1>2 DEF Undoes, v

LEMMA RedoesAppended ==
  ASSUME NEW T, NEW text, NEW r \in Seq(Entry(T)), Redoes(text, r),
         NEW op \in Entry(T), Sound(op), op.now = text
  PROVE  Redoes(op.was, Append(r, op))
<1> DEFINE v == Append(r, op)
           n == Len(r)
<1>1. /\ n \in Nat /\ Len(v) = n + 1 /\ v[n + 1] = op
      /\ \A i \in 1 .. n : v[i] = r[i]
  BY Appended, ElementsOf
<1> HIDE DEF v, n
<1>2. ASSUME NEW i \in 1 .. n + 1
      PROVE  Sound(v[i]) /\ v[i].was = IF i = n + 1 THEN op.was ELSE v[i + 1].now
  <2>1. CASE i = n + 1
    BY <1>1, <2>1
  <2>2. CASE i # n + 1
    <3>1. i \in 1 .. n
      BY <1>1, <2>2
    <3>2. /\ v[i] = r[i] /\ Sound(r[i])
          /\ r[i].was = IF i = n THEN text ELSE r[i + 1].now
      BY <1>1, <3>1 DEF Redoes, n
    <3>3. i # n => i + 1 \in 1 .. n
      BY <1>1, <3>1
    <3>4. v[i + 1].now = IF i = n THEN text ELSE r[i + 1].now
      BY <1>1, <3>3
    <3> QED
      BY <2>2, <3>2, <3>4
  <2> QED
    BY <2>1, <2>2
<1> QED
  BY <1>1, <1>2 DEF Redoes, v

LEMMA RedoesLast ==
  ASSUME NEW T, NEW text, NEW r \in Seq(Entry(T)), r # <<>>, Redoes(text, r)
  PROVE  /\ Last(r) \in Entry(T) /\ Sound(Last(r)) /\ Last(r).was = text
         /\ Redoes(Last(r).now, Front(r))
<1> DEFINE v == Front(r)
           n == Len(r)
           last == Last(r)
<1>1. /\ n \in Nat \ {0} /\ last = r[n] /\ last \in Entry(T)
      /\ Len(v) = n - 1 /\ \A i \in 1 .. n - 1 : v[i] = r[i]
  BY LastIs
<1> HIDE DEF v, last
<1>2. Sound(r[n]) /\ r[n].was = text
  <2>1. n \in 1 .. n
    BY <1>1
  <2> QED
    BY <2>1 DEF Redoes
<1>3. ASSUME NEW i \in 1 .. n - 1
      PROVE  Sound(v[i]) /\ v[i].was = IF i = n - 1 THEN last.now ELSE v[i + 1].now
  <2>1. i \in 1 .. n /\ i # n
    BY <1>1
  <2>2. v[i] = r[i] /\ Sound(r[i]) /\ r[i].was = r[i + 1].now
    BY <1>1, <2>1 DEF Redoes
  <2>3. CASE i = n - 1
    <3>1. i + 1 = n
      BY <1>1, <2>3
    <3> QED
      BY <1>1, <2>2, <2>3, <3>1
  <2>4. CASE i # n - 1
    <3>1. i + 1 \in 1 .. n - 1
      BY <1>1, <2>1, <2>4
    <3> QED
      BY <1>1, <2>2, <2>4, <3>1
  <2> QED
    BY <2>3, <2>4
<1> QED
  BY <1>1, <1>2, <1>3 DEF Redoes, v, last


-----------------------------------------------------------------------------
(* Editing keeps cursor, texts and stacks together.                        *)

(* An editing state whose undo entries are exact, and its redo entries too.*)
Steady(e) ==
  /\ Editing(Plain, e)
  /\ {e.cursor, e.anchor} \subseteq Positions(e.text)
  /\ Undoes(e.text, e.undo)

Exact(e) == Steady(e) /\ Redoes(e.text, e.redo)

Straight == astray = {} => Exact(ed)

LEMMA NothingToRedo ==
  ASSUME NEW e, Steady(e), e.redo = <<>>
  PROVE  Exact(e)
<1>1. Redoes(e.text, e.redo)
  <2>1. Len(e.redo) = 0
    BY EmptySeq
  <2> QED
    BY <2>1 DEF Redoes
<1> QED
  BY <1>1 DEF Exact

LEMMA SteadyEdited ==
  ASSUME NEW e, Editing(Plain, e), NEW text, NEW pos, NEW u, NEW r,
         Edited(e, text, pos, u, r), pos \in Positions(text), Undoes(text, u)
  PROVE  Steady(e)
  BY DEF Steady, Edited

LEMMA SteadyMoved ==
  ASSUME NEW e, NEW d, Moved(e, d)
  PROVE  /\ Steady(e) => Steady(d)
         /\ Exact(e) => Exact(d)
<1>1. Steady(e) => Steady(d)
  <2> SUFFICES ASSUME Steady(e)
               PROVE  Steady(d)
    OBVIOUS
  <2>1. Editing(Plain, d)
    BY EditingMoved DEF Steady
  <2> QED
    BY <2>1 DEF Steady, Moved
<1> QED
  BY <1>1 DEF Exact, Moved

LEMMA SteadyDelete ==
  ASSUME NEW e, Steady(e)
  PROVE  /\ Steady(DeleteSelection(e)) /\ DeleteSelection(e).redo = e.redo
         /\ Exact(CutSelection(e))
<1> DEFINE d    == DeleteSelection(e)
           s    == e.text
           from == SelStart(e)
           to   == SelEnd(e)
           text == TakenOut(s, from, to)
           gone == Slice(s, OffsetOf(s, from), OffsetOf(s, to))
           op   == Op("deleted", from, from, gone, e.cursor, from, s, text)
           u    == Pushed(e.undo, op)
<1>1. /\ Editing(Plain, e) /\ Marks(e) /\ s \in Seq(Plain) /\ e.undo \in Seq(Entry(Plain))
      /\ e.cursor \in Positions(s) /\ e.anchor \in Positions(s) /\ Undoes(s, e.undo)
  BY DEF Steady, Editing
<1>2. from \in Positions(s) /\ to \in Positions(s)
  BY <1>1, SelectionType
<1>3. Selected(e) = gone
  BY DEF Selected, Between
<1>4. ~Selecting(e) => d = e
  BY <1>1, DeleteIs
<1>5. Selecting(e) => Edited(d, text, from, u, e.redo)
  BY <1>1, <1>3, DeleteIs
<1>6. Editing(Plain, d)
  BY <1>1, EditingDelete
<1>7. op \in Entry(Plain)
  <2>1. Positions(s) \subseteq Place
    BY <1>1, PosType DEF Place
  <2>2. from \in Place /\ to \in Place /\ e.cursor \in Place
    BY <1>1, <1>2, <2>1
  <2>3. text \in Seq(Plain)
    BY <1>1, <2>2, TakenOutType
  <2>4. gone \in Seq(Plain)
    BY <1>1, <1>3, <2>2, BetweenType DEF Selected
  <2> HIDE DEF from, to, text, gone, s
  <2> QED
    BY <1>1, <2>2, <2>3, <2>4, OpIs
<1> HIDE DEF d, from, to
<1>8. Sound(op) /\ from \in Positions(text) /\ op.was = s /\ op.now = text
  BY <1>1, <1>2, SoundDeletion
<1> HIDE DEF text, gone, op
<1>9. Undoes(text, u)
  BY <1>1, <1>7, <1>8, UndoesPushed
<1> HIDE DEF u
<1>10. Steady(d) /\ d.redo = e.redo
  <2>1. CASE Selecting(e)
    BY <1>5, <1>6, <1>8, <1>9, <2>1, SteadyEdited DEF Edited
  <2>2. CASE ~Selecting(e)
    BY <1>4, <2>2
  <2> QED
    BY <2>1, <2>2
<1>11. Exact(CutSelection(e))
  <2> DEFINE c == CutSelection(e)
  <2>1. c = [d EXCEPT !.redo = <<>>]
    BY DEF CutSelection, d
  <2>2. Editing(Plain, c)
    BY <1>1, EditingDelete
  <2> HIDE DEF c
  <2>3. /\ c.text = d.text /\ c.cursor = d.cursor /\ c.anchor = d.anchor
        /\ c.undo = d.undo /\ c.redo = <<>>
    BY <1>6, <2>1 DEF Editing, Marks, Fields
  <2>4. Steady(c)
    BY <1>10, <2>2, <2>3 DEF Steady
  <2> QED
    BY <2>3, <2>4, NothingToRedo DEF c
<1> QED
  BY <1>10, <1>11 DEF d

LEMMA ExactInsert ==
  ASSUME NEW e, Steady(e), NEW new \in Seq(Plain), NEW kind
  PROVE  Exact(DoInsert(e, new, kind)) /\ DoInsert(e, new, kind).redo = <<>>
<1> DEFINE d    == DeleteSelection(e)
           i    == DoInsert(e, new, kind)
           s    == d.text
           at   == d.cursor
           end  == EndOf(at, Unix(new))
           text == PutIn(s, at, new)
           op   == Insertion(d, new)
           long == LongerInsertion(d, new)
           last == Last(d.undo)
           u    == IF Grows(d, kind) THEN Grown(d.undo, long) ELSE Pushed(d.undo, op)
<1>1. Steady(d) /\ Editing(Plain, e) /\ Marks(e)
  BY SteadyDelete DEF Steady, Editing
<1>2. Edited(i, text, end, u, <<>>)
  BY <1>1, InsertIs
<1>3. Editing(Plain, i)
  BY <1>1, PlainIs, EditingInsert
<1> HIDE DEF d, i
<1>4. /\ s \in Seq(Plain) /\ at \in Positions(s) /\ at \in Place
      /\ d.undo \in Seq(Entry(Plain)) /\ Undoes(s, d.undo)
  BY <1>1 DEF Steady, Editing
<1>5. op = Op("inserted", at, end, new, at, end, s, text)
  BY DEF Insertion
<1>6. long = Op("inserted", last.start, end, last.text \o new, last.before, end,
                last.was, text)
  BY DEF LongerInsertion
<1>7. end \in Place /\ text \in Seq(Plain)
  <2>1. Unix(new) \in Seq(Plain)
    BY PlainIs, UnixSame
  <2> QED
    BY <1>4, <2>1, PlainIs, EndOfType, PutInType
<1>8. d.undo # <<>> => /\ last \in Entry(Plain) /\ Sound(last) /\ last.now = s
  BY <1>4, UndoesLast
<1> HIDE DEF s, at, op, long, last
<1>9. Sound(op) /\ end \in Positions(text) /\ op.was = s /\ op.now = text
  BY <1>4, <1>5, SoundInsertion
<1>10. op \in Entry(Plain)
  BY <1>4, <1>5, <1>7, OpIs
<1>11. CASE ~Grows(d, kind)
  <2>1. Undoes(text, Pushed(d.undo, op))
    BY <1>4, <1>9, <1>10, UndoesPushed
  <2>2. u = Pushed(d.undo, op)
    BY <1>11
  <2> HIDE DEF u, text, end
  <2>3. Steady(i)
    BY <1>2, <1>3, <1>9, <2>1, <2>2, SteadyEdited
  <2> QED
    BY <1>2, <2>3, NothingToRedo DEF Edited, i
<1>12. CASE Grows(d, kind)
  <2>1. d.undo # <<>> /\ last.kind = "inserted" /\ last.end = at
    BY <1>12 DEF Grows, last, at
  <2>2. /\ last \in Entry(Plain) /\ Sound(last) /\ last.now = s
        /\ last.text \in Seq(Plain) /\ last.start \in Place /\ last.before \in Place
        /\ last.was \in Seq(Plain)
    BY <1>8, <2>1, EntryIs
  <2>3. Sound(long) /\ end \in Positions(text) /\ long.was = last.was /\ long.now = text
    BY <1>4, <1>6, <2>1, <2>2, SoundTyping
  <2> DEFINE t == last.text \o new
  <2>4. t \in Seq(Plain)
    BY <2>2, ConcatProperties
  <2> HIDE DEF t
  <2>5. long = Op("inserted", last.start, end, t, last.before, end, last.was, text)
    BY <1>6 DEF t
  <2> HIDE DEF text, end
  <2>6. long \in Entry(Plain)
    BY <1>7, <2>2, <2>4, <2>5, OpIs
  <2>7. Undoes(text, Grown(d.undo, long))
    BY <1>4, <2>1, <2>3, <2>6, UndoesGrown DEF last
  <2>8. u = Grown(d.undo, long)
    BY <1>12
  <2> HIDE DEF u
  <2>9. Steady(i)
    BY <1>2, <1>3, <2>3, <2>7, <2>8, SteadyEdited
  <2> QED
    BY <1>2, <2>9, NothingToRedo DEF Edited, i
<1> QED
  BY <1>11, <1>12

LEMMA ExactCut ==
  ASSUME NEW e, Steady(e), NEW from \in Positions(e.text),
         NEW to \in Positions(e.text), NEW kind,
         kind = "backspace" => OffsetOf(e.text, from) <= OffsetOf(e.text, to)
  PROVE  Exact(Cut(e, from, to, kind))
<1> DEFINE c    == Cut(e, from, to, kind)
           s    == e.text
           text == TakenOut(s, from, to)
           gone == Slice(s, OffsetOf(s, from), OffsetOf(s, to))
           op   == Deletion(e, from, to)
           long == LongerDeletion(e, from, to)
           last == Last(e.undo)
           grow == /\ kind = "backspace" /\ e.coalesce = "backspace"
                   /\ e.undo # <<>> /\ last.kind = "deleted" /\ last.start = to
           u    == IF grow THEN Grown(e.undo, long) ELSE Pushed(e.undo, op)
<1>1. /\ Editing(Plain, e) /\ Marks(e) /\ s \in Seq(Plain) /\ e.undo \in Seq(Entry(Plain))
      /\ e.cursor \in Positions(s) /\ e.cursor \in Place /\ Undoes(s, e.undo)
  BY DEF Steady, Editing
<1>2. from \in Place /\ to \in Place
  <2>1. Positions(s) \subseteq Place
    BY <1>1, PosType DEF Place
  <2> QED
    BY <2>1
<1>3. Editing(Plain, c)
  BY <1>1, <1>2, EditingCut
<1>4. Edited(c, text, from, u, <<>>)
  BY <1>1, CutIs
<1>5. Between(e, from, to) = gone
  BY DEF Between
<1>6. text \in Seq(Plain) /\ gone \in Seq(Plain)
  BY <1>1, <1>2, <1>5, TakenOutType, BetweenType
<1>7. op = Op("deleted", from, from, gone, e.cursor, from, s, text)
  BY <1>5 DEF Deletion
<1>8. long = Op("deleted", from, from, gone \o last.text, last.before, from,
                last.was, text)
  BY <1>5 DEF LongerDeletion
<1>9. e.undo # <<>> => /\ last \in Entry(Plain) /\ Sound(last) /\ last.now = s
  BY <1>1, UndoesLast
<1>10. from \in Positions(s) /\ to \in Positions(s)
  OBVIOUS
<1>11. kind = "backspace" => OffsetOf(s, from) <= OffsetOf(s, to)
  OBVIOUS
<1> HIDE DEF c, s, op, long, last
<1>12. Sound(op) /\ from \in Positions(text) /\ op.was = s /\ op.now = text
  BY <1>1, <1>7, <1>10, SoundDeletion
<1>13. op \in Entry(Plain)
  <2> HIDE DEF text, gone
  <2> QED
    BY <1>1, <1>2, <1>6, <1>7, OpIs
<1>14. CASE ~grow
  <2>1. Undoes(text, Pushed(e.undo, op))
    BY <1>1, <1>12, <1>13, UndoesPushed
  <2>2. u = Pushed(e.undo, op)
    BY <1>14
  <2> HIDE DEF u, text, gone
  <2>3. Steady(c)
    BY <1>3, <1>4, <1>12, <2>1, <2>2, SteadyEdited
  <2> QED
    BY <1>4, <2>3, NothingToRedo DEF Edited, c
<1>15. CASE grow
  <2>1. /\ e.undo # <<>> /\ last.kind = "deleted" /\ last.start = to
        /\ OffsetOf(s, from) <= OffsetOf(s, to)
    BY <1>11, <1>15
  <2>2. /\ last \in Entry(Plain) /\ Sound(last) /\ last.now = s
        /\ last.text \in Seq(Plain) /\ last.before \in Place
        /\ last.was \in Seq(Plain)
    BY <1>9, <2>1, EntryIs
  <2>3. Sound(long) /\ from \in Positions(text) /\ long.was = last.was /\ long.now = text
    <3>1. /\ text = TakenOut(s, from, to)
          /\ gone = Slice(s, OffsetOf(s, from), OffsetOf(s, to))
      OBVIOUS
    <3>2. s \in Seq(Plain) /\ from \in Positions(s)
      BY <1>1, <1>10
    <3>3. GoesOn(last, s, from, to)
      BY <2>1, <2>2 DEF GoesOn
    <3> HIDE DEF text, gone, grow, u
    <3> QED
      BY <1>8, <3>1, <3>2, <3>3, SoundBackspace
  <2> DEFINE t == gone \o last.text
  <2>4. t \in Seq(Plain)
    BY <1>6, <2>2, ConcatProperties
  <2> HIDE DEF t
  <2>5. long = Op("deleted", from, from, t, last.before, from, last.was, text)
    BY <1>8 DEF t
  <2> HIDE DEF text, gone
  <2>6. long \in Entry(Plain)
    BY <1>2, <1>6, <2>2, <2>4, <2>5, OpIs
  <2>7. Undoes(text, Grown(e.undo, long))
    BY <1>1, <2>1, <2>3, <2>6, UndoesGrown DEF last
  <2>8. u = Grown(e.undo, long)
    BY <1>15
  <2> HIDE DEF u
  <2>9. Steady(c)
    BY <1>3, <1>4, <2>3, <2>7, <2>8, SteadyEdited
  <2> QED
    BY <1>4, <2>9, NothingToRedo DEF Edited, c
<1> QED
  BY <1>14, <1>15


LEMMA LeftIsBefore ==
  ASSUME NEW T, NEW e, Editing(T, e)
  PROVE  OffsetOf(e.text, LeftOf(e)) <= OffsetOf(e.text, e.cursor)
<1> DEFINE s  == e.text
           at == OffsetOf(s, e.cursor)
           a  == at - 1
           o  == Max({a, 0})
<1>1. s \in Seq(T) /\ Len(s) \in Nat /\ at \in 0 .. Len(s)
  BY OffsetType, ElementsOf DEF Editing, Place
<1>2. LeftOf(e) = PosOf(s, o)
  BY DEF LeftOf
<1>3. a \in Int /\ a = at - 1
  BY <1>1
<1> HIDE DEF s, at, a
<1>4. o = IF a <= 0 THEN 0 ELSE a
  BY <1>3, MaxOf
<1> HIDE DEF o
<1>5. o \in 0 .. Len(s) /\ o <= at
  BY <1>1, <1>3, <1>4
<1>6. OffsetOf(s, PosOf(s, o)) = o
  BY <1>1, <1>5, OffsetOfPos
<1> QED
  BY <1>2, <1>5, <1>6 DEF s, at

LEMMA ExactNewline ==
  ASSUME NEW e, Steady(e)
  PROVE  Exact(InsertNewline(e))
<1> DEFINE t == <<Newline>> \o AutoIndent(e)
<1>1. t \in Seq(Plain)
  BY PlainIs, NewlineType DEF Steady
<1> HIDE DEF t
<1>2. Exact(DoInsert(e, t, "none"))
  BY <1>1, ExactInsert
<1> QED
  BY <1>2 DEF InsertNewline, t

LEMMA ExactKeys ==
  ASSUME NEW e, Exact(e)
  PROVE  /\ Exact(SoftTab(e)) /\ Exact(InsertNewline(e))
         /\ Exact(Backspace(e)) /\ Exact(DeleteForward(e))
<1>1. Steady(e) /\ Editing(Plain, e) /\ e.cursor \in Positions(e.text)
  BY DEF Exact, Steady
<1>2. Exact(SoftTab(e))
  <2> DEFINE t == [i \in 1 .. 2 - (e.cursor[2] % 2) |-> Space]
  <2>1. t \in Seq(Plain)
    BY <1>1, PlainIs, TabType
  <2> HIDE DEF t
  <2>2. Exact(DoInsert(e, t, "none"))
    BY <1>1, <2>1, ExactInsert
  <2>3. Exact(InsertStr(e, t))
    BY <2>2 DEF InsertStr
  <2> QED
    BY <2>3 DEF SoftTab, t
<1>3. Exact(InsertNewline(e))
  BY <1>1, ExactNewline
<1>4. LeftOf(e) \in Positions(e.text) /\ RightOf(e) \in Positions(e.text)
  BY <1>1, HopsAre DEF Hops
<1>5. Exact(CutSelection(e))
  BY <1>1, SteadyDelete
<1>6. OffsetOf(e.text, LeftOf(e)) <= OffsetOf(e.text, e.cursor)
  BY <1>1, LeftIsBefore
<1>7. Exact(Cut(e, LeftOf(e), e.cursor, "backspace"))
  BY <1>1, <1>4, <1>6, ExactCut
<1>8. Exact(Cut(e, e.cursor, RightOf(e), "none"))
  <2> DEFINE kind == "none"
  <2>1. kind # "backspace"
    OBVIOUS
  <2> HIDE DEF kind
  <2>2. Exact(Cut(e, e.cursor, RightOf(e), kind))
    BY <1>1, <1>4, <2>1, ExactCut
  <2> QED
    BY <2>2 DEF kind
<1> QED
  BY <1>2, <1>3, <1>5, <1>7, <1>8 DEF Backspace, DeleteForward

(* Undo leads to the text before the last entry.                           *)
LEMMA ExactUndone ==
  ASSUME NEW e, Exact(e), e.undo # <<>>
  PROVE  Exact(Undone(e)) /\ Undone(e).text = Last(e.undo).was
<1> DEFINE op == Last(e.undo)
           d  == Undone(e)
           text == IF op.kind = "inserted" THEN TakenOut(e.text, op.start, op.end)
                                           ELSE PutIn(e.text, op.start, op.text)
           u  == Front(e.undo)
           r  == Append(e.redo, op)
<1>1. /\ Editing(Plain, e) /\ Marks(e)
      /\ e.undo \in Seq(Entry(Plain)) /\ e.redo \in Seq(Entry(Plain))
      /\ Undoes(e.text, e.undo) /\ Redoes(e.text, e.redo)
  BY DEF Exact, Steady, Editing
<1>2. /\ op \in Entry(Plain) /\ Sound(op) /\ op.now = e.text /\ Undoes(op.was, u)
  BY <1>1, UndoesLast
<1>3. Edited(d, text, op.before, u, r)
  BY <1>1, UndoneIs
<1>4. Editing(Plain, d)
  BY <1>1, PlainIs, EditingHistory
<1> HIDE DEF op, d, u
<1>5. text = op.was
  BY <1>2, SoundUndone
<1>6. Redoes(op.was, r)
  BY <1>1, <1>2, RedoesAppended
<1>7. op.before \in Positions(op.was)
  BY <1>2 DEF Sound
<1> HIDE DEF text, r
<1>8. Steady(d)
  BY <1>2, <1>3, <1>4, <1>5, <1>7, SteadyEdited
<1>9. d.text = op.was /\ d.redo = r
  BY <1>3, <1>5 DEF Edited
<1> QED
  BY <1>6, <1>8, <1>9 DEF Exact, d, op

(* Redo of an insertion leads to the text after the last entry.            *)
LEMMA ExactRedone ==
  ASSUME NEW e, Exact(e), e.redo # <<>>, Last(e.redo).kind = "inserted"
  PROVE  Exact(Redone(e)) /\ Redone(e).text = Last(e.redo).now
<1> DEFINE op == Last(e.redo)
           d  == Redone(e)
           text == PutIn(e.text, op.start, op.text)
           u  == Append(e.undo, op)
           r  == Front(e.redo)
<1>1. /\ Editing(Plain, e) /\ Marks(e)
      /\ e.undo \in Seq(Entry(Plain)) /\ e.redo \in Seq(Entry(Plain))
      /\ Undoes(e.text, e.undo) /\ Redoes(e.text, e.redo)
  BY DEF Exact, Steady, Editing
<1>2. /\ op \in Entry(Plain) /\ Sound(op) /\ op.was = e.text /\ Redoes(op.now, r)
      /\ op.kind = "inserted"
  BY <1>1, RedoesLast
<1>3. Edited(d, text, op.after, u, r)
  BY <1>1, RedoneIs
<1>4. Editing(Plain, d)
  BY <1>1, PlainIs, EditingHistory
<1> HIDE DEF op, d, r
<1>5. text = op.now
  BY <1>2, SoundRedone
<1>6. Undoes(op.now, u)
  BY <1>1, <1>2, UndoesAppended
<1>7. op.after \in Positions(op.now)
  BY <1>2 DEF Sound
<1> HIDE DEF text, u
<1>8. Steady(d)
  BY <1>3, <1>4, <1>5, <1>6, <1>7, SteadyEdited
<1>9. d.text = op.now /\ d.redo = r
  BY <1>3, <1>5 DEF Edited
<1> QED
  BY <1>2, <1>8, <1>9 DEF Exact, d, op

(* Replacing by something, or with nothing to redo.                        *)
LEMMA ExactReplace ==
  ASSUME NEW e, Exact(e), NEW new \in Seq(Plain), new # <<>> \/ e.redo = <<>>
  PROVE  Exact(ReplaceSelection(e, new)) /\ ReplaceSelection(e, new).redo = <<>>
<1> DEFINE d == DeleteSelection(e)
<1>1. Steady(d) /\ d.redo = e.redo
  BY SteadyDelete DEF Exact
<1>2. ReplaceSelection(e, new) = InsertStr(d, new)
  BY DEF ReplaceSelection
<1> HIDE DEF d
<1>3. CASE new = <<>>
  <2>1. ReplaceSelection(e, new) = d /\ d.redo = <<>>
    BY <1>1, <1>2, <1>3 DEF InsertStr
  <2> QED
    BY <1>1, <2>1, NothingToRedo
<1>4. CASE new # <<>>
  <2>1. ReplaceSelection(e, new) = DoInsert(d, new, "none")
    BY <1>2, <1>4 DEF InsertStr
  <2> QED
    BY <1>1, <2>1, ExactInsert
<1> QED
  BY <1>3, <1>4

LEMMA ExactFind ==
  ASSUME NEW e, Exact(e), NEW pattern, Len(pattern) \in Nat
  PROVE  Exact(FindNext(e, pattern)) /\ Exact(FindPrev(e, pattern))
  BY FindMoves, SteadyMoved DEF Exact, Steady

(* Replacing by nothing leaves the redo stack, and nothing else, as it was.*)
LEMMA SteadyReplaceCurrent ==
  ASSUME NEW e, Steady(e), NEW pattern, Len(pattern) \in Nat, NEW new \in Seq(Plain)
  PROVE  Steady(ReplaceCurrent(e, pattern, new))
<1> DEFINE d == DeleteSelection(e)
           r == IF Selecting(e) /\ Selected(e) = pattern
                THEN ReplaceSelection(e, new) ELSE e
<1>1. Steady(d)
  BY SteadyDelete
<1>2. Steady(ReplaceSelection(e, new))
  <2>1. ReplaceSelection(e, new) = InsertStr(d, new)
    BY DEF ReplaceSelection
  <2> HIDE DEF d
  <2>2. CASE new = <<>>
    BY <1>1, <2>1, <2>2 DEF InsertStr
  <2>3. CASE new # <<>>
    <3>1. ReplaceSelection(e, new) = DoInsert(d, new, "none")
      BY <2>1, <2>3 DEF InsertStr
    <3> QED
      BY <1>1, <3>1, ExactInsert DEF Exact
  <2> QED
    BY <2>2, <2>3
<1>3. Steady(r)
  BY <1>2
<1> HIDE DEF r
<1>4. Steady(FindNext(r, pattern))
  BY <1>3, FindMoves, SteadyMoved DEF Steady
<1> QED
  BY <1>4 DEF ReplaceCurrent, r

(* With no hit there is nothing to replace.                                *)
LEMMA ReplaceEachNothing ==
  ASSUME NEW e, NEW pattern, NEW new, Len(e.text) \in Nat,
         Hits(e.text, pattern) = {}
  PROVE  ReplaceEach(e, pattern, new) = e
<1> DEFINE n == Len(e.text)
           f == Rounds(e, pattern, new)
           S == {k \in Nat : k <= n => f[k] = [ed |-> e, from |-> 0]}
<1>1. /\ f[0] = [ed |-> e, from |-> 0]
      /\ \A k \in 1 .. n : f[k] = ReplaceNext(f[k - 1], pattern, new)
  BY RoundsStep
<1> HIDE DEF f
<1>2. 0 \in S
  BY <1>1
<1>3. ASSUME NEW k \in S
      PROVE  k + 1 \in S
  <2> SUFFICES ASSUME k + 1 <= n
               PROVE  f[k + 1] = [ed |-> e, from |-> 0]
    OBVIOUS
  <2>1. k <= n /\ k + 1 \in 1 .. n /\ k + 1 - 1 = k
    OBVIOUS
  <2> DEFINE r == [ed |-> e, from |-> 0]
  <2>2. f[k] = r /\ f[k + 1] = ReplaceNext(r, pattern, new)
    BY <1>1, <2>1
  <2>3. r.ed = e
    OBVIOUS
  <2> HIDE DEF r
  <2>4. ReplaceNext(r, pattern, new) = r
    BY <2>3 DEF ReplaceNext
  <2> QED
    BY <2>2, <2>4 DEF r
<1>4. S = Nat
  <2>1. S \in SUBSET Nat
    OBVIOUS
  <2> HIDE DEF S
  <2> QED
    BY <1>2, <1>3, <2>1, SetInduction
<1>5. f[n] = [ed |-> e, from |-> 0]
  BY <1>4 DEF S
<1> QED
  BY <1>5 DEF ReplaceEach, f

LEMMA ExactReplaceEach ==
  ASSUME NEW e, Exact(e), NEW pattern, Len(pattern) \in Nat,
         NEW new \in Seq(Plain), new # <<>> \/ e.redo = <<>>
  PROVE  Exact(ReplaceEach(e, pattern, new))
<1> DEFINE n == Len(e.text)
           f == Rounds(e, pattern, new)
           Goes(r) == Exact(r.ed) /\ r.from \in Nat /\ (new # <<>> \/ r.ed.redo = <<>>)
           S == {k \in Nat : k <= n => Goes(f[k])}
<1>1. n \in Nat
  BY ElementsOf DEF Exact, Steady, Editing
<1>2. /\ f[0] = [ed |-> e, from |-> 0]
      /\ \A k \in 1 .. n : f[k] = ReplaceNext(f[k - 1], pattern, new)
  BY <1>1, RoundsStep
<1> HIDE DEF f
<1>3. 0 \in S
  BY <1>2
<1>4. ASSUME NEW k \in S
      PROVE  k + 1 \in S
  <2> SUFFICES ASSUME k + 1 <= n
               PROVE  Goes(f[k + 1])
    OBVIOUS
  <2> DEFINE r    == f[k]
             next == {h \in Hits(r.ed.text, pattern) : h >= r.from}
             m    == Match(r.ed, Min(next), pattern)
             d    == ReplaceSelection(m, new)
  <2>1. k <= n /\ k + 1 \in 1 .. n /\ k + 1 - 1 = k
    BY <1>1
  <2>2. f[k + 1] = IF next = {} THEN r
                   ELSE [ed |-> d, from |-> OffsetOf(d.text, d.cursor)]
    <3>1. f[k + 1] = ReplaceNext(r, pattern, new)
      BY <1>2, <2>1
    <3> QED
      BY <3>1 DEF ReplaceNext
  <2>3. Goes(r)
    BY <2>1
  <2> HIDE DEF r
  <2>4. CASE next = {}
    BY <2>2, <2>3, <2>4
  <2>5. CASE next # {}
    <3>1. r.ed.text \in Seq(Plain) /\ Editing(Plain, r.ed) /\ Exact(r.ed)
      BY <2>3 DEF Exact, Steady, Editing
    <3>2. Hits(r.ed.text, pattern) \in SUBSET Nat
      BY <3>1, HitsAre
    <3>3. next \in SUBSET Nat
      BY <3>2
    <3> HIDE DEF next
    <3>4. Min(next) \in Nat
      BY <2>5, <3>3, MinIsLeast
    <3>5. Moved(r.ed, m)
      BY <3>1, <3>4, MatchMoves
    <3> HIDE DEF m
    <3>6. Exact(m) /\ m.redo = r.ed.redo
      BY <3>1, <3>5, SteadyMoved DEF Moved
    <3>7. Exact(d) /\ d.redo = <<>>
      BY <2>3, <3>6, ExactReplace
    <3> HIDE DEF d
    <3>8. Editing(Plain, d)
      BY <3>7 DEF Exact, Steady
    <3>9. OffsetOf(d.text, d.cursor) \in 0 .. Len(d.text) /\ Len(d.text) \in Nat
      BY <3>8, OffsetType, ElementsOf DEF Editing, Place
    <3>10. OffsetOf(d.text, d.cursor) \in Nat
      BY <3>9
    <3> QED
      BY <2>2, <2>5, <3>7, <3>10
  <2> QED
    BY <2>4, <2>5
<1> HIDE DEF S
<1>5. S = Nat
  <2>1. S \in SUBSET Nat
    BY DEF S
  <2> QED
    BY <1>3, <1>4, <2>1, SetInduction
<1>6. Exact(f[n].ed)
  BY <1>1, <1>5 DEF S
<1> QED
  BY <1>6 DEF ReplaceEach, f


-----------------------------------------------------------------------------
(* The text and its history.                                               *)

LEMMA PlainAre ==
  /\ \A file \in Files : file \in Seq(Plain)
  /\ \A c \in Typed : <<c>> \in Seq(Plain)
  /\ \A new \in Replacements : new \in Seq(Plain)
  /\ \A text \in Seq(Characters) : Return \notin ToSet(text) => text \in Seq(Plain)
<1>1. \A file \in Files : file \in Seq(Plain)
  BY EditorAssumption DEF Plain
<1>2. \A c \in Typed : <<c>> \in Seq(Plain)
  <2>1. \A c \in Typed : c \in Plain
    BY EditorAssumption DEF Plain
  <2> QED
    BY <2>1
<1>3. ASSUME NEW new \in Replacements
      PROVE  new \in Seq(Plain)
  <2>1. new \in Seq(Characters \ {Newline, Return})
    BY EditorAssumption
  <2>2. Characters \ {Newline, Return} \subseteq Plain
    BY DEF Plain
  <2> QED
    BY <2>1, <2>2
<1>4. ASSUME NEW text \in Seq(Characters), Return \notin ToSet(text)
      PROVE  text \in Seq(Plain)
  <2>1. \A i \in 1 .. Len(text) : text[i] \in Characters /\ text[i] # Return
    <3>1. \A i \in 1 .. Len(text) : text[i] \in Characters /\ text[i] \in ToSet(text)
      BY ElementsOf DEF ToSet
    <3> QED
      BY <3>1, <1>4
  <2>2. \A i \in 1 .. Len(text) : text[i] \in Plain
    BY <2>1 DEF Plain
  <2> QED
    BY <2>2, ElementsOf
<1> QED
  BY <1>1, <1>2, <1>3, <1>4

LEMMA ExactFresh ==
  ASSUME NEW file \in Seq(Plain)
  PROVE  Exact(Fresh(file))
<1> DEFINE o == <<>>
           e == Fresh(file)
<1>1. Editing(Plain, e)
  BY FreshType
<1>2. /\ e.text = file /\ e.cursor = <<0, 0>> /\ e.anchor = <<0, 0>>
      /\ e.undo = o /\ e.redo = o
  BY DEF Fresh
<1>3. Len(o) = 0
  BY EmptySeq
<1>4. <<0, 0>> \in Positions(file)
  BY TextStarts
<1> HIDE DEF e, o
<1>5. Undoes(e.text, e.undo) /\ Redoes(e.text, e.redo)
  BY <1>2, <1>3 DEF Undoes, Redoes
<1> QED
  BY <1>1, <1>2, <1>4, <1>5 DEF Exact, Steady, e

LEMMA SteadyPrompted ==
  ASSUME Steady(ed), NEW e \in Prompted(ed)
  PROVE  Steady(e)
<1>1. CASE e = ed
  BY <1>1
<1>2. CASE e \in Found(ed)
  <2>1. PICK p \in Patterns : e \in {FindNext(ed, p), FindPrev(ed, p)}
    BY <1>2 DEF Found
  <2>2. Len(p) \in Nat
    BY CharactersAre
  <2> QED
    BY <2>1, <2>2, FindMoves, SteadyMoved DEF Steady
<1>3. CASE e \in Replacing(ed)
  <2>1. PICK p \in Patterns, new \in Replacements : e = ReplaceCurrent(ed, p, new)
    BY <1>3 DEF Replacing
  <2>2. Len(p) \in Nat /\ new \in Seq(Plain)
    BY <2>1, CharactersAre, PlainAre
  <2> QED
    BY <2>1, <2>2, SteadyReplaceCurrent
<1>4. CASE e \in Lines(ed)
  BY <1>4, LinesMove, SteadyMoved DEF Steady
<1> QED
  BY <1>1, <1>2, <1>3, <1>4 DEF Prompted

LEMMA AstrayGrows ==
  ASSUME [Next]_vars, astray' = {}
  PROVE  astray = {} \/ Load
<1>1. ASSUME NEW e, NEW noted, Strays(e, noted)
      PROVE  astray = {}
  BY <1>1 DEF Strays
<1>2. CASE Next
  BY <1>1, <1>2 DEF Next, TypeChar, TabKey, BackspaceKey, DeleteKey, Paste, CutKey,
     UndoKey, RedoKey, ArrowKeys, PointAt, SelectAll, FindKey, EnterKey,
     ReplaceAllKey, CheckKey, Save, Becomes
<1>3. CASE UNCHANGED vars
  BY <1>3 DEF vars
<1> QED
  BY <1>2, <1>3

LEMMA ExactStep ==
  ASSUME Straight, [Next]_vars
  PROVE  Straight'
<1> SUFFICES ASSUME astray' = {}
             PROVE  Exact(ed)'
  BY DEF Straight
<1>b. CASE Load
  <2>1. PICK file \in Files : ed' = Fresh(file)
    BY <1>b DEF Load
  <2> QED
    BY <2>1, PlainAre, ExactFresh
<1> SUFFICES ASSUME astray = {}
             PROVE  Exact(ed)'
  BY <1>b, AstrayGrows
<1>a. Exact(ed)
  BY DEF Straight
<1>0. /\ Steady(ed) /\ Editing(Plain, ed) /\ ed.text \in Seq(Plain)
      /\ ed.cursor \in Positions(ed.text) /\ ed.anchor \in Positions(ed.text)
  BY <1>a DEF Exact, Steady, Editing
<1>1. ASSUME NEW e, NEW noted, Exact(e), Strays(e, noted)
      PROVE  Exact(ed)'
  BY <1>1 DEF Strays
<1>2. CASE TypeChar
  <2>1. PICK c \in Typed : Becomes(DoInsert(ed, <<c>>, "insert"))
    BY <1>2 DEF TypeChar
  <2> DEFINE t == <<c>>
             e == DoInsert(ed, t, "insert")
  <2>2. t \in Seq(Plain)
    BY PlainAre
  <2> HIDE DEF t
  <2>3. Exact(e)
    BY <1>0, <2>2, ExactInsert
  <2>4. Becomes(e)
    BY <2>1 DEF t
  <2> HIDE DEF e
  <2> QED
    BY <1>1, <2>3, <2>4 DEF Becomes
<1>3. CASE TabKey
  BY <1>a, <1>1, <1>3, ExactKeys DEF TabKey, Becomes
<1>4. CASE BackspaceKey
  BY <1>a, <1>1, <1>4, ExactKeys DEF BackspaceKey, Becomes
<1>5. CASE DeleteKey
  BY <1>a, <1>1, <1>5, ExactKeys DEF DeleteKey, Becomes
<1>6. CASE Paste
  <2>1. PICK text \in ({Unix(clip) : clip \in Clips} \cup {Selected(ed)}) \ {<<>>} :
               Strays(DoInsert(ed, text, "none"),
                      Noted("return", Return \in ToSet(text)))
    BY <1>6 DEF Paste
  <2>2. Selected(ed) \in Seq(Plain)
    <3>1. ed.cursor \in Place /\ ed.anchor \in Place
      BY <1>0 DEF Editing
    <3>2. SelStart(ed) \in Place /\ SelEnd(ed) \in Place
      BY <3>1, SelectionType
    <3> QED
      BY <1>0, <3>2, BetweenType DEF Selected
  <2>3. text \in Seq(Plain)
    <3>1. CASE text = Selected(ed)
      BY <2>2, <3>1
    <3>2. CASE text \in {Unix(clip) : clip \in Clips}
      <4>1. text \in Seq(Characters)
        BY <3>2, CharactersAre
      <4>2. Return \notin ToSet(text)
        BY <2>1 DEF Strays, Noted
      <4> QED
        BY <4>1, <4>2, PlainAre
    <3> QED
      BY <2>1, <3>1, <3>2
  <2>4. Exact(DoInsert(ed, text, "none"))
    BY <1>0, <2>3, ExactInsert
  <2> QED
    BY <1>1, <2>1, <2>4
<1>7. CASE CutKey
  BY <1>0, <1>1, <1>7, SteadyDelete DEF CutKey, Becomes
<1>8. CASE UndoKey
  BY <1>a, <1>1, <1>8, ExactUndone DEF UndoKey, Becomes
<1>9. CASE RedoKey
  <2>1. /\ ed.redo # <<>>
        /\ Strays(Redone(ed), Noted("redo", Last(ed.redo).kind = "deleted"))
    BY <1>9 DEF RedoKey
  <2>2. Last(ed.redo).kind # "deleted"
    BY <2>1 DEF Strays, Noted
  <2>3. Last(ed.redo).kind = "inserted"
    <3>1. ed.redo \in Seq(Entry(Plain)) /\ Redoes(ed.text, ed.redo)
      BY <1>a DEF Exact, Steady, Editing
    <3>2. Last(ed.redo) \in Entry(Plain)
      BY <2>1, <3>1, RedoesLast
    <3> QED
      BY <2>2, <3>2, EntryIs
  <2>4. Exact(Redone(ed))
    BY <1>a, <2>1, <2>3, ExactRedone
  <2> QED
    BY <1>1, <2>1, <2>4
<1>10. ASSUME NEW pos \in {ed.cursor, ed.anchor} \cup Positions(ed.text), NEW extend,
              Becomes(SetCursor(ed, pos, extend))
       PROVE  Exact(ed)'
  <2>1. Moved(ed, SetCursor(ed, pos, extend))
    BY <1>0, SetCursorMoves DEF Editing
  <2>2. Exact(SetCursor(ed, pos, extend))
    BY <1>a, <2>1, SteadyMoved
  <2> QED
    BY <1>1, <1>10, <2>2 DEF Becomes
<1>11. CASE ArrowKeys
  <2>1. /\ Hops(ed) \subseteq Positions(ed.text)
        /\ SelStart(ed) \in {ed.cursor, ed.anchor}
        /\ SelEnd(ed) \in {ed.cursor, ed.anchor}
    BY <1>0, HopsAre, SelectionType
  <2>2. CASE \E pos \in Hops(ed) : Becomes(SetCursor(ed, pos, TRUE))
    BY <1>10, <2>1, <2>2
  <2>3. CASE \E pos \in IF Selecting(ed) THEN {SelStart(ed), SelEnd(ed)} ELSE Hops(ed) :
               Becomes(SetCursor(ed, pos, FALSE))
    BY <1>10, <2>1, <2>3
  <2> QED
    BY <1>11, <2>2, <2>3 DEF ArrowKeys
<1>12. CASE PointAt
  BY <1>10, <1>12 DEF PointAt
<1>13. CASE SelectAll
  <2> DEFINE e == [ed EXCEPT !.anchor = <<0, 0>>, !.coalesce = "none",
                             !.cursor = PosOf(ed.text, Len(ed.text))]
  <2>1. Becomes(e)
    BY <1>13 DEF SelectAll
  <2>2. Moved(ed, e)
    BY <1>0, SelectAllMoves
  <2> HIDE DEF e
  <2>3. Exact(e)
    BY <1>a, <2>2, SteadyMoved
  <2> QED
    BY <1>1, <2>1, <2>3 DEF Becomes
<1>14. CASE FindKey
  <2>1. PICK e \in Found(ed) : Becomes(e)
    BY <1>14 DEF FindKey
  <2>2. PICK p \in Patterns : e \in {FindNext(ed, p), FindPrev(ed, p)}
    BY <2>1 DEF Found
  <2>3. Exact(e)
    BY <1>a, <2>2, CharactersAre, ExactFind
  <2> QED
    BY <1>1, <2>1, <2>3 DEF Becomes
<1>15. CASE EnterKey
  <2>1. PICK e \in Prompted(ed) : Becomes(InsertNewline(e))
    BY <1>15 DEF EnterKey, Prompted
  <2>2. Exact(InsertNewline(e))
    BY <1>0, SteadyPrompted, ExactNewline
  <2> QED
    BY <1>1, <2>1, <2>2 DEF Becomes
<1>16. CASE ReplaceAllKey
  <2>1. PICK pattern \in Patterns, new \in Replacements :
               Strays(ReplaceEach(ed, pattern, new),
                      Noted("replace", /\ new = <<>> /\ ed.redo # <<>>
                                       /\ Hits(ed.text, pattern) # {}))
    BY <1>16 DEF ReplaceAllKey
  <2>2. Len(pattern) \in Nat /\ new \in Seq(Plain) /\ Len(ed.text) \in Nat
    BY <1>0, CharactersAre, PlainAre, ElementsOf
  <2>3. new # <<>> \/ ed.redo = <<>> \/ Hits(ed.text, pattern) = {}
    BY <2>1 DEF Strays, Noted
  <2>4. ASSUME new # <<>> \/ ed.redo = <<>>
        PROVE  Exact(ReplaceEach(ed, pattern, new))
    BY <1>a, <2>2, <2>4, ExactReplaceEach
  <2>5. ASSUME Hits(ed.text, pattern) = {}
        PROVE  Exact(ReplaceEach(ed, pattern, new))
    BY <1>a, <2>2, <2>5, ReplaceEachNothing
  <2>6. Exact(ReplaceEach(ed, pattern, new))
    BY <2>3, <2>4, <2>5
  <2> QED
    BY <1>1, <2>1, <2>6
<1>17. ASSUME ed' \in {ed, [ed EXCEPT !.stale = FALSE],
                       [ed EXCEPT !.dirty = FALSE, !.stale = FALSE]}
       PROVE  Exact(ed)'
  <2>1. Editing(Plain, ed)'
    BY <1>0, <1>17 DEF Editing, Marks, Fields
  <2>2. /\ ed'.text = ed.text /\ ed'.cursor = ed.cursor /\ ed'.anchor = ed.anchor
        /\ ed'.undo = ed.undo /\ ed'.redo = ed.redo
    BY <1>0, <1>17 DEF Editing, Marks, Fields
  <2> QED
    BY <1>a, <2>1, <2>2 DEF Exact, Steady
<1>18. CASE CheckKey
  BY <1>17, <1>18 DEF CheckKey
<1>19. CASE Save
  BY <1>17, <1>19 DEF Save
<1>21. CASE UNCHANGED vars
  BY <1>a, <1>21 DEF vars
<1> QED
  BY <1>2, <1>3, <1>4, <1>5, <1>6, <1>7, <1>8, <1>9, <1>11, <1>12, <1>13, <1>14,
     <1>15, <1>16, <1>18, <1>19, <1>21, <1>b DEF Next

(* Until the history goes astray the editing state is exact: the inductive *)
(* invariant behind the text and its history.                              *)
THEOREM StraightAlways == Spec => []Straight
<1>1. Init => Straight
  BY PlainAre, ExactFresh DEF Init, Straight
<1>2. Straight /\ [Next]_vars => Straight'
  BY ExactStep
<1> QED
  BY <1>1, <1>2, PTL DEF Spec

LEMMA EndsAsSaid ==
  ASSUME Exact(ed)
  PROVE  EndsAgree
<1> DEFINE u == ed.undo
<1>1. u \in Seq(Entry(Plain)) /\ Undoes(ed.text, u)
  BY DEF Exact, Steady, Editing
<1>2. DOMAIN u = 1 .. Len(u) /\ \A i \in 1 .. Len(u) : u[i] \in Entry(Plain)
  BY <1>1, ElementsOf
<1>3. SUFFICES ASSUME NEW i \in DOMAIN u, u[i].kind = "inserted"
               PROVE  u[i].end = PosOf(u[i].now, OffsetOf(u[i].was, u[i].start)
                                                   + Len(Unix(u[i].text)))
  BY DEF EndsAgree
<1> DEFINE op == u[i]
<1>4. op \in Entry(Plain) /\ Sound(op)
  BY <1>1, <1>2 DEF Undoes
<1> HIDE DEF u
<1>5. op.kind = "inserted"
  BY <1>3
<1>6. op.text \in Seq(Plain)
  BY <1>4, EntryIs
<1> HIDE DEF op
<1>7. PICK pre, post \in Seq(Plain) : Inserts(op, pre, post)
  BY <1>4, <1>5 DEF Sound
<1>8. OffsetOf(op.was, op.start) = Len(pre)
  <2>1. op.was = pre \o post /\ op.start = PosOf(op.was, Len(pre))
    BY <1>7 DEF Inserts, Joins
  <2>2. OffsetOf(pre \o post, PosOf(pre \o post, Len(pre))) = Len(pre)
    BY PosBehind
  <2> QED
    BY <2>1, <2>2
<1>9. Unix(op.text) = op.text
  BY <1>6, PlainIs, UnixSame
<1> QED
  BY <1>7, <1>8, <1>9 DEF Inserts, op

LEMMA HistoryIsExact ==
  ASSUME Exact(ed)
  PROVE  HistoryExact
<1> DEFINE u == ed.undo
           r == ed.redo
<1>1. /\ u \in Seq(Entry(Plain)) /\ r \in Seq(Entry(Plain))
      /\ Undoes(ed.text, u) /\ Redoes(ed.text, r)
  BY DEF Exact, Steady, Editing
<1>2. DOMAIN u = 1 .. Len(u) /\ DOMAIN r = 1 .. Len(r)
  BY <1>1, ElementsOf
<1>3. \A i \in DOMAIN u :
        u[i].now = IF i = Len(u) THEN ed.text ELSE u[i + 1].was
  BY <1>1, <1>2 DEF Undoes
<1>4. \A i \in DOMAIN r :
        r[i].was = IF i = Len(r) THEN ed.text ELSE r[i + 1].now
  BY <1>1, <1>2 DEF Redoes
<1>5. u # <<>> => Undone(ed).text = Last(u).was
  BY ExactUndone
<1>6. r # <<>> /\ Last(r).kind = "inserted" => Redone(ed).text = Last(r).now
  BY ExactRedone
<1> QED
  BY <1>3, <1>4, <1>5, <1>6, EndsAsSaid
     DEF HistoryExact, EntriesChain, UndoGoesBack, RedoReturns


-----------------------------------------------------------------------------
(* Theorems.                                                               *)

(* A text without the mark of a modification is what the file holds: every *)
(* handler that touches the text sets the mark, and only a save or a load  *)
(* takes it away (save_to, load_from).                                     *)
THEOREM CleanMeansSavedHolds == Spec => []CleanMeansSaved
<1>1. Clean => CleanMeansSaved
  BY DEF Clean
<1> QED
  BY <1>1, CleanAlways, PTL

(* Diagnostics that are not greyed out are those of the text that is there:*)
(* splice_in and splice_out grey them out whenever they change it, and     *)
(* only run_check brings new ones.                                         *)
THEOREM DiagnosticsCurrentHolds == Spec => []DiagnosticsCurrent
<1>1. Clean => DiagnosticsCurrent
  BY DEF Clean
<1> QED
  BY <1>1, CleanAlways, PTL

(* Whatever is typed, pasted, cut, undone, redone, found and replaced, the *)
(* cursor and the anchor are on characters of the text or behind its last: *)
(* do_insert computes where the cursor goes from the lines of what it      *)
(* inserts, undo and redo take it from the entries of their stacks.  It    *)
(* holds until a deletion is redone, hits are replaced by nothing with     *)
(* something to redo, or a return alone is pasted, and again from the next *)
(* load on.                                                                *)
THEOREM CursorInTextHolds == Spec => []CursorInText
<1>1. Straight => CursorInText
  BY DEF Straight, Exact, Steady, CursorInText
<1> QED
  BY <1>1, StraightAlways, PTL

(* Undo goes back through the texts there were, one entry at a time, and   *)
(* redo comes forward through them, however often typing and backspaces    *)
(* were merged into one entry and the oldest entries dropped; what an      *)
(* entry inserted ends where the entry says, which is where undo cuts      *)
(* (splice_in, push_undo, do_insert, backspace, undo, redo).  It holds as  *)
(* long as the theorem above.                                              *)
THEOREM HistoryExactHolds == Spec => []HistoryExact
<1>1. Straight => HistoryExact
  <2>1. ASSUME Straight, astray = {}
        PROVE  HistoryExact
    BY <2>1, HistoryIsExact DEF Straight
  <2> QED
    BY <2>1 DEF HistoryExact
<1> QED
  BY <1>1, StraightAlways, PTL

=============================================================================
