--------------------------- MODULE ObjectHeapProofs ---------------------------
(***************************************************************************)
(* Machine-checked proofs that no reference of a program dangles and that  *)
(* the clusters of GcHeap implement the objects of ObjectHeap, for heaps   *)
(* of any size.                                                            *)
(*                                                                         *)
(* All of it is for as long as no allocation has left a sliver and no      *)
(* reference has been stored in a field its TypeDesc does not list: until  *)
(* then such fields are null, and the marker misses nothing by passing     *)
(* them over.                                                              *)
(***************************************************************************)
EXTENDS GcHeapProofs

-----------------------------------------------------------------------------
(* What can be reached from R along the edges E, inside X, and the chain   *)
(* of sets in which a marker finds it.                                     *)

Closed(X, E, Z) == \A a \in Z : \A b \in X : <<a, b>> \in E => b \in Z

Reach(X, R, E) == {b \in X : \A Z \in SUBSET X : R \subseteq Z /\ Closed(X, E, Z) => b \in Z}

Beyond(X, E, A) == {b \in X : \E a \in A : <<a, b>> \in E}

Chain(g, X, R, E) ==
  g = [n \in Nat |-> IF n = 0 THEN R ELSE g[n - 1] \cup Beyond(X, E, g[n - 1])]

IsPath(p, n, R, E) ==
  /\ p[0] \in R
  /\ \A i \in 0 .. n : i < n => p[i + 1] = p[i] \/ <<p[i], p[i + 1]>> \in E

(* The sets of the ends of paths make such a chain.                        *)
LEMMA ChainExists ==
  ASSUME NEW X, NEW R \in SUBSET X, NEW E
  PROVE  \E g : Chain(g, X, R, E)
<1> DEFINE g == [n \in Nat |-> {b \in X : \E p \in [0 .. n -> X] : IsPath(p, n, R, E) /\ p[n] = b}]
<1>1. g[0] = R
  <2>1. ASSUME NEW b \in R
        PROVE  b \in g[0]
    <3> DEFINE p == [i \in 0 .. 0 |-> b]
    <3>1. p \in [0 .. 0 -> X] /\ IsPath(p, 0, R, E) /\ p[0] = b
      BY <2>1 DEF IsPath
    <3> QED
      BY <3>1
  <2>2. \A b \in g[0] : b \in R
    BY DEF IsPath
  <2> QED
    BY <2>1, <2>2
<1>2. ASSUME NEW n \in Nat, n # 0
      PROVE  g[n] = g[n - 1] \cup Beyond(X, E, g[n - 1])
  <2> DEFINE m == n - 1
  <2>1. m \in Nat /\ n = m + 1
    BY <1>2
  <2>2. ASSUME NEW b \in g[n]
        PROVE  b \in g[m] \cup Beyond(X, E, g[m])
    <3>1. PICK p \in [0 .. n -> X] : IsPath(p, n, R, E) /\ p[n] = b
      OBVIOUS
    <3> DEFINE q == [i \in 0 .. m |-> p[i]]
    <3>2. q \in [0 .. m -> X] /\ IsPath(q, m, R, E) /\ q[m] = p[m]
      BY <2>1, <3>1 DEF IsPath
    <3>3. p[m] \in X
      BY <2>1
    <3>4. p[m] \in g[m]
      BY <2>1, <3>2, <3>3
    <3>5. p[m + 1] = p[m] \/ <<p[m], p[m + 1]>> \in E
      BY <2>1, <3>1 DEF IsPath
    <3> QED
      BY <2>1, <3>1, <3>4, <3>5 DEF Beyond
  <2>3. ASSUME NEW b \in X, NEW a \in g[m], b = a \/ <<a, b>> \in E
        PROVE  b \in g[n]
    <3>1. PICK p \in [0 .. m -> X] : IsPath(p, m, R, E) /\ p[m] = a
      BY <2>1
    <3> DEFINE q == [i \in 0 .. n |-> IF i = n THEN b ELSE p[i]]
    <3>2. q \in [0 .. n -> X] /\ q[n] = b
      BY <2>1
    <3>3. \A i \in 0 .. m : q[i] = p[i]
      BY <2>1
    <3>4. IsPath(q, n, R, E)
      <4>1. q[0] \in R
        BY <2>1, <3>1, <3>3 DEF IsPath
      <4>2. ASSUME NEW i \in 0 .. n, i < n
            PROVE  q[i + 1] = q[i] \/ <<q[i], q[i + 1]>> \in E
        <5>1. CASE i = m
          BY <5>1, <2>1, <2>3, <3>1, <3>2, <3>3
        <5>2. CASE i # m
          <6>1. i \in 0 .. m /\ i + 1 \in 0 .. m /\ i < m
            BY <5>2, <4>2, <2>1
          <6> QED
            BY <6>1, <3>1, <3>3 DEF IsPath
        <5> QED
          BY <5>1, <5>2
      <4> QED
        BY <4>1, <4>2 DEF IsPath
    <3> QED
      BY <3>2, <3>4
  <2>4. g[m] \subseteq X
    BY <2>1
  <2> QED
    BY <2>2, <2>3, <2>4 DEF Beyond
<1>3. g = [n \in Nat |-> g[n]]
  OBVIOUS
<1> HIDE DEF g
<1>4. \A n \in Nat : g[n] = IF n = 0 THEN R ELSE g[n - 1] \cup Beyond(X, E, g[n - 1])
  BY <1>1, <1>2
<1> QED
  BY <1>3, <1>4 DEF Chain

LEMMA ChainSteps ==
  ASSUME NEW X, NEW R, NEW E, NEW g, Chain(g, X, R, E)
  PROVE  /\ g[0] = R
         /\ \A n \in Nat : g[n + 1] = g[n] \cup Beyond(X, E, g[n])
<1>1. \A n \in Nat : n + 1 \in Nat /\ n + 1 # 0 /\ n + 1 - 1 = n
  OBVIOUS
<1> DEFINE Step(n) == IF n = 0 THEN R ELSE g[n - 1] \cup Beyond(X, E, g[n - 1])
<1>2. g = [n \in Nat |-> Step(n)]
  BY DEF Chain
<1> HIDE DEF Step
<1>3. \A n \in Nat : g[n] = Step(n)
  BY <1>2
<1> USE DEF Step
<1>4. g[0] = R
  BY <1>3
<1>5. ASSUME NEW n \in Nat
      PROVE  g[n + 1] = g[n] \cup Beyond(X, E, g[n])
  <2>1. g[n + 1] = Step(n + 1)
    BY <1>1, <1>3
  <2> QED
    BY <1>1, <2>1
<1> QED
  BY <1>4, <1>5

LEMMA ChainInside ==
  ASSUME NEW X, NEW R \in SUBSET X, NEW E, NEW g, Chain(g, X, R, E)
  PROVE  \A n \in Nat : g[n] \in SUBSET X
<1>0. /\ g[0] = R
      /\ \A n \in Nat : g[n + 1] = g[n] \cup Beyond(X, E, g[n])
  BY ChainSteps
<1> DEFINE Inside == {n \in Nat : g[n] \in SUBSET X}
<1>1. 0 \in Inside
  BY <1>0
<1>2. \A n \in Inside : n + 1 \in Inside
  BY <1>0 DEF Beyond
<1>3. Inside \in SUBSET Nat
  OBVIOUS
<1> HIDE DEF Inside
<1>4. Inside = Nat
  BY <1>1, <1>2, <1>3, SetInduction
<1> QED
  BY <1>4 DEF Inside

Follows(f, X, R, E) ==
  /\ f[0] = R
  /\ \A n \in Nat : f[n] \in SUBSET X => f[n + 1] = f[n] \cup Beyond(X, E, f[n])

(* Whatever takes the same steps inside X finds the same.                  *)
LEMMA ChainFollowed ==
  ASSUME NEW X, NEW R \in SUBSET X, NEW E, NEW g, Chain(g, X, R, E),
         NEW f, Follows(f, X, R, E)
  PROVE  \A n \in Nat : f[n] = g[n]
<1>0. /\ g[0] = R
      /\ \A n \in Nat : g[n + 1] = g[n] \cup Beyond(X, E, g[n])
      /\ \A n \in Nat : g[n] \in SUBSET X
  <2>1. \A n \in Nat : g[n] \in SUBSET X
    BY ChainInside
  <2>2. g[0] = R /\ \A n \in Nat : g[n + 1] = g[n] \cup Beyond(X, E, g[n])
    BY ChainSteps
  <2> QED
    BY <2>1, <2>2
<1> DEFINE Same == {n \in Nat : f[n] = g[n]}
<1>1. 0 \in Same
  BY <1>0 DEF Follows
<1>2. ASSUME NEW n \in Same
      PROVE  n + 1 \in Same
  <2>1. f[n] = g[n] /\ g[n] \in SUBSET X /\ n + 1 \in Nat
    BY <1>0
  <2> QED
    BY <2>1, <1>0 DEF Follows
<1>3. Same \in SUBSET Nat
  OBVIOUS
<1> HIDE DEF Same
<1>4. Same = Nat
  BY <1>1, <1>2, <1>3, SetInduction
<1> QED
  BY <1>4 DEF Same

(* A chain that is at least as long as X is large has found everything.    *)
LEMMA ChainIsReach ==
  ASSUME NEW X, IsFiniteSet(X), NEW R \in SUBSET X, NEW E,
         NEW g, Chain(g, X, R, E),
         NEW N \in Nat, N >= Cardinality(X)
  PROVE  g[N] = Reach(X, R, E)
<1> DEFINE Full == {n \in Nat : /\ g[n] \subseteq X /\ R \subseteq g[n]
                                /\ \A Z \in SUBSET X :
                                     R \subseteq Z /\ Closed(X, E, Z) => g[n] \subseteq Z
                                /\ Closed(X, E, g[n]) \/ Cardinality(g[n]) >= n}
<1>0. /\ g[0] = R
      /\ \A n \in Nat : g[n + 1] = g[n] \cup Beyond(X, E, g[n])
  BY ChainSteps
<1>1. \A A \in SUBSET X : IsFiniteSet(A) /\ Cardinality(A) \in Nat /\ Cardinality(A) <= Cardinality(X)
  BY FS_Subset, FS_CardinalityType
<1>2. 0 \in Full
  BY <1>0, <1>1
<1>3. ASSUME NEW n \in Full
      PROVE  n + 1 \in Full
  <2> DEFINE A == g[n]
             B == g[n + 1]
  <2>1. /\ A \subseteq X /\ R \subseteq A
        /\ \A Z \in SUBSET X : R \subseteq Z /\ Closed(X, E, Z) => A \subseteq Z
        /\ Closed(X, E, A) \/ Cardinality(A) >= n
    OBVIOUS
  <2>2. B = A \cup Beyond(X, E, A)
    BY <1>0
  <2> HIDE DEF A, B
  <2>3. B \subseteq X /\ R \subseteq B
    BY <2>1, <2>2 DEF Beyond
  <2>4. \A Z \in SUBSET X : R \subseteq Z /\ Closed(X, E, Z) => B \subseteq Z
    BY <2>1, <2>2 DEF Beyond, Closed
  <2>5. Closed(X, E, B) \/ Cardinality(B) >= n + 1
    <3>1. CASE Closed(X, E, A)
      <4>1. B = A
        BY <3>1, <2>2 DEF Beyond, Closed
      <4> QED
        BY <3>1, <4>1
    <3>2. CASE ~Closed(X, E, A)
      <4>1. PICK b \in X : b \in B /\ b \notin A
        BY <3>2, <2>2 DEF Beyond, Closed
      <4>2. Cardinality(A \cup {b}) = Cardinality(A) + 1
        BY <4>1, <1>1, <2>1, FS_AddElement
      <4>3. A \cup {b} \in SUBSET B /\ IsFiniteSet(B)
        BY <4>1, <2>2, <2>3, <1>1
      <4>4. Cardinality(A \cup {b}) <= Cardinality(B)
        BY <4>3, FS_Subset
      <4>5. Cardinality(A) \in Nat /\ Cardinality(B) \in Nat /\ Cardinality(A) >= n
        BY <1>1, <2>1, <2>3, <3>2
      <4> QED
        BY <4>2, <4>4, <4>5
    <3> QED
      BY <3>1, <3>2
  <2>6. n + 1 \in Nat
    OBVIOUS
  <2> QED
    BY <2>3, <2>4, <2>5, <2>6 DEF B
<1>4. Full = Nat
  <2> HIDE DEF Full
  <2>1. Full \in SUBSET Nat
    BY DEF Full
  <2> QED
    BY <1>2, <1>3, <2>1, SetInduction
<1>5. /\ g[N] \subseteq X /\ R \subseteq g[N]
      /\ \A Z \in SUBSET X : R \subseteq Z /\ Closed(X, E, Z) => g[N] \subseteq Z
      /\ Closed(X, E, g[N]) \/ Cardinality(g[N]) >= N
  <2>1. N \in Full
    BY <1>4
  <2> QED
    BY <2>1
<1>6. Closed(X, E, g[N])
  <2> SUFFICES ASSUME Cardinality(g[N]) >= N
               PROVE  Closed(X, E, g[N])
    BY <1>5
  <2>1. Cardinality(g[N]) = Cardinality(X)
    BY <1>1, <1>5
  <2>2. g[N] = X
    BY <1>5, <2>1, FS_Subset
  <2> QED
    BY <2>2 DEF Closed
<1> QED
  BY <1>5, <1>6 DEF Reach

(* What is reached is closed, holds the roots, and is in every such set.   *)
LEMMA ReachParts ==
  ASSUME NEW X, NEW R \in SUBSET X, NEW E
  PROVE  /\ Reach(X, R, E) \subseteq X /\ R \subseteq Reach(X, R, E)
         /\ Closed(X, E, Reach(X, R, E))
         /\ \A Z \in SUBSET X : R \subseteq Z /\ Closed(X, E, Z) => Reach(X, R, E) \subseteq Z
BY DEF Reach, Closed

-----------------------------------------------------------------------------
(* References between blocks.                                              *)

FieldOf(cs, a) == cs[a[1]].field[a[2]]

(* p points into the payload of the block at a.                            *)
At(cs, p, a) == \E u \in a[2] + 1 .. a[2] + Hdr(cs, a).size - 1 : p = <<a[1], u>>

Into(cs, p) == \E a \in UsedIn(cs) : At(cs, p, a)
Onto(cs, p) == \E a \in UsedIn(cs) : p = Payload(a)

(* References lead to blocks in use: those of module variables and of      *)
(* fields to the start of the payload, those on the stack anywhere into    *)
(* it.  A field that the TypeDesc does not list has none.  And a block in  *)
(* use has just the size its type asks for.                                *)
ValidIn(cs, held) ==
  /\ \A s \in Stack : held[s] = Null \/ Into(cs, held[s])
  /\ \A s \in Globals : held[s] = Null \/ Onto(cs, held[s])
  /\ \A a \in UsedIn(cs) : /\ FieldOf(cs, a) = Null \/ Onto(cs, FieldOf(cs, a))
                           /\ FieldOf(cs, a) = Null \/ Hdr(cs, a).tag \in Traced
                           /\ Hdr(cs, a).size = Hdr(cs, a).tag

RefsValid == ValidIn(clusters, slots)

RootsIn(cs, held) == {a \in UsedIn(cs) : \E s \in Slots : At(cs, held[s], a)}

Edges(cs) == {e \in UsedIn(cs) \X UsedIn(cs) : FieldOf(cs, e[1]) = Payload(e[2])}

ReachIn(cs, held) == Reach(UsedIn(cs), RootsIn(cs, held), Edges(cs))

(* Two blocks in use do not overlap.                                       *)
LEMMA BlocksApart ==
  ASSUME NEW cs, SoundClusters(cs), Len(cs) <= MaxClusters
  PROVE  /\ \A a \in UsedIn(cs) :
              /\ a \in Addresses /\ a # Null
              /\ a = <<a[1], a[2]>> /\ a[1] \in 1 .. Len(cs) /\ a[2] \in Nat
              /\ Hdr(cs, a).size \in Nat /\ Hdr(cs, a).size >= 2
              /\ a[2] + Hdr(cs, a).size <= Units
         /\ \A a, b \in UsedIn(cs) :
              a # b /\ a[1] = b[1] => \/ a[2] + Hdr(cs, a).size <= b[2]
                                     \/ b[2] + Hdr(cs, b).size <= a[2]
<1>0. Len(cs) \in Nat /\ Units \in Nat /\ MaxClusters \in Nat /\ Null \notin Addresses
  BY UsedInIff, HeapAssumption
<1>1. ASSUME NEW a \in UsedIn(cs)
      PROVE  /\ a \in Addresses /\ a # Null
             /\ a = <<a[1], a[2]>> /\ a[1] \in 1 .. Len(cs) /\ a[2] \in Nat
             /\ Hdr(cs, a) = cs[a[1]].hdr[a[2]]
             /\ Hdr(cs, a).size \in Nat /\ Hdr(cs, a).size >= 2
             /\ a[2] + Hdr(cs, a).size <= Units
             /\ a[2] \in cs[a[1]].starts
  <2> DEFINE c == cs[a[1]]
             o == a[2]
             n == c.hdr[o].size
  <2>1. /\ a = <<a[1], o>> /\ a[1] \in 1 .. Len(cs) /\ o \in Offsets
        /\ Hdr(cs, a) = c.hdr[o] /\ o \in c.starts
        /\ c \in Cluster /\ Sound(c)
    BY UsedInIff DEF UsedOf
  <2> HIDE DEF c, o
  <2>2. /\ o \in Nat /\ n \in Nat /\ n >= 2 /\ EndOf(c, o) <= c.bump /\ c.bump <= Units
        /\ c.bump \in Nat /\ EndOf(c, o) = o + n
    BY <2>1, StartParts, ClusterParts DEF Sound, Shape, EndOf
  <2> HIDE DEF n
  <2>3. o + n <= Units
    BY <1>0, <2>2
  <2>4. a \in Addresses
    BY <1>0, <2>1 DEF Addresses, Offsets
  <2> QED
    BY <1>0, <2>1, <2>2, <2>3, <2>4 DEF n, o, c
<1>2. ASSUME NEW a \in UsedIn(cs), NEW b \in UsedIn(cs), a # b, a[1] = b[1]
      PROVE  \/ a[2] + Hdr(cs, a).size <= b[2]
             \/ b[2] + Hdr(cs, b).size <= a[2]
  <2> DEFINE c == cs[a[1]]
  <2>1. Tiled(c) /\ a[2] \in c.starts /\ b[2] \in c.starts
    BY <1>1, <1>2, UsedInIff DEF Sound, Shape
  <2>2. a[2] # b[2] /\ a[2] \in Nat /\ b[2] \in Nat
    BY <1>1, <1>2
  <2> HIDE DEF c
  <2>3. a[2] < b[2] \/ b[2] < a[2]
    BY <2>2
  <2>4. EndOf(c, a[2]) <= b[2] \/ EndOf(c, b[2]) <= a[2]
    BY <2>1, <2>3 DEF Tiled
  <2> QED
    BY <1>1, <1>2, <2>4 DEF EndOf, c
<1> QED
  BY <1>1, <1>2

(* A pointer leads into one block at most; Resolve and Owner name it.      *)
LEMMA AtUnique ==
  ASSUME NEW cs, SoundClusters(cs), Len(cs) <= MaxClusters, NEW p
  PROVE  /\ \A a \in UsedIn(cs) : At(cs, Payload(a), a)
         /\ \A a, b \in UsedIn(cs) : At(cs, p, a) /\ At(cs, p, b) => a = b
         /\ \A a \in UsedIn(cs) : At(cs, p, a) =>
              /\ p # Null /\ p[1] = a[1] /\ p[2] \in Offsets
              /\ Resolve(cs[p[1]], p[2]) = {a[2]}
<1>1. /\ \A a \in UsedIn(cs) :
           /\ a = <<a[1], a[2]>> /\ a[1] \in 1 .. Len(cs) /\ a[2] \in Nat
           /\ Hdr(cs, a).size \in Nat /\ Hdr(cs, a).size >= 2
           /\ a[2] + Hdr(cs, a).size <= Units
      /\ \A a, b \in UsedIn(cs) :
           a # b /\ a[1] = b[1] => \/ a[2] + Hdr(cs, a).size <= b[2]
                                  \/ b[2] + Hdr(cs, b).size <= a[2]
      /\ Units \in Nat /\ Len(cs) \in Nat
  BY BlocksApart, HeapAssumption, UsedInIff
<1>2. ASSUME NEW a \in UsedIn(cs)
      PROVE  At(cs, Payload(a), a)
  <2>1. a[2] + 1 \in a[2] + 1 .. a[2] + Hdr(cs, a).size - 1
    BY <1>1
  <2> QED
    BY <2>1 DEF At, Payload
<1>3. ASSUME NEW a \in UsedIn(cs), NEW b \in UsedIn(cs), At(cs, p, a), At(cs, p, b)
      PROVE  a = b
  <2> DEFINE m == Hdr(cs, a).size
             n == Hdr(cs, b).size
  <2>1. PICK u \in a[2] + 1 .. a[2] + m - 1 : p = <<a[1], u>>
    BY <1>3 DEF At
  <2>2. PICK v \in b[2] + 1 .. b[2] + n - 1 : p = <<b[1], v>>
    BY <1>3 DEF At
  <2>3. u = v /\ a[1] = b[1]
    BY <2>1, <2>2
  <2>4. /\ a[2] \in Nat /\ b[2] \in Nat /\ m \in Nat /\ n \in Nat
        /\ a # b => a[2] + m <= b[2] \/ b[2] + n <= a[2]
    BY <1>1, <2>3
  <2> DEFINE x == a[2]
             y == b[2]
  <2>5. /\ x \in Nat /\ y \in Nat /\ m \in Nat /\ n \in Nat
        /\ v \in x + 1 .. x + m - 1 /\ v \in y + 1 .. y + n - 1
    BY <2>1, <2>2, <2>3, <2>4
  <2>6. a # b => x + m <= y \/ y + n <= x
    BY <2>4
  <2> HIDE DEF m, n, x, y
  <2>7. ~(x + m <= y \/ y + n <= x)
    BY <2>5
  <2> QED
    BY <2>6, <2>7
<1>4. ASSUME NEW a \in UsedIn(cs), At(cs, p, a)
      PROVE  /\ p # Null /\ p[1] = a[1] /\ p[2] \in Offsets
             /\ Resolve(cs[p[1]], p[2]) = {a[2]}
  <2> DEFINE n == Hdr(cs, a).size
             c == cs[a[1]]
  <2>1. PICK u \in a[2] + 1 .. a[2] + n - 1 : p = <<a[1], u>>
    BY <1>4 DEF At
  <2>2. a[2] \in Nat /\ n \in Nat /\ a[2] + n <= Units
    BY <1>1
  <2> HIDE DEF n
  <2>3. u \in Offsets
    BY <1>1, <2>1, <2>2 DEF Offsets
  <2>4. p[1] = a[1] /\ p[2] = u
    BY <2>1
  <2>5. p \in Addresses
    BY <1>1, <2>1, <2>3, HeapAssumption DEF Addresses, Offsets
  <2>6. Sound(c) /\ a[2] \in UsedOf(c) /\ n = c.hdr[a[2]].size
    BY <1>1, UsedInIff DEF n
  <2>7. Resolve(c, u) = {o \in UsedOf(c) : u \in o + 1 .. o + c.hdr[o].size - 1}
    BY <2>3, <2>6, ResolveFinds DEF Sound
  <2>8. ASSUME NEW o \in UsedOf(c), u \in o + 1 .. o + c.hdr[o].size - 1
        PROVE  o = a[2]
    <3> DEFINE b == <<a[1], o>>
    <3>1. b \in UsedIn(cs) /\ b[1] = a[1] /\ b[2] = o
      BY <1>1, UsedInIff
    <3>2. Hdr(cs, b) = c.hdr[o]
      BY <3>1 DEF Hdr
    <3>3. At(cs, p, b)
      BY <2>1, <2>8, <3>1, <3>2 DEF At
    <3> HIDE DEF b
    <3>4. b = a
      BY <1>3, <1>4, <3>1, <3>3
    <3> QED
      BY <3>1, <3>4
  <2>9. Resolve(c, u) = {a[2]}
    BY <2>1, <2>6, <2>7, <2>8
  <2> QED
    BY <2>3, <2>4, <2>5, <2>9, HeapAssumption
<1> QED
  BY <1>2, <1>3, <1>4

(* The block p refers to, if it refers to one.                             *)
OwnerIn(cs, p) ==
  IF p = Null THEN Null
  ELSE LET hit == Resolve(cs[p[1]], p[2])
       IN IF hit = {} THEN HeaderOf(p) ELSE <<p[1], Max(hit)>>

LEMMA OwnerIs ==
  ASSUME NEW cs, SoundClusters(cs), Len(cs) <= MaxClusters
  PROVE  /\ OwnerIn(cs, Null) = Null
         /\ \A p : \A a \in UsedIn(cs) : At(cs, p, a) => OwnerIn(cs, p) = a /\ p # Null
         /\ \A a \in UsedIn(cs) : OwnerIn(cs, Payload(a)) = a /\ Payload(a) # Null
         /\ Null \notin UsedIn(cs)
<1>1. ASSUME NEW p, NEW a \in UsedIn(cs), At(cs, p, a)
      PROVE  OwnerIn(cs, p) = a /\ p # Null
  <2>1. /\ p # Null /\ p[1] = a[1] /\ Resolve(cs[p[1]], p[2]) = {a[2]}
    BY <1>1, AtUnique
  <2>2. a[2] \in Nat /\ a = <<a[1], a[2]>>
    BY BlocksApart
  <2>3. Max({a[2]}) = a[2]
    <3>1. {a[2]} \in SUBSET Nat /\ {a[2]} # {} /\ \A n \in {a[2]} : n <= a[2]
      BY <2>2
    <3> QED
      BY <2>2, <3>1, MaxIsGreatest
  <2> QED
    BY <2>1, <2>2, <2>3 DEF OwnerIn
<1>2. \A a \in UsedIn(cs) : OwnerIn(cs, Payload(a)) = a /\ Payload(a) # Null
  BY <1>1, AtUnique
<1>3. Null \notin UsedIn(cs)
  BY BlocksApart
<1> QED
  BY <1>1, <1>2, <1>3 DEF OwnerIn

(* A pointer to the start of a payload is one into the payload.            *)
LEMMA OntoInto ==
  ASSUME NEW cs, SoundClusters(cs), Len(cs) <= MaxClusters, NEW p, Onto(cs, p)
  PROVE  Into(cs, p)
BY AtUnique DEF Onto, Into

(* Every reference has the block it leads to for its owner.                *)
LEMMA OwnersOf ==
  ASSUME NEW cs, SoundClusters(cs), Len(cs) <= MaxClusters,
         NEW held, ValidIn(cs, held)
  PROVE  /\ \A s \in Slots : \/ held[s] = Null /\ OwnerIn(cs, held[s]) = Null
                             \/ /\ held[s] # Null /\ OwnerIn(cs, held[s]) \in UsedIn(cs)
                                /\ At(cs, held[s], OwnerIn(cs, held[s]))
         /\ \A s \in Slots : OwnerIn(cs, held[s]) \in {Null} \cup UsedIn(cs)
         /\ RootsIn(cs, held) = {OwnerIn(cs, held[s]) : s \in Slots} \cap UsedIn(cs)
         /\ \A a \in UsedIn(cs) :
              \/ FieldOf(cs, a) = Null /\ OwnerIn(cs, FieldOf(cs, a)) = Null
              \/ /\ OwnerIn(cs, FieldOf(cs, a)) \in UsedIn(cs)
                 /\ FieldOf(cs, a) # Null
                 /\ FieldOf(cs, a) = Payload(OwnerIn(cs, FieldOf(cs, a)))
         /\ \A a, b \in UsedIn(cs) :
              <<a, b>> \in Edges(cs) <=> OwnerIn(cs, FieldOf(cs, a)) = b
<1>1. ASSUME NEW s \in Slots
      PROVE  \/ held[s] = Null /\ OwnerIn(cs, held[s]) = Null
             \/ /\ held[s] # Null /\ OwnerIn(cs, held[s]) \in UsedIn(cs)
                /\ At(cs, held[s], OwnerIn(cs, held[s]))
  <2>1. held[s] = Null \/ Into(cs, held[s])
    BY OntoInto DEF Slots, ValidIn
  <2> QED
    BY <2>1, OwnerIs DEF Into
<1>2. \A s \in Slots : \A a \in UsedIn(cs) :
        At(cs, held[s], a) <=> OwnerIn(cs, held[s]) = a
  BY <1>1, OwnerIs
<1>3. RootsIn(cs, held) = {OwnerIn(cs, held[s]) : s \in Slots} \cap UsedIn(cs)
  BY <1>2 DEF RootsIn
<1>4. ASSUME NEW a \in UsedIn(cs)
      PROVE  \/ FieldOf(cs, a) = Null /\ OwnerIn(cs, FieldOf(cs, a)) = Null
             \/ /\ OwnerIn(cs, FieldOf(cs, a)) \in UsedIn(cs)
                /\ FieldOf(cs, a) # Null
                /\ FieldOf(cs, a) = Payload(OwnerIn(cs, FieldOf(cs, a)))
  <2>1. FieldOf(cs, a) = Null \/ Onto(cs, FieldOf(cs, a))
    BY DEF ValidIn
  <2> QED
    BY <2>1, OwnerIs DEF Onto
<1>5. ASSUME NEW a \in UsedIn(cs), NEW b \in UsedIn(cs)
      PROVE  <<a, b>> \in Edges(cs) <=> OwnerIn(cs, FieldOf(cs, a)) = b
  <2>1. <<a, b>> \in Edges(cs) <=> FieldOf(cs, a) = Payload(b)
    BY DEF Edges
  <2> QED
    BY <2>1, <1>4, OwnerIs
<1> QED
  BY <1>1, <1>3, <1>4, <1>5

-----------------------------------------------------------------------------
(* The marker.                                                             *)

Untouched(cs, A) == {a \in A : Hdr(cs, a).tag # 0 /\ ~Hdr(cs, a).mark}

ChildrenIn(cs, A) ==
  {HeaderOf(p) : p \in {cs[a[1]].field[a[2]] :
                          a \in {b \in A : Hdr(cs, b).tag \in Traced}} \ {Null}}

LEMMA RootsFound ==
  ASSUME NEW cs, SoundClusters(cs), Len(cs) <= MaxClusters, ValidIn(cs, slots)
  PROVE  Roots(cs) = RootsIn(cs, slots)
<1> DEFINE Precise == {HeaderOf(p) : p \in {slots[s] : s \in Globals} \ {Null}}
           Guessed == UNION {{p[1]} \X Resolve(cs[p[1]], p[2]) :
                               p \in {slots[s] : s \in Stack} \ {Null}}
<1>1. Roots(cs) = Precise \cup Guessed
  BY DEF Roots
<1>2. \A a \in UsedIn(cs) : HeaderOf(Payload(a)) = a
  <2>1. \A a \in UsedIn(cs) : a = <<a[1], a[2]>> /\ a[2] \in Nat /\ a[2] + 1 - 1 = a[2]
    BY BlocksApart
  <2> QED
    BY <2>1 DEF HeaderOf, Payload
<1>3. ASSUME NEW s \in Globals, slots[s] # Null
      PROVE  HeaderOf(slots[s]) \in RootsIn(cs, slots)
  <2>1. PICK a \in UsedIn(cs) : slots[s] = Payload(a)
    BY <1>3 DEF ValidIn, Onto
  <2> QED
    BY <2>1, <1>2, AtUnique DEF RootsIn, Slots
<1>4. ASSUME NEW s \in Stack, slots[s] # Null
      PROVE  \E a \in RootsIn(cs, slots) :
               /\ {slots[s][1]} \X Resolve(cs[slots[s][1]], slots[s][2]) = {a}
               /\ At(cs, slots[s], a)
  <2>1. PICK a \in UsedIn(cs) : At(cs, slots[s], a)
    BY <1>4 DEF ValidIn, Into
  <2>2. a \in RootsIn(cs, slots)
    BY <2>1 DEF RootsIn, Slots
  <2>3. /\ slots[s][1] = a[1] /\ Resolve(cs[slots[s][1]], slots[s][2]) = {a[2]}
        /\ a = <<a[1], a[2]>>
    BY <2>1, AtUnique, BlocksApart
  <2>4. {a[1]} \X {a[2]} = {<<a[1], a[2]>>}
    OBVIOUS
  <2>5. {slots[s][1]} \X Resolve(cs[slots[s][1]], slots[s][2]) = {a}
    BY <2>3, <2>4
  <2> QED
    BY <2>1, <2>2, <2>5
<1>5. Precise \subseteq RootsIn(cs, slots)
  BY <1>3
<1>6. Guessed \subseteq RootsIn(cs, slots)
  BY <1>4
<1>7. ASSUME NEW a \in RootsIn(cs, slots)
      PROVE  a \in Precise \cup Guessed
  <2>1. PICK s \in Slots : At(cs, slots[s], a) /\ a \in UsedIn(cs)
    BY DEF RootsIn
  <2>2. slots[s] # Null
    BY <2>1, AtUnique
  <2>3. CASE s \in Globals
    <3>1. PICK b \in UsedIn(cs) : slots[s] = Payload(b)
      BY <2>2, <2>3 DEF ValidIn, Onto
    <3>2. At(cs, Payload(b), b)
      BY AtUnique
    <3>3. At(cs, slots[s], b)
      BY <3>1, <3>2
    <3>4. b = a
      BY <2>1, <3>3, AtUnique
    <3> QED
      BY <2>2, <2>3, <3>1, <3>4, <1>2
  <2>4. CASE s \in Stack
    <3>1. PICK b \in RootsIn(cs, slots) :
             /\ {slots[s][1]} \X Resolve(cs[slots[s][1]], slots[s][2]) = {b}
             /\ At(cs, slots[s], b)
      BY <2>2, <2>4, <1>4
    <3>2. b = a
      BY <2>1, <3>1, AtUnique DEF RootsIn
    <3> QED
      BY <2>2, <2>4, <3>1, <3>2
  <2> QED
    BY <2>3, <2>4 DEF Slots
<1> QED
  BY <1>1, <1>5, <1>6, <1>7

(* mark_object finds what the program can reach, and nothing else.         *)
LEMMA MarkerReaches ==
  ASSUME NEW cs, SoundClusters(cs), Len(cs) <= MaxClusters,
         ValidIn(cs, slots)
  PROVE  NewlyMarked(cs) = ReachIn(cs, slots)
<1> DEFINE X == UsedIn(cs)
           R == RootsIn(cs, slots)
           E == Edges(cs)
           upTo == CHOOSE f : f = [n \in Nat |->
                     IF n = 0 THEN Untouched(cs, Roots(cs))
                     ELSE LET found == f[n - 1]
                          IN found \cup Untouched(cs, ChildrenIn(cs, found))]
           N == Len(cs) * Units
<1>1. NewlyMarked(cs) = upTo[N]
  BY DEF NewlyMarked, Untouched, ChildrenIn
<1>2. \A A \in SUBSET X : Untouched(cs, A) = A
  <2>1. \A a \in X : Hdr(cs, a).tag # 0 /\ ~Hdr(cs, a).mark
    BY UsedInIff DEF UsedOf, Sound, Unblemished
  <2> QED
    BY <2>1 DEF Untouched
<1>3. R \in SUBSET X
  BY DEF RootsIn
<1>4. Untouched(cs, Roots(cs)) = R
  BY <1>2, <1>3, RootsFound
<1>5. ASSUME NEW A \in SUBSET X
      PROVE  ChildrenIn(cs, A) = Beyond(X, E, A)
  <2>1. \A a \in A : FieldOf(cs, a) = Null \/ Hdr(cs, a).tag \in Traced
    BY DEF ValidIn
  <2>2. \A b \in X : HeaderOf(Payload(b)) = b
    <3>1. \A b \in X : b = <<b[1], b[2]>> /\ b[2] \in Nat /\ b[2] + 1 - 1 = b[2]
      BY BlocksApart
    <3> QED
      BY <3>1 DEF HeaderOf, Payload
  <2>3. ChildrenIn(cs, A) = {HeaderOf(p) : p \in {FieldOf(cs, a) : a \in A} \ {Null}}
    BY <2>1 DEF ChildrenIn, FieldOf
  <2>4. ASSUME NEW a \in A, FieldOf(cs, a) # Null
        PROVE  HeaderOf(FieldOf(cs, a)) \in Beyond(X, E, A)
    <3>1. PICK b \in X : FieldOf(cs, a) = Payload(b)
      BY <2>4 DEF ValidIn, Onto
    <3>2. <<a, b>> \in E
      BY <3>1 DEF Edges
    <3> QED
      BY <2>2, <3>1, <3>2 DEF Beyond
  <2>5. ASSUME NEW b \in Beyond(X, E, A)
        PROVE  b \in {HeaderOf(p) : p \in {FieldOf(cs, a) : a \in A} \ {Null}}
    <3>1. PICK a \in A : <<a, b>> \in E
      BY DEF Beyond
    <3>2. b \in X /\ FieldOf(cs, a) = Payload(b)
      BY <3>1 DEF Edges, Beyond
    <3>3. Payload(b) # Null
      BY <3>2, OwnerIs
    <3> QED
      BY <2>2, <3>2, <3>3
  <2> QED
    BY <2>3, <2>4, <2>5
<1>6. PICK g : Chain(g, X, R, E)
  BY <1>3, ChainExists
<1> DEFINE Step(f, n) == IF n = 0 THEN Untouched(cs, Roots(cs))
                         ELSE LET found == f[n - 1]
                              IN found \cup Untouched(cs, ChildrenIn(cs, found))
<1> HIDE DEF X, E, R
<1>7. \A A \in SUBSET X : Untouched(cs, ChildrenIn(cs, A)) = Beyond(X, E, A)
  <2>1. \A A : Beyond(X, E, A) \in SUBSET X
    BY DEF Beyond
  <2> QED
    BY <2>1, <1>2, <1>5
<1>8. \A n \in Nat : g[n] \in SUBSET X
  BY <1>3, <1>6, ChainInside
<1>9. g = [n \in Nat |-> Step(g, n)]
  <2>1. g[0] = R /\ \A n \in Nat : g[n + 1] = g[n] \cup Beyond(X, E, g[n])
    BY <1>6, ChainSteps
  <2>2. ASSUME NEW n \in Nat
        PROVE  g[n] = Step(g, n)
    <3>1. CASE n = 0
      BY <3>1, <2>1, <1>4
    <3>2. CASE n # 0
      <4>1. n - 1 \in Nat /\ n - 1 + 1 = n
        BY <3>2
      <4>2. g[n] = g[n - 1] \cup Beyond(X, E, g[n - 1])
        BY <4>1, <2>1
      <4> QED
        BY <3>2, <4>1, <4>2, <1>7, <1>8
    <3> QED
      BY <3>1, <3>2
  <2>3. g = [n \in Nat |-> g[n]]
    BY <1>6 DEF Chain
  <2> HIDE DEF Step
  <2> QED
    BY <2>2, <2>3
<1>10. upTo = [n \in Nat |-> Step(upTo, n)]
  <2>1. \E f : f = [n \in Nat |-> Step(f, n)]
    BY <1>9
  <2> QED
    BY <2>1
<1> HIDE DEF upTo
<1>11. Follows(upTo, X, R, E)
  <2> HIDE DEF Step
  <2>1. \A n \in Nat : upTo[n] = Step(upTo, n)
    BY <1>10
  <2> USE DEF Step
  <2>2. upTo[0] = R
    BY <2>1, <1>4
  <2>3. ASSUME NEW n \in Nat, upTo[n] \in SUBSET X
        PROVE  upTo[n + 1] = upTo[n] \cup Beyond(X, E, upTo[n])
    <3>1. n + 1 \in Nat /\ n + 1 # 0 /\ n + 1 - 1 = n
      OBVIOUS
    <3>2. upTo[n + 1] = Step(upTo, n + 1)
      BY <2>1, <3>1
    <3> QED
      BY <2>3, <3>1, <3>2, <1>7
  <2> QED
    BY <2>2, <2>3 DEF Follows
<1>12. \A n \in Nat : upTo[n] = g[n]
  <2> HIDE DEF Step, N
  <2> QED
    BY <1>3, <1>6, <1>11, ChainFollowed
<1>13. N \in Nat /\ N >= Cardinality(X) /\ IsFiniteSet(X)
  <2> DEFINE Y == (1 .. Len(cs)) \X Offsets
  <2>1. Len(cs) \in Nat /\ Units \in Nat
    BY UsedInIff, HeapAssumption
  <2>2. IsFiniteSet(1 .. Len(cs)) /\ Cardinality(1 .. Len(cs)) = Len(cs)
    BY <2>1, FirstNumbers
  <2>3. IsFiniteSet(Offsets) /\ Cardinality(Offsets) = Units
    <3> DEFINE last == Units - 1
    <3>1. 0 \in Int /\ last \in Int /\ Offsets = 0 .. last
      BY <2>1 DEF Offsets
    <3>2. (IF 0 > last THEN 0 ELSE last - 0 + 1) = Units
      BY <2>1
    <3> HIDE DEF last
    <3>3. /\ IsFiniteSet(0 .. last)
          /\ Cardinality(0 .. last) = IF 0 > last THEN 0 ELSE last - 0 + 1
      BY <3>1, FS_Interval
    <3> QED
      BY <3>1, <3>2, <3>3
  <2>4. IsFiniteSet(Y) /\ Cardinality(Y) = Len(cs) * Units
    BY <2>2, <2>3, FS_Product
  <2>5. X \in SUBSET Y
    BY UsedInFinite DEF X
  <2> HIDE DEF Y
  <2>6. IsFiniteSet(X) /\ Cardinality(X) <= Cardinality(Y)
    BY <2>4, <2>5, FS_Subset
  <2>7. Cardinality(X) \in Nat
    BY <2>6, FS_CardinalityType
  <2>8. N \in Nat
    BY <2>1
  <2> QED
    BY <2>4, <2>6, <2>7, <2>8
<1> HIDE DEF N
<1>14. g[N] = Reach(X, R, E)
  BY <1>3, <1>6, <1>13, ChainIsReach
<1>15. NewlyMarked(cs) = Reach(X, R, E)
  BY <1>1, <1>12, <1>13, <1>14
<1> QED
  BY <1>15 DEF ReachIn, X, R, E

-----------------------------------------------------------------------------
(* References after a collection.                                          *)

(* ds has some of the blocks of cs, as they were.                          *)
Shrinks(cs, ds) ==
  /\ UsedIn(ds) \subseteq UsedIn(cs)
  /\ \A a \in UsedIn(ds) : /\ Hdr(ds, a).tag = Hdr(cs, a).tag
                           /\ Hdr(ds, a).size = Hdr(cs, a).size
                           /\ FieldOf(ds, a) = FieldOf(cs, a)

(* References that lead from blocks that stay to blocks that stay are as   *)
(* valid as before, and reach as far.                                      *)
LEMMA ShrunkRefs ==
  ASSUME NEW cs, NEW ds, Shrinks(cs, ds), NEW held, ValidIn(cs, held),
         SoundClusters(cs), Len(cs) <= MaxClusters,
         RootsIn(cs, held) \subseteq UsedIn(ds),
         Closed(UsedIn(cs), Edges(cs), UsedIn(ds))
  PROVE  /\ ValidIn(ds, held)
         /\ \A p : \A a \in UsedIn(ds) : At(ds, p, a) <=> At(cs, p, a)
         /\ ReachIn(ds, held) = ReachIn(cs, held)
<1> DEFINE X == UsedIn(cs)
           Y == UsedIn(ds)
           R == RootsIn(cs, held)
           E == Edges(cs)
           F == Edges(ds)
<1>1. Y \subseteq X /\ R \subseteq Y /\ R \subseteq X
  BY DEF Shrinks
<1>2. \A p : \A a \in Y : At(ds, p, a) <=> At(cs, p, a)
  BY DEF Shrinks, At
<1>3. RootsIn(ds, held) = R
  <2>1. RootsIn(ds, held) \subseteq R
    BY <1>1, <1>2 DEF RootsIn
  <2>2. R \subseteq RootsIn(ds, held)
    BY <1>1, <1>2 DEF RootsIn
  <2> QED
    BY <2>1, <2>2
<1>4. \A a, b \in Y : <<a, b>> \in F <=> <<a, b>> \in E
  BY <1>1 DEF Edges, Shrinks
<1>5. \A a \in Y : \A b \in X : <<a, b>> \in E => b \in Y
  BY DEF Closed
<1>6. ASSUME NEW s \in Stack
      PROVE  held[s] = Null \/ Into(ds, held[s])
  <2> SUFFICES ASSUME held[s] # Null PROVE Into(ds, held[s])
    OBVIOUS
  <2>1. PICK a \in X : At(cs, held[s], a)
    BY DEF ValidIn, Into
  <2>2. a \in Y
    BY <2>1, <1>1 DEF RootsIn, Slots
  <2> QED
    BY <2>1, <2>2, <1>2 DEF Into
<1>7. ASSUME NEW s \in Globals
      PROVE  held[s] = Null \/ Onto(ds, held[s])
  <2> SUFFICES ASSUME held[s] # Null PROVE Onto(ds, held[s])
    OBVIOUS
  <2>1. PICK a \in X : held[s] = Payload(a)
    BY DEF ValidIn, Onto
  <2>2. At(cs, Payload(a), a)
    BY AtUnique
  <2>3. a \in Y
    BY <2>1, <2>2, <1>1 DEF RootsIn, Slots
  <2> QED
    BY <2>1, <2>3 DEF Onto
<1>8. ASSUME NEW a \in Y
      PROVE  /\ FieldOf(ds, a) = Null \/ Onto(ds, FieldOf(ds, a))
             /\ FieldOf(ds, a) = Null \/ Hdr(ds, a).tag \in Traced
             /\ Hdr(ds, a).size = Hdr(ds, a).tag
  <2>1. /\ a \in X /\ FieldOf(ds, a) = FieldOf(cs, a)
        /\ Hdr(ds, a).tag = Hdr(cs, a).tag /\ Hdr(ds, a).size = Hdr(cs, a).size
    BY DEF Shrinks
  <2>2. ASSUME FieldOf(cs, a) # Null
        PROVE  Onto(ds, FieldOf(ds, a))
    <3>1. PICK b \in X : FieldOf(cs, a) = Payload(b)
      BY <2>1, <2>2 DEF ValidIn, Onto
    <3>2. b \in Y
      BY <2>1, <3>1, <1>5 DEF Edges
    <3> QED
      BY <2>1, <3>1, <3>2 DEF Onto
  <2> QED
    BY <2>1, <2>2 DEF ValidIn
<1>9. ValidIn(ds, held)
  BY <1>6, <1>7, <1>8 DEF ValidIn
<1> HIDE DEF X, Y, R, E, F
<1>10. /\ Reach(X, R, E) \subseteq X /\ R \subseteq Reach(X, R, E)
       /\ Closed(X, E, Reach(X, R, E))
       /\ \A Z \in SUBSET X : R \subseteq Z /\ Closed(X, E, Z) => Reach(X, R, E) \subseteq Z
  BY <1>1, ReachParts
<1>11. /\ Reach(Y, R, F) \subseteq Y /\ R \subseteq Reach(Y, R, F)
       /\ Closed(Y, F, Reach(Y, R, F))
       /\ \A Z \in SUBSET Y : R \subseteq Z /\ Closed(Y, F, Z) => Reach(Y, R, F) \subseteq Z
  BY <1>1, ReachParts
<1>12. Reach(X, R, E) \subseteq Reach(Y, R, F)
  <2>1. Closed(X, E, Reach(Y, R, F))
    BY <1>4, <1>5, <1>11 DEF Closed
  <2> QED
    BY <2>1, <1>1, <1>10, <1>11
<1>13. Reach(Y, R, F) \subseteq Reach(X, R, E)
  <2>1. Closed(X, E, Y)
    BY <1>5 DEF Closed
  <2>2. Reach(X, R, E) \subseteq Y
    BY <2>1, <1>1, <1>10
  <2>3. Closed(Y, F, Reach(X, R, E))
    BY <2>2, <1>1, <1>4, <1>10 DEF Closed
  <2> QED
    BY <2>2, <2>3, <1>10, <1>11
<1>14. ReachIn(ds, held) = ReachIn(cs, held)
  BY <1>3, <1>12, <1>13 DEF ReachIn, X, Y, R, E, F
<1> QED
  BY <1>2, <1>9, <1>14 DEF Y

LEMMA AfterShrinks ==
  ASSUME NEW h, NEW g, NEW L, GoodHeap(h), GoodHeap(g), After(h, g, L)
  PROVE  /\ Shrinks(h.clusters, g.clusters)
         /\ L \subseteq UsedIn(h.clusters) => UsedIn(g.clusters) = L
<1>1. \A a \in UsedIn(h.clusters) : a[1] \in 1 .. Len(h.clusters)
  BY UsedInIff DEF GoodHeap
<1> QED
  BY <1>1 DEF After, Shrinks, FieldOf

(* A collection marks just what the program can reach.                     *)
LEMMA LiveIsReach ==
  ASSUME NEW h, GoodHeap(h), Len(h.clusters) <= MaxClusters,
         ValidIn(h.clusters, slots)
  PROVE  Live(h) = ReachIn(h.clusters, slots)
<1> DEFINE cs == h.clusters
           cl == Cleared(h)
<1>1. /\ SoundClusters(cs) /\ SoundClusters(cl) /\ Len(cl) = Len(cs)
      /\ DOMAIN cl = 1 .. Len(cs) /\ DOMAIN cs = 1 .. Len(cs)
      /\ \A i \in 1 .. Len(cs) : SameButMarks(cs[i], cl[i])
  BY ClearedParts, UsedInIff DEF GoodHeap
<1>a. Live(h) = NewlyMarked(cl)
  BY DEF Live
<1>b. Len(cs) <= MaxClusters /\ ValidIn(cs, slots)
  OBVIOUS
<1> HIDE DEF cs, cl
<1>2. \A i \in 1 .. Len(cs) :
        /\ cl[i].starts = cs[i].starts /\ cl[i].field = cs[i].field
        /\ \A u \in Offsets : /\ cl[i].hdr[u].tag = cs[i].hdr[u].tag
                              /\ cl[i].hdr[u].size = cs[i].hdr[u].size
  BY <1>1 DEF SameButMarks
<1>3. \A i \in 1 .. Len(cs) : UsedOf(cl[i]) = UsedOf(cs[i])
  <2>1. \A i \in 1 .. Len(cs) : cs[i].starts \subseteq Offsets
    BY <1>1, UsedInIff, ClusterParts
  <2> QED
    BY <2>1, <1>2 DEF UsedOf
<1>4. UsedIn(cl) = UsedIn(cs)
  BY <1>1, <1>3 DEF UsedIn
<1>5. \A a \in UsedIn(cs) : a[1] \in 1 .. Len(cs) /\ a[2] \in Offsets
  BY <1>1, UsedInIff
<1>6. Shrinks(cs, cl)
  BY <1>2, <1>4, <1>5 DEF Shrinks, Hdr, FieldOf
<1>7. RootsIn(cs, slots) \subseteq UsedIn(cl) /\ Closed(UsedIn(cs), Edges(cs), UsedIn(cl))
  BY <1>4 DEF RootsIn, Closed
<1>8. ValidIn(cl, slots) /\ ReachIn(cl, slots) = ReachIn(cs, slots)
  BY <1>1, <1>b, <1>6, <1>7, ShrunkRefs
<1>9. NewlyMarked(cl) = ReachIn(cl, slots)
  BY <1>1, <1>b, <1>8, MarkerReaches
<1> QED
  BY <1>a, <1>8, <1>9 DEF cs

(* A pointer into a block that is in use before and after a step has the   *)
(* same owner before and after.                                            *)
LEMMA SameOwner ==
  ASSUME NEW cs, SoundClusters(cs), Len(cs) <= MaxClusters,
         NEW ds, SoundClusters(ds), Len(ds) <= MaxClusters,
         NEW a \in UsedIn(cs) \cap UsedIn(ds), Hdr(cs, a).size = Hdr(ds, a).size
  PROVE  /\ \A p : At(cs, p, a) <=> At(ds, p, a)
         /\ \A p : At(cs, p, a) => OwnerIn(ds, p) = a /\ OwnerIn(cs, p) = a
<1>1. \A p : At(cs, p, a) <=> At(ds, p, a)
  BY DEF At
<1> QED
  BY <1>1, OwnerIs

(* References survive every way of making room.                            *)
LEMMA RoomsRefs ==
  ASSUME HeapInv, RefsValid,
         NEW T \in Types, NEW g \in Rooms(T)
  PROVE  /\ GoodHeap(g) /\ Shrinks(clusters, g.clusters)
         /\ UsedIn(g.clusters) \in {UsedIn(clusters), ReachIn(clusters, slots)}
         /\ RootsIn(clusters, slots) \subseteq UsedIn(g.clusters)
         /\ Closed(UsedIn(clusters), Edges(clusters), UsedIn(g.clusters))
         /\ ValidIn(g.clusters, slots)
<1> DEFINE U == UsedIn(clusters)
           R == RootsIn(clusters, slots)
           E == Edges(clusters)
           L == ReachIn(clusters, slots)
           k == Collected(Heap)
<1>1. /\ GoodHeap(Heap) /\ SoundClusters(clusters) /\ Len(clusters) <= MaxClusters
      /\ Heap.clusters = clusters /\ ValidIn(clusters, slots)
  BY InvHolds DEF HeapInv, RefsValid
<1>2. R \subseteq U
  BY DEF RootsIn
<1>3. L \subseteq U /\ R \subseteq L /\ Closed(U, E, L)
  BY <1>2, ReachParts DEF ReachIn
<1>4. Live(Heap) = L
  BY <1>1, LiveIsReach
<1>5. GoodHeap(k) /\ After(Heap, k, Live(Heap)) /\ Len(k.clusters) = Len(clusters)
  BY <1>1, CollectedGood, AfterKept DEF Keeps
<1> HIDE DEF k, L, U, E, R
<1>6. UsedIn(k.clusters) = L /\ Shrinks(clusters, k.clusters)
  BY <1>1, <1>3, <1>4, <1>5, AfterShrinks DEF U
<1>7. ValidIn(k.clusters, slots) /\ ReachIn(k.clusters, slots) = L
  <2>1. /\ RootsIn(clusters, slots) \subseteq UsedIn(k.clusters)
        /\ Closed(UsedIn(clusters), Edges(clusters), UsedIn(k.clusters))
    BY <1>3, <1>6 DEF U, R, E
  <2> QED
    BY <2>1, <1>1, <1>6, ShrunkRefs DEF L
<1>8. Live(k) = L
  BY <1>1, <1>5, <1>7, LiveIsReach
<1>9. GoodHeap(g) /\ (After(Heap, g, U) \/ After(Heap, g, L))
  BY <1>1, <1>4, <1>8, RoomsGood DEF k, U
<1>10. Shrinks(clusters, g.clusters) /\ UsedIn(g.clusters) \in {U, L}
  <2>1. CASE After(Heap, g, U)
    BY <2>1, <1>1, <1>9, AfterShrinks DEF U
  <2>2. CASE After(Heap, g, L)
    BY <2>2, <1>1, <1>3, <1>9, AfterShrinks DEF U
  <2> QED
    BY <2>1, <2>2, <1>9
<1>11. R \subseteq UsedIn(g.clusters) /\ Closed(U, E, UsedIn(g.clusters))
  <2>1. Closed(U, E, U)
    BY DEF Closed
  <2> QED
    BY <2>1, <1>2, <1>3, <1>10
<1>12. ValidIn(g.clusters, slots)
  BY <1>1, <1>10, <1>11, ShrunkRefs DEF U, R, E
<1> QED
  BY <1>9, <1>10, <1>11, <1>12 DEF U, R, E, L

(* What a new block changes for the references: slot s gets the one to it, *)
(* its own field has none, and all others lead where they led.             *)
BlockAdded(g, i, T, s, held) ==
  LET cs == g.clusters
      ds == WithBlock(g, i, T).clusters
      a == NewBlock(g, i, T)
      now == [held EXCEPT ![s] = Payload(a)]
  IN /\ ValidIn(ds, now)
     /\ SoundClusters(ds) /\ Len(ds) = Len(cs)
     /\ UsedIn(ds) = UsedIn(cs) \cup {a} /\ a \notin UsedIn(cs)
     /\ a \in Addresses
     /\ Hdr(ds, a).tag = T /\ Hdr(ds, a).size = T
     /\ OwnerIn(ds, FieldOf(ds, a)) = Null /\ OwnerIn(ds, now[s]) = a
     /\ \A b \in UsedIn(cs) :
          /\ Hdr(ds, b) = Hdr(cs, b)
          /\ OwnerIn(ds, FieldOf(ds, b)) = OwnerIn(cs, FieldOf(cs, b))
     /\ \A r \in Slots : r # s => OwnerIn(ds, now[r]) = OwnerIn(cs, held[r])

LEMMA BlockRefs ==
  ASSUME NEW g, GoodHeap(g), Len(g.clusters) <= MaxClusters,
         NEW T \in Types, NEW i \in CanAllocIn(g.clusters, T),
         ~LeavesSliver(g.clusters[i], T),
         NEW s \in Stack, NEW V, NEW held \in [Slots -> V], ValidIn(g.clusters, held)
  PROVE  BlockAdded(g, i, T, s, held)
<1> DEFINE cs == g.clusters
           k == WithBlock(g, i, T)
           ds == k.clusters
           a == NewBlock(g, i, T)
           p == Payload(a)
           now == [held EXCEPT ![s] = p]
<1>w. GainsBlock(g, i, T)
  BY Allocated
<1>1. /\ GoodHeap(k) /\ Len(ds) = Len(cs)
      /\ a \notin UsedIn(cs) /\ a \in (1 .. Len(cs)) \X Offsets
      /\ UsedIn(ds) = UsedIn(cs) \cup {a}
      /\ Hdr(ds, a) = Block(T) /\ FieldOf(ds, a) = Null
      /\ \A b \in UsedIn(cs) : Hdr(ds, b) = Hdr(cs, b) /\ FieldOf(ds, b) = FieldOf(cs, b)
  <2>1. /\ GoodHeap(k) /\ Len(ds) = Len(cs)
        /\ a \notin UsedIn(cs) /\ a \in (1 .. Len(cs)) \X Offsets
        /\ UsedIn(ds) = UsedIn(cs) \cup {a}
        /\ Hdr(ds, a) = Block(T) /\ ds[a[1]].field[a[2]] = Null
        /\ \A b \in UsedIn(cs) : /\ Hdr(ds, b) = Hdr(cs, b)
                                /\ ds[b[1]].field[b[2]] = cs[b[1]].field[b[2]]
    BY <1>w DEF GainsBlock
  <2> QED
    BY <2>1 DEF FieldOf
<1>2. SoundClusters(cs) /\ SoundClusters(ds)
  BY <1>1 DEF GoodHeap
<1>z. /\ ValidIn(cs, held) /\ Len(cs) <= MaxClusters
  OBVIOUS
<1> HIDE DEF cs, k, ds, a
<1>3. Hdr(ds, a).tag = T /\ Hdr(ds, a).size = T
  BY <1>1 DEF Block
<1>4. /\ Stack \subseteq Slots /\ s \in Slots /\ s \notin Globals
      /\ now[s] = p /\ \A r \in Slots : r # s => now[r] = held[r]
  <2>1. s \in Slots /\ s \notin Globals /\ Stack \subseteq Slots
    BY HeapAssumption DEF Slots
  <2> QED
    BY <2>1
<1> HIDE DEF now, p
<1>5. \A b \in UsedIn(cs) : /\ \A q : At(cs, q, b) <=> At(ds, q, b)
                           /\ \A q : At(cs, q, b) => OwnerIn(ds, q) = b /\ OwnerIn(cs, q) = b
  <2> TAKE b \in UsedIn(cs)
  <2>1. b \in UsedIn(cs) \cap UsedIn(ds) /\ Hdr(cs, b).size = Hdr(ds, b).size
    BY <1>1
  <2>2. Len(ds) <= MaxClusters /\ Len(cs) <= MaxClusters
    BY <1>1, <1>z
  <2> QED
    BY <2>1, <2>2, <1>2, SameOwner
<1>6. At(ds, p, a) /\ OwnerIn(ds, p) = a /\ OwnerIn(ds, Null) = Null /\ OwnerIn(cs, Null) = Null
  BY <1>1, <1>2, <1>z, AtUnique, OwnerIs DEF p
<1>7. ASSUME NEW r \in Slots, r # s
      PROVE  OwnerIn(ds, now[r]) = OwnerIn(cs, held[r])
  <2>1. held[r] = Null \/ Into(cs, held[r])
    BY <1>2, <1>z, OntoInto DEF ValidIn, Slots
  <2> QED
    BY <2>1, <1>4, <1>5, <1>6, <1>7 DEF Into
<1>8. ASSUME NEW b \in UsedIn(cs)
      PROVE  OwnerIn(ds, FieldOf(ds, b)) = OwnerIn(cs, FieldOf(cs, b))
  <2>1. FieldOf(ds, b) = FieldOf(cs, b) /\ (FieldOf(cs, b) = Null \/ Into(cs, FieldOf(cs, b)))
    BY <1>1, <1>2, <1>z, OntoInto DEF ValidIn
  <2> QED
    BY <2>1, <1>5, <1>6 DEF Into
<1>9. ValidIn(ds, now)
  <2>1. ASSUME NEW r \in Stack
        PROVE  now[r] = Null \/ Into(ds, now[r])
    <3>1. CASE r = s
      BY <3>1, <1>1, <1>4, <1>6 DEF Into
    <3>2. CASE r # s
      <4>1. now[r] = held[r] /\ (held[r] = Null \/ Into(cs, held[r]))
        BY <3>2, <1>4, <1>z DEF ValidIn
      <4> QED
        BY <4>1, <1>1, <1>5 DEF Into
    <3> QED
      BY <3>1, <3>2
  <2>2. ASSUME NEW r \in Globals
        PROVE  now[r] = Null \/ Onto(ds, now[r])
    <3>1. now[r] = held[r] /\ (held[r] = Null \/ Onto(cs, held[r]))
      BY <1>4, <1>z DEF ValidIn, Slots
    <3> QED
      BY <3>1, <1>1 DEF Onto
  <2>3. ASSUME NEW b \in UsedIn(ds)
        PROVE  /\ FieldOf(ds, b) = Null \/ Onto(ds, FieldOf(ds, b))
               /\ FieldOf(ds, b) = Null \/ Hdr(ds, b).tag \in Traced
               /\ Hdr(ds, b).size = Hdr(ds, b).tag
    <3>1. CASE b = a
      BY <3>1, <1>1, <1>3
    <3>2. CASE b \in UsedIn(cs)
      <4>1. /\ FieldOf(cs, b) = Null \/ Onto(cs, FieldOf(cs, b))
            /\ FieldOf(cs, b) = Null \/ Hdr(cs, b).tag \in Traced
            /\ Hdr(cs, b).size = Hdr(cs, b).tag
        BY <3>2, <1>z DEF ValidIn
      <4> QED
        BY <3>2, <4>1, <1>1 DEF Onto
    <3> QED
      BY <3>1, <3>2, <1>1
  <2> QED
    BY <2>1, <2>2, <2>3 DEF ValidIn
<1>10. a \in Addresses
  BY <1>1, <1>2, <1>z, BlocksApart
<1> QED
  BY <1>1, <1>2, <1>3, <1>4, <1>6, <1>7, <1>8, <1>9, <1>10
  DEF BlockAdded, cs, ds, k, a, p, now

-----------------------------------------------------------------------------
(* The invariant, step by step.                                            *)

(* A pointer the program dereferences or stores refers to a block in use.  *)
LEMMA StartsUsed ==
  ASSUME HeapInv, RefsValid, NEW s \in Slots, Starts(slots[s])
  PROVE  LET a == HeaderOf(slots[s])
         IN /\ a \in UsedIn(clusters) /\ slots[s] = Payload(a) /\ slots[s] # Null
            /\ OwnerIn(clusters, slots[s]) = a
<1> DEFINE p == slots[s]
           a == HeaderOf(p)
<1>1. SoundClusters(clusters) /\ Len(clusters) <= MaxClusters
  BY InvHolds DEF HeapInv
<1>2. p \in {Null} \cup PointersTo(Len(clusters)) /\ p # Null
  BY DEF HeapInv, Starts
<1>3. Into(clusters, p)
  BY <1>1, <1>2, OntoInto DEF RefsValid, ValidIn, Slots
<1>4. /\ p = Payload(a) /\ p = <<a[1], a[2] + 1>>
      /\ a \in (1 .. Len(clusters)) \X Offsets
      /\ a[1] \in 1 .. Len(clusters) /\ a[2] \in Offsets
      /\ clusters[a[1]].hdr[a[2]].tag # 0 /\ Sound(clusters[a[1]])
  BY <1>2, StartsParts
<1> HIDE DEF p, a
<1>5. PICK b \in UsedIn(clusters) : At(clusters, p, b)
  BY <1>3 DEF Into
<1> DEFINE n == Hdr(clusters, b).size
           c == clusters[a[1]]
<1>6. PICK u \in b[2] + 1 .. b[2] + n - 1 : p = <<b[1], u>>
  BY <1>5 DEF At
<1>7. b = <<b[1], b[2]>> /\ b[2] \in Nat /\ n \in Nat /\ b[1] \in 1 .. Len(clusters)
  BY <1>1, BlocksApart
<1>8. b[1] = a[1] /\ u = a[2] + 1
  BY <1>4, <1>6
<1>9. b[2] \in UsedOf(c) /\ EndOf(c, b[2]) = b[2] + n
  BY <1>1, <1>7, <1>8, UsedInIff DEF EndOf
<1> HIDE DEF n
<1>10. a[2] \in Nat /\ b[2] <= a[2] /\ a[2] < EndOf(c, b[2])
  BY <1>4, <1>6, <1>7, <1>8, <1>9 DEF Offsets
<1>11. Solid(c) /\ c.hdr[a[2]].tag # 0
  BY <1>4 DEF Sound, Shape
<1> HIDE DEF c
<1>12. ~(b[2] < a[2])
  BY <1>4, <1>9, <1>10, <1>11 DEF Solid
<1>13. a[2] = b[2]
  BY <1>7, <1>10, <1>12
<1>14. a = b
  <2>1. a = <<a[1], a[2]>>
    BY <1>4
  <2> QED
    BY <2>1, <1>7, <1>8, <1>13
<1>15. OwnerIn(clusters, p) = a
  BY <1>1, <1>5, <1>14, OwnerIs
<1> QED
  BY <1>2, <1>4, <1>5, <1>14, <1>15 DEF p, a

(* What a new slot value must be for the references to stay valid.         *)
LEMMA SlotRefs ==
  ASSUME HeapInv, RefsValid, NEW s \in Slots, NEW v,
         v = Null \/ Onto(clusters, v) \/ (s \in Stack /\ Into(clusters, v)),
         clusters' = clusters, slots' = [slots EXCEPT ![s] = v]
  PROVE  RefsValid'
<1>1. SoundClusters(clusters) /\ Len(clusters) <= MaxClusters /\ DOMAIN slots = Slots
  BY InvHolds DEF HeapInv
<1>2. ValidIn(clusters, slots) /\ (s \in Stack => s \notin Globals)
  BY HeapAssumption DEF RefsValid
<1>3. \A r \in Slots : slots'[r] = IF r = s THEN v ELSE slots[r]
  BY <1>1
<1>4. v = Null \/ Into(clusters, v)
  BY <1>1, OntoInto
<1>5. ValidIn(clusters, slots')
  BY <1>2, <1>3, <1>4 DEF ValidIn, Slots
<1> QED
  BY <1>5 DEF RefsValid

(* What a store changes.                                                   *)
LEMMA SetFieldParts ==
  ASSUME HeapInv, RefsValid, NEW s \in Slots, NEW v, SetField(s, v)
  PROVE  LET a == HeaderOf(slots[s])
         IN /\ a \in UsedIn(clusters) /\ OwnerIn(clusters, slots[s]) = a
            /\ UsedIn(clusters') = UsedIn(clusters)
            /\ \A b \in UsedIn(clusters) : Hdr(clusters', b) = Hdr(clusters, b)
            /\ FieldOf(clusters', a) = v
            /\ \A b \in UsedIn(clusters) : b # a => FieldOf(clusters', b) = FieldOf(clusters, b)
<1> DEFINE a == HeaderOf(slots[s])
           n == Len(clusters)
<1>1. a \in UsedIn(clusters) /\ OwnerIn(clusters, slots[s]) = a
  BY StartsUsed DEF SetField
<1>2. clusters' = [clusters EXCEPT ![a[1]].field[a[2]] = v]
  BY DEF SetField
<1> HIDE DEF a
<1>3. /\ SoundClusters(clusters) /\ DOMAIN clusters = 1 .. n /\ n \in Nat
      /\ \A i \in 1 .. n : clusters[i] \in Cluster
      /\ \A b \in UsedIn(clusters) : /\ b = <<b[1], b[2]>> /\ b[1] \in 1 .. n
                                     /\ b[2] \in Offsets
  BY InvHolds, UsedInIff
<1> DEFINE c == clusters[a[1]]
           d == [c EXCEPT !.field[a[2]] = v]
<1>4. /\ DOMAIN clusters' = 1 .. n
      /\ clusters'[a[1]] = d
      /\ \A i \in 1 .. n : i # a[1] => clusters'[i] = clusters[i]
  BY <1>1, <1>2, <1>3
<1>5. /\ d.hdr = c.hdr /\ d.starts = c.starts
      /\ d.field[a[2]] = v /\ \A u \in Offsets : u # a[2] => d.field[u] = c.field[u]
  <2>1. c \in Cluster /\ a[2] \in Offsets
    BY <1>1, <1>3
  <2>2. c.field \in [Offsets -> {Null} \cup Pointers]
    BY <2>1, ClusterParts
  <2> HIDE DEF c
  <2>3. d = [c EXCEPT !.field = [c.field EXCEPT ![a[2]] = v]]
    BY <2>1 DEF Cluster
  <2> HIDE DEF d
  <2> DEFINE f == [c.field EXCEPT ![a[2]] = v]
  <2>4. f[a[2]] = v /\ \A u \in Offsets : u # a[2] => f[u] = c.field[u]
    BY <2>1, <2>2
  <2>5. d = [c EXCEPT !.field = f]
    BY <2>3
  <2> HIDE DEF f
  <2>6. d.hdr = c.hdr /\ d.starts = c.starts /\ d.field = f
    BY <2>1, <2>5 DEF Cluster
  <2> QED
    BY <2>4, <2>6
<1> HIDE DEF d, c
<1>c. c = clusters[a[1]]
  BY DEF c
<1>6. \A i \in 1 .. n : clusters'[i].hdr = clusters[i].hdr /\ clusters'[i].starts = clusters[i].starts
  BY <1>4, <1>5, <1>c
<1>7. UsedIn(clusters') = UsedIn(clusters)
  BY <1>3, <1>4, <1>6 DEF UsedIn, UsedOf
<1>8. \A b \in UsedIn(clusters) : Hdr(clusters', b) = Hdr(clusters, b)
  BY <1>3, <1>6 DEF Hdr
<1>9. FieldOf(clusters', a) = v
  BY <1>4, <1>5 DEF FieldOf
<1>10. ASSUME NEW b \in UsedIn(clusters), b # a
       PROVE  FieldOf(clusters', b) = FieldOf(clusters, b)
  <2>1. b[1] # a[1] \/ b[2] # a[2]
    BY <1>1, <1>3, <1>10
  <2> QED
    BY <2>1, <1>3, <1>4, <1>5, <1>c DEF FieldOf
<1> QED
  BY <1>1, <1>7, <1>8, <1>9, <1>10 DEF a

LEMMA SetFieldRefs ==
  ASSUME HeapInv, RefsValid, NEW s \in Slots, NEW v, v = Null \/ Onto(clusters, v),
         SetField(s, v), astray' = {}
  PROVE  RefsValid'
<1> DEFINE a == HeaderOf(slots[s])
<1>1. /\ a \in UsedIn(clusters)
      /\ UsedIn(clusters') = UsedIn(clusters)
      /\ \A b \in UsedIn(clusters) : Hdr(clusters', b) = Hdr(clusters, b)
      /\ FieldOf(clusters', a) = v
      /\ \A b \in UsedIn(clusters) : b # a => FieldOf(clusters', b) = FieldOf(clusters, b)
  BY SetFieldParts
<1>a. v = Null \/ Hdr(clusters, a).tag \in Traced
  BY DEF SetField
<1> HIDE DEF a
<1>2. \A p : /\ Into(clusters, p) => Into(clusters', p)
             /\ Onto(clusters, p) => Onto(clusters', p)
  BY <1>1 DEF Into, Onto, At
<1>3. slots' = slots /\ ValidIn(clusters, slots)
  BY DEF SetField, RefsValid
<1>4. ASSUME NEW b \in UsedIn(clusters')
      PROVE  /\ FieldOf(clusters', b) = Null \/ Onto(clusters', FieldOf(clusters', b))
             /\ FieldOf(clusters', b) = Null \/ Hdr(clusters', b).tag \in Traced
             /\ Hdr(clusters', b).size = Hdr(clusters', b).tag
  BY <1>1, <1>2, <1>3, <1>a DEF ValidIn
<1>5. ValidIn(clusters', slots')
  BY <1>2, <1>3, <1>4 DEF ValidIn
<1> QED
  BY <1>5 DEF RefsValid

LEMMA InitRefs == Init => RefsValid
<1> SUFFICES ASSUME Init PROVE RefsValid
  OBVIOUS
<1>1. clusters = <<>> /\ \A s \in Slots : slots[s] = Null
  BY DEF Init
<1>2. UsedIn(clusters) = {}
  BY <1>1 DEF UsedIn
<1> QED
  BY <1>1, <1>2 DEF RefsValid, ValidIn, Slots

LEMMA NewRecRefs ==
  ASSUME HeapInv, RefsValid,
         NEW s \in Stack, NEW T \in Types, NewRec(s, T), Unslivered'
  PROVE  RefsValid'
<1>1. GoodHeap(Heap) /\ slots \in [Slots -> {Null} \cup PointersTo(Len(clusters))]
  BY DEF HeapInv
<1>2. PICK g \in Rooms(T) : \E i \in CanAllocIn(g.clusters, T) :
         /\ GoodHeap(g) /\ Len(g.clusters) <= MaxClusters
         /\ ~LeavesSliver(g.clusters[i], T)
         /\ clusters' = WithBlock(g, i, T).clusters
         /\ block_count' = WithBlock(g, i, T).counts
         /\ slots' = [slots EXCEPT ![s] = Payload(NewBlock(g, i, T))]
  BY <1>1, NewRecParts
<1>3. PICK i \in CanAllocIn(g.clusters, T) :
         /\ GoodHeap(g) /\ Len(g.clusters) <= MaxClusters
         /\ ~LeavesSliver(g.clusters[i], T)
         /\ clusters' = WithBlock(g, i, T).clusters
         /\ slots' = [slots EXCEPT ![s] = Payload(NewBlock(g, i, T))]
  BY <1>2
<1>4. ValidIn(g.clusters, slots)
  BY RoomsRefs
<1> DEFINE V == {Null} \cup PointersTo(Len(clusters))
<1>5. slots \in [Slots -> V]
  BY <1>1
<1> HIDE DEF V
<1>6. BlockAdded(g, i, T, s, slots)
  BY <1>3, <1>4, <1>5, BlockRefs
<1>7. ValidIn(clusters', slots')
  BY <1>3, <1>6 DEF BlockAdded
<1> QED
  BY <1>7 DEF RefsValid

LEMMA CollectRefs ==
  ASSUME HeapInv, RefsValid, Collect
  PROVE  /\ RefsValid'
         /\ UsedIn(clusters') = ReachIn(clusters, slots)
         /\ Shrinks(clusters, clusters')
         /\ RootsIn(clusters, slots) \subseteq UsedIn(clusters')
         /\ Closed(UsedIn(clusters), Edges(clusters), UsedIn(clusters'))
<1> DEFINE k == Collected(Heap)
           L == ReachIn(clusters, slots)
<1>1. /\ GoodHeap(Heap) /\ SoundClusters(clusters) /\ Len(clusters) <= MaxClusters
      /\ Heap.clusters = clusters /\ ValidIn(clusters, slots)
  BY InvHolds DEF HeapInv, RefsValid
<1>2. GoodHeap(k) /\ After(Heap, k, Live(Heap)) /\ Live(Heap) = L
  BY <1>1, CollectedGood, AfterKept, LiveIsReach
<1>3. RootsIn(clusters, slots) \subseteq UsedIn(clusters)
  BY DEF RootsIn
<1>4. /\ L \subseteq UsedIn(clusters) /\ RootsIn(clusters, slots) \subseteq L
      /\ Closed(UsedIn(clusters), Edges(clusters), L)
  BY <1>3, ReachParts DEF ReachIn
<1>5. clusters' = k.clusters /\ slots' = slots
  BY DEF Collect, Becomes
<1> HIDE DEF k, L
<1>6. UsedIn(k.clusters) = L /\ Shrinks(clusters, k.clusters)
  BY <1>1, <1>2, <1>4, AfterShrinks
<1>7. ValidIn(k.clusters, slots)
  BY <1>1, <1>4, <1>6, ShrunkRefs
<1>8. ValidIn(clusters', slots')
  BY <1>5, <1>7
<1> QED
  BY <1>4, <1>5, <1>6, <1>8 DEF RefsValid, L

LEMMA AdvanceOwner ==
  ASSUME HeapInv, RefsValid, NEW s \in Stack, Advance(s)
  PROVE  LET q == <<slots[s][1], slots[s][2] + Hdr(clusters, HeaderOf(slots[s])).size - 2>>
         IN /\ slots' = [slots EXCEPT ![s] = q] /\ clusters' = clusters
            /\ Into(clusters, q) /\ OwnerIn(clusters, q) = OwnerIn(clusters, slots[s])
<1> DEFINE a == HeaderOf(slots[s])
           n == Hdr(clusters, a).size
           q == <<slots[s][1], slots[s][2] + n - 2>>
<1>1. SoundClusters(clusters) /\ Len(clusters) <= MaxClusters
      /\ s \in Slots /\ DOMAIN slots = Slots
  BY InvHolds DEF HeapInv, Slots
<1>2. Starts(slots[s]) /\ slots' = [slots EXCEPT ![s] = q] /\ clusters' = clusters
  BY <1>1 DEF Advance
<1>3. /\ a \in UsedIn(clusters) /\ slots[s] = Payload(a)
      /\ OwnerIn(clusters, slots[s]) = a
  BY <1>1, <1>2, StartsUsed
<1> HIDE DEF a
<1>4. a[2] \in Nat /\ n \in Nat /\ n >= 2
  BY <1>1, <1>3, BlocksApart
<1>5. slots[s][1] = a[1] /\ slots[s][2] = a[2] + 1
  BY <1>3 DEF Payload
<1> HIDE DEF n
<1>6. a[2] + 1 + n - 2 \in a[2] + 1 .. a[2] + n - 1
  BY <1>4
<1>7. At(clusters, q, a)
  BY <1>5, <1>6 DEF At, n
<1> HIDE DEF q
<1>8. Into(clusters, q) /\ OwnerIn(clusters, q) = a
  BY <1>1, <1>3, <1>7, OwnerIs DEF Into
<1> QED
  BY <1>2, <1>3, <1>8 DEF q, n, a

LEMMA NextRefs ==
  ASSUME HeapInv, RefsValid, [Next]_vars, astray' = {}
  PROVE  RefsValid'
<1>0. SoundClusters(clusters) /\ Len(clusters) <= MaxClusters /\ Stack \subseteq Slots
      /\ Unslivered'
  BY InvHolds DEF HeapInv, Slots, Unslivered
<1>1. ASSUME NEW s \in Slots, Starts(slots[s])
      PROVE  Onto(clusters, slots[s])
  BY <1>1, StartsUsed DEF Onto
<1>2. ASSUME NEW s \in Stack, NEW T \in Types, NewRec(s, T)
      PROVE  RefsValid'
  BY <1>0, <1>2, NewRecRefs
<1>3. ASSUME NEW s \in Slots, NEW r \in Slots, SetField(s, slots[r])
      PROVE  RefsValid'
  <2>1. slots[r] = Null \/ Onto(clusters, slots[r])
    BY <1>1, <1>3 DEF SetField
  <2> QED
    BY <1>3, <2>1, SetFieldRefs
<1>4. ASSUME NEW s \in Slots, SetField(s, Null)
      PROVE  RefsValid'
  BY <1>4, SetFieldRefs
<1>5. ASSUME NEW s \in Stack, NEW r \in Slots, LoadField(s, r)
      PROVE  RefsValid'
  <2> DEFINE a == HeaderOf(slots[r])
             v == FieldOf(clusters, a)
  <2>1. /\ Starts(slots[r]) /\ clusters' = clusters
        /\ slots' = [slots EXCEPT ![s] = v]
    BY <1>5 DEF LoadField, FieldOf
  <2>2. a \in UsedIn(clusters)
    BY <2>1, StartsUsed
  <2> HIDE DEF a
  <2>3. v = Null \/ Onto(clusters, v)
    BY <2>2 DEF RefsValid, ValidIn
  <2> HIDE DEF v
  <2> QED
    BY <1>0, <2>1, <2>3, SlotRefs
<1>6. ASSUME NEW s \in Slots, NEW r \in Slots, Copy(s, r)
      PROVE  RefsValid'
  <2> DEFINE v == slots[r]
  <2>1. /\ clusters' = clusters /\ slots' = [slots EXCEPT ![s] = v]
        /\ Onto(clusters, v)
    BY <1>1, <1>6 DEF Copy
  <2> HIDE DEF v
  <2> QED
    BY <2>1, SlotRefs
<1>7. ASSUME NEW s \in Slots, Forget(s)
      PROVE  RefsValid'
  <2>1. clusters' = clusters /\ slots' = [slots EXCEPT ![s] = Null]
    BY <1>7 DEF Forget
  <2> QED
    BY <2>1, SlotRefs
<1>8. ASSUME NEW s \in Stack, Advance(s)
      PROVE  RefsValid'
  <2> DEFINE q == <<slots[s][1], slots[s][2] + Hdr(clusters, HeaderOf(slots[s])).size - 2>>
  <2>1. slots' = [slots EXCEPT ![s] = q] /\ clusters' = clusters /\ Into(clusters, q)
    BY <1>8, AdvanceOwner
  <2> HIDE DEF q
  <2> QED
    BY <1>0, <2>1, SlotRefs
<1>9. CASE Collect
  BY <1>9, CollectRefs
<1>10. CASE UNCHANGED vars
  BY <1>10 DEF vars, RefsValid
<1> QED
  BY <1>2, <1>3, <1>4, <1>5, <1>6, <1>7, <1>8, <1>9, <1>10 DEF Next

(* The inductive invariant.                                                *)
RefsInv == astray = {} => HeapInv /\ RefsValid

LEMMA RefsStep ==
  ASSUME RefsInv, [Next]_vars, astray' = {}
  PROVE  HeapInv /\ RefsValid /\ HeapInv' /\ RefsValid'
<1>1. astray = {} /\ Unslivered'
  BY AstrayGrows DEF Unslivered
<1>2. HeapInv /\ RefsValid
  BY <1>1 DEF RefsInv
<1> QED
  BY <1>1, <1>2, NextInv, NextRefs

LEMMA RefsAlways ==
  Spec => []RefsInv
<1>1. Init => RefsInv
  BY InitInv, InitRefs DEF RefsInv
<1>2. ASSUME RefsInv, [Next]_vars
      PROVE  RefsInv'
  <2> SUFFICES ASSUME astray' = {} PROVE HeapInv' /\ RefsValid'
    BY DEF RefsInv
  <2> QED
    BY <1>2, RefsStep
<1> QED
  BY <1>1, <1>2, PTL DEF Spec

-----------------------------------------------------------------------------
(* What the program sees.                                                  *)

TypeOf(cs) == [a \in UsedIn(cs) |-> Hdr(cs, a).tag]
RefOf(cs) == [a \in UsedIn(cs) |-> OwnerIn(cs, FieldOf(cs, a))]
SlotOf(cs, held) == [s \in Slots |-> OwnerIn(cs, held[s])]

LEMMA Mapping ==
  /\ Used = UsedIn(clusters)
  /\ \A p : Owner(p) = OwnerIn(clusters, p)
  /\ [a \in Used |-> Hdr(clusters, a).tag] = TypeOf(clusters)
  /\ [a \in Used |-> Owner(clusters[a[1]].field[a[2]])] = RefOf(clusters)
  /\ [s \in Slots |-> Owner(slots[s])] = SlotOf(clusters, slots)
  /\ Objects!Objects = UsedIn(clusters)
<1>1. Used = UsedIn(clusters)
  BY DEF Used, UsedIn, UsedOf
<1>2. \A p : Owner(p) = OwnerIn(clusters, p)
  BY DEF Owner, OwnerIn
<1> QED
  BY <1>1, <1>2 DEF TypeOf, RefOf, SlotOf, FieldOf, Objects!Objects

LEMMA MappingPrime ==
  /\ [a \in Used |-> Hdr(clusters, a).tag]' = TypeOf(clusters')
  /\ [a \in Used |-> Owner(clusters[a[1]].field[a[2]])]' = RefOf(clusters')
  /\ [s \in Slots |-> Owner(slots[s])]' = SlotOf(clusters', slots')
<1>1. Used' = UsedIn(clusters')
  BY DEF Used, UsedIn, UsedOf
<1>2. \A p : Owner(p)' = OwnerIn(clusters', p)
  BY DEF Owner, OwnerIn
<1> QED
  BY <1>1, <1>2 DEF TypeOf, RefOf, SlotOf, FieldOf

(* What a program can get at, in the blocks and in the objects.            *)
LEMMA SameReachable ==
  ASSUME HeapInv, RefsValid
  PROVE  Objects!Reachable = ReachIn(clusters, slots)
<1> DEFINE X == UsedIn(clusters)
           R == RootsIn(clusters, slots)
           E == Edges(clusters)
           held == SlotOf(clusters, slots)
           ref == RefOf(clusters)
           referred(A) == ({held[s] : s \in Slots} \cup {ref[a] : a \in A}) \cap X
<1>1. Objects!Reachable = {a \in X : \A A \in SUBSET X : referred(A) \subseteq A => a \in A}
  BY Mapping DEF Objects!Reachable
<1>2. SoundClusters(clusters) /\ Len(clusters) <= MaxClusters /\ ValidIn(clusters, slots)
  BY InvHolds DEF HeapInv, RefsValid
<1>3. /\ R = {held[s] : s \in Slots} \cap X
      /\ \A a, b \in X : <<a, b>> \in E <=> ref[a] = b
  BY <1>2, OwnersOf DEF SlotOf, RefOf
<1> HIDE DEF held, ref, X, R, E
<1>4. ASSUME NEW A \in SUBSET X
      PROVE  referred(A) \subseteq A <=> R \subseteq A /\ Closed(X, E, A)
  <2>1. referred(A) = R \cup {b \in X : \E a \in A : ref[a] = b}
    BY <1>3
  <2> HIDE DEF referred
  <2>2. \A a \in A, b \in X : <<a, b>> \in E <=> ref[a] = b
    BY <1>3
  <2> QED
    BY <2>1, <2>2 DEF Closed
<1> HIDE DEF referred
<1>5. Objects!Reachable = Reach(X, R, E)
  BY <1>1, <1>4 DEF Reach
<1> QED
  BY <1>5 DEF ReachIn, X, R, E

(* No use after free: whatever a program can get at is a block in use      *)
(* (mark_object, cluster_sweep and Cluster::try_alloc together), until an  *)
(* allocation leaves a sliver or a reference is stored in a field that the *)
(* TypeDesc does not list.                                                 *)
THEOREM NothingDangles ==
  Spec => []NoDangling
<1>1. RefsInv => NoDangling
  <2> SUFFICES ASSUME HeapInv, RefsValid PROVE ReachesUsedOnly
    BY DEF RefsInv, NoDangling
  <2> DEFINE refs(A) == {Owner(clusters[a[1]].field[a[2]]) : a \in A} \ {Null}
  <2>1. /\ \A s \in Slots : OwnerIn(clusters, slots[s]) \in {Null} \cup UsedIn(clusters)
        /\ \A a \in UsedIn(clusters) :
             OwnerIn(clusters, FieldOf(clusters, a)) \in {Null} \cup UsedIn(clusters)
    <3>1. SoundClusters(clusters) /\ Len(clusters) <= MaxClusters /\ ValidIn(clusters, slots)
      BY InvHolds DEF HeapInv, RefsValid
    <3> QED
      BY <3>1, OwnersOf
  <2>2. {Owner(slots[s]) : s \in Slots} \ {Null} \subseteq Used
    BY <2>1, Mapping
  <2>3. Objects!Reachable \subseteq UsedIn(clusters)
    BY SameReachable DEF ReachIn, Reach
  <2>4. refs(Objects!Reachable) \subseteq Used
    BY <2>1, <2>3, Mapping DEF FieldOf
  <2> QED
    BY <2>2, <2>4 DEF ReachesUsedOnly
<1> QED
  BY <1>1, RefsAlways, PTL

-----------------------------------------------------------------------------
(* Every step of the clusters is a step of the objects, or none.           *)

(* Owners stay when only blocks go to which no reference leads.            *)
LEMMA ShrunkOwners ==
  ASSUME NEW cs, SoundClusters(cs), Len(cs) <= MaxClusters,
         NEW ds, SoundClusters(ds), Len(ds) <= MaxClusters,
         NEW held, ValidIn(cs, held), Shrinks(cs, ds),
         RootsIn(cs, held) \subseteq UsedIn(ds),
         Closed(UsedIn(cs), Edges(cs), UsedIn(ds))
  PROVE  /\ \A s \in Slots : OwnerIn(ds, held[s]) = OwnerIn(cs, held[s])
         /\ \A a \in UsedIn(ds) :
              OwnerIn(ds, FieldOf(ds, a)) = OwnerIn(cs, FieldOf(cs, a))
<1>1. \A b \in UsedIn(ds) : \A p : At(cs, p, b) => OwnerIn(ds, p) = b /\ OwnerIn(cs, p) = b
  <2> TAKE b \in UsedIn(ds)
  <2>1. b \in UsedIn(cs) \cap UsedIn(ds) /\ Hdr(cs, b).size = Hdr(ds, b).size
    BY DEF Shrinks
  <2> QED
    BY <2>1, SameOwner
<1>2. OwnerIn(ds, Null) = Null /\ OwnerIn(cs, Null) = Null
  BY OwnerIs
<1>3. ASSUME NEW s \in Slots
      PROVE  OwnerIn(ds, held[s]) = OwnerIn(cs, held[s])
  <2>1. \/ held[s] = Null
        \/ OwnerIn(cs, held[s]) \in UsedIn(cs) /\ At(cs, held[s], OwnerIn(cs, held[s]))
    BY OwnersOf
  <2>2. ASSUME held[s] # Null
        PROVE  OwnerIn(cs, held[s]) \in UsedIn(ds)
    BY <2>1, <2>2 DEF RootsIn
  <2> QED
    BY <2>1, <2>2, <1>1, <1>2
<1>4. ASSUME NEW a \in UsedIn(ds)
      PROVE  OwnerIn(ds, FieldOf(ds, a)) = OwnerIn(cs, FieldOf(cs, a))
  <2> DEFINE b == OwnerIn(cs, FieldOf(cs, a))
  <2>1. a \in UsedIn(cs) /\ FieldOf(ds, a) = FieldOf(cs, a)
    BY DEF Shrinks
  <2>2. FieldOf(cs, a) = Null \/ (b \in UsedIn(cs) /\ FieldOf(cs, a) = Payload(b))
    BY <2>1, OwnersOf
  <2> HIDE DEF b
  <2>3. ASSUME FieldOf(cs, a) # Null
        PROVE  b \in UsedIn(ds) /\ At(cs, FieldOf(cs, a), b)
    <3>1. b \in UsedIn(cs) /\ FieldOf(cs, a) = Payload(b)
      BY <2>2, <2>3
    <3>2. <<a, b>> \in Edges(cs)
      BY <2>1, <3>1 DEF Edges
    <3>3. At(cs, Payload(b), b)
      BY <3>1, AtUnique
    <3> QED
      BY <2>1, <3>1, <3>2, <3>3 DEF Closed
  <2> QED
    BY <2>1, <2>3, <1>1, <1>2
<1> QED
  BY <1>3, <1>4

LEMMA InitMaps == Init => Objects!ObjInit
<1> SUFFICES ASSUME Init PROVE Objects!ObjInit
  OBVIOUS
<1>1. clusters = <<>> /\ slots = [s \in Slots |-> Null]
  BY DEF Init
<1>2. UsedIn(clusters) = {}
  BY <1>1 DEF UsedIn
<1>3. \A f : f = [a \in {} |-> f[a]] => f = <<>>
  OBVIOUS
<1>4. TypeOf(clusters) = <<>> /\ RefOf(clusters) = <<>>
  BY <1>2, <1>3 DEF TypeOf, RefOf
<1>5. SlotOf(clusters, slots) = [s \in Slots |-> Null]
  BY <1>1 DEF SlotOf, OwnerIn
<1> QED
  BY <1>4, <1>5, Mapping DEF Objects!ObjInit

LEMMA NewMaps ==
  ASSUME NEW s \in Slots, NEW a \in Addresses,
         NEW kept \in {Objects!Objects, Objects!Reachable}, NEW T \in Types,
         UsedIn(clusters') = kept \cup {a},
         \A r \in Slots : OwnerIn(clusters', slots'[r]) =
                            IF r = s THEN a ELSE OwnerIn(clusters, slots[r]),
         \A b \in kept \cup {a} :
           /\ Hdr(clusters', b).tag = IF b = a THEN T ELSE TypeOf(clusters)[b]
           /\ OwnerIn(clusters', FieldOf(clusters', b)) =
                IF b = a THEN Null ELSE RefOf(clusters)[b],
         \A b \in kept : Objects!Extent(a, T) \cap Objects!Extent(b, TypeOf(clusters)[b]) = {}
  PROVE  Objects!New
<1> DEFINE type == [b \in Used |-> Hdr(clusters, b).tag]
           ref == [b \in Used |-> Owner(clusters[b[1]].field[b[2]])]
           held == [r \in Slots |-> Owner(slots[r])]
<1>1. type = TypeOf(clusters) /\ ref = RefOf(clusters) /\ held = SlotOf(clusters, slots)
  BY Mapping
<1>2. /\ type' = TypeOf(clusters') /\ ref' = RefOf(clusters')
      /\ held' = SlotOf(clusters', slots')
  BY MappingPrime
<1> HIDE DEF type, ref, held
<1>3. held' = [held EXCEPT ![s] = a]
  BY <1>1, <1>2 DEF SlotOf
<1>4. type' = [b \in kept \cup {a} |-> IF b = a THEN T ELSE type[b]]
  BY <1>1, <1>2 DEF TypeOf
<1>5. ref' = [b \in kept \cup {a} |-> IF b = a THEN Null ELSE ref[b]]
  BY <1>1, <1>2 DEF RefOf
<1>6. \A b \in kept : Objects!Extent(a, T) \cap Objects!Extent(b, type[b]) = {}
  BY <1>1
<1>7. held' = [held EXCEPT ![s] = a] /\ \E S \in Types :
        /\ type' = [b \in kept \cup {a} |-> IF b = a THEN S ELSE type[b]]
        /\ \A b \in kept : Objects!Extent(a, S) \cap Objects!Extent(b, type[b]) = {}
  BY <1>3, <1>4, <1>6
<1>8. \E q \in Slots, c \in Addresses, some \in {Objects!Objects, Objects!Reachable} :
        /\ held' = [held EXCEPT ![q] = c]
        /\ \E S \in Types :
             /\ type' = [b \in some \cup {c} |-> IF b = c THEN S ELSE type[b]]
             /\ \A b \in some : Objects!Extent(c, S) \cap Objects!Extent(b, type[b]) = {}
        /\ ref' = [b \in some \cup {c} |-> IF b = c THEN Null ELSE ref[b]]
  <2> WITNESS s \in Slots, a \in Addresses, kept \in {Objects!Objects, Objects!Reachable}
  <2> QED
    BY <1>5, <1>7
<1> QED
  BY <1>8, Zenon DEF Objects!New, type, ref, held

LEMMA SetRefMaps ==
  ASSUME NEW s \in Slots,
         NEW v \in {SlotOf(clusters, slots)[r] : r \in Slots} \cup {Null},
         SlotOf(clusters, slots)[s] \in UsedIn(clusters),
         TypeOf(clusters') = TypeOf(clusters),
         SlotOf(clusters', slots') = SlotOf(clusters, slots),
         RefOf(clusters') = [RefOf(clusters) EXCEPT ![SlotOf(clusters, slots)[s]] = v]
  PROVE  Objects!SetRef
<1> DEFINE type == [b \in Used |-> Hdr(clusters, b).tag]
           ref == [b \in Used |-> Owner(clusters[b[1]].field[b[2]])]
           held == [r \in Slots |-> Owner(slots[r])]
<1>1. type = TypeOf(clusters) /\ ref = RefOf(clusters) /\ held = SlotOf(clusters, slots)
  BY Mapping
<1>2. /\ type' = TypeOf(clusters') /\ ref' = RefOf(clusters')
      /\ held' = SlotOf(clusters', slots')
  BY MappingPrime
<1> HIDE DEF type, ref, held
<1>3. type' = type /\ held' = held
  BY <1>1, <1>2
<1>4. ref' = [ref EXCEPT ![held[s]] = v]
  BY <1>1, <1>2
<1>5. held[s] \in Objects!Objects /\ v \in {held[r] : r \in Slots} \cup {Null}
  BY <1>1, Mapping
<1> QED
  BY <1>3, <1>4, <1>5 DEF Objects!SetRef, type, ref, held

LEMMA SetSlotMaps ==
  ASSUME NEW s \in Slots, NEW v,
         \/ v = Null
         \/ \E r \in Slots : v = SlotOf(clusters, slots)[r]
         \/ \E r \in Slots : /\ SlotOf(clusters, slots)[r] \in UsedIn(clusters)
                             /\ v = RefOf(clusters)[SlotOf(clusters, slots)[r]],
         clusters' = clusters,
         SlotOf(clusters', slots') = [SlotOf(clusters, slots) EXCEPT ![s] = v]
  PROVE  Objects!SetSlot
<1> DEFINE type == [b \in Used |-> Hdr(clusters, b).tag]
           ref == [b \in Used |-> Owner(clusters[b[1]].field[b[2]])]
           held == [r \in Slots |-> Owner(slots[r])]
           seen == {held[r] : r \in Slots}
<1>1. type = TypeOf(clusters) /\ ref = RefOf(clusters) /\ held = SlotOf(clusters, slots)
  BY Mapping
<1>2. /\ type' = TypeOf(clusters') /\ ref' = RefOf(clusters')
      /\ held' = SlotOf(clusters', slots')
  BY MappingPrime
<1> HIDE DEF type, ref, held
<1>3. type' = type /\ ref' = ref
  BY <1>1, <1>2
<1>4. held' = [held EXCEPT ![s] = v]
  BY <1>1, <1>2
<1>5. v \in seen \cup {Null} \cup {ref[a] : a \in seen \cap Objects!Objects}
  BY <1>1, Mapping
<1> QED
  BY <1>3, <1>4, <1>5 DEF Objects!SetSlot, type, ref, held

LEMMA ReclaimMaps ==
  ASSUME SlotOf(clusters', slots') = SlotOf(clusters, slots),
         TypeOf(clusters') = [a \in Objects!Reachable |-> TypeOf(clusters)[a]],
         RefOf(clusters') = [a \in Objects!Reachable |-> RefOf(clusters)[a]]
  PROVE  Objects!Reclaim
BY Mapping, MappingPrime DEF Objects!Reclaim

LEMMA NewRecIsNew ==
  ASSUME HeapInv, RefsValid,
         NEW s \in Stack, NEW T \in Types, NewRec(s, T), Unslivered'
  PROVE  Objects!New
<1>1. /\ GoodHeap(Heap) /\ SoundClusters(clusters) /\ Len(clusters) <= MaxClusters
      /\ slots \in [Slots -> {Null} \cup PointersTo(Len(clusters))]
      /\ ValidIn(clusters, slots) /\ s \in Slots
  BY InvHolds DEF HeapInv, RefsValid, Slots
<1>2. PICK g \in Rooms(T) : \E i \in CanAllocIn(g.clusters, T) :
         /\ GoodHeap(g) /\ Len(g.clusters) <= MaxClusters
         /\ ~LeavesSliver(g.clusters[i], T)
         /\ clusters' = WithBlock(g, i, T).clusters
         /\ block_count' = WithBlock(g, i, T).counts
         /\ slots' = [slots EXCEPT ![s] = Payload(NewBlock(g, i, T))]
  BY <1>1, NewRecParts
<1>3. PICK i \in CanAllocIn(g.clusters, T) :
         /\ GoodHeap(g) /\ Len(g.clusters) <= MaxClusters
         /\ ~LeavesSliver(g.clusters[i], T)
         /\ clusters' = WithBlock(g, i, T).clusters
         /\ slots' = [slots EXCEPT ![s] = Payload(NewBlock(g, i, T))]
  BY <1>2
<1> DEFINE cs == clusters
           gs == g.clusters
           ds == clusters'
           kept == UsedIn(gs)
           a == NewBlock(g, i, T)
<1>4. /\ Shrinks(cs, gs)
      /\ kept \in {UsedIn(cs), ReachIn(cs, slots)}
      /\ RootsIn(cs, slots) \subseteq kept
      /\ Closed(UsedIn(cs), Edges(cs), kept)
      /\ ValidIn(gs, slots)
  BY RoomsRefs
<1>5. /\ SoundClusters(ds) /\ Len(ds) = Len(gs)
      /\ UsedIn(ds) = kept \cup {a} /\ a \notin kept /\ a \in Addresses
      /\ Hdr(ds, a).tag = T /\ Hdr(ds, a).size = T
      /\ OwnerIn(ds, FieldOf(ds, a)) = Null /\ OwnerIn(ds, slots'[s]) = a
      /\ \A b \in kept : /\ Hdr(ds, b) = Hdr(gs, b)
                         /\ OwnerIn(ds, FieldOf(ds, b)) = OwnerIn(gs, FieldOf(gs, b))
      /\ \A r \in Slots : r # s => OwnerIn(ds, slots'[r]) = OwnerIn(gs, slots[r])
  <2> DEFINE V == {Null} \cup PointersTo(Len(clusters))
  <2>1. slots \in [Slots -> V]
    BY <1>1
  <2>2. /\ ds = WithBlock(g, i, T).clusters
        /\ slots' = [slots EXCEPT ![s] = Payload(a)]
    BY <1>3
  <2>3. GoodHeap(g) /\ Len(g.clusters) <= MaxClusters /\ ValidIn(g.clusters, slots)
    BY <1>3, <1>4
  <2> HIDE DEF V
  <2>4. BlockAdded(g, i, T, s, slots)
    BY <1>3, <2>1, <2>3, BlockRefs
  <2> HIDE DEF ds
  <2> QED
    BY <2>2, <2>4 DEF BlockAdded
<1>6. SoundClusters(gs) /\ Len(gs) <= MaxClusters
  BY <1>3 DEF GoodHeap
<1> HIDE DEF cs, gs, ds, kept, a
<1>7. /\ \A r \in Slots : OwnerIn(gs, slots[r]) = OwnerIn(cs, slots[r])
      /\ \A b \in kept : OwnerIn(gs, FieldOf(gs, b)) = OwnerIn(cs, FieldOf(cs, b))
  <2>1. /\ SoundClusters(cs) /\ Len(cs) <= MaxClusters /\ ValidIn(cs, slots)
        /\ RootsIn(cs, slots) \subseteq UsedIn(gs)
        /\ Closed(UsedIn(cs), Edges(cs), UsedIn(gs))
    BY <1>1, <1>4 DEF cs, kept
  <2>2. /\ \A r \in Slots : OwnerIn(gs, slots[r]) = OwnerIn(cs, slots[r])
        /\ \A b \in UsedIn(gs) : OwnerIn(gs, FieldOf(gs, b)) = OwnerIn(cs, FieldOf(cs, b))
    BY <2>1, <1>4, <1>6, ShrunkOwners
  <2> QED
    BY <2>2 DEF kept
<1>8. /\ kept \subseteq UsedIn(cs)
      /\ \A b \in kept : Hdr(gs, b).tag = Hdr(cs, b).tag /\ Hdr(gs, b).size = Hdr(gs, b).tag
  BY <1>4 DEF Shrinks, ValidIn, kept
<1>9. \A r \in Slots : OwnerIn(ds, slots'[r]) = IF r = s THEN a ELSE OwnerIn(cs, slots[r])
  BY <1>5, <1>7
<1>10. \A b \in kept \cup {a} :
         /\ Hdr(ds, b).tag = IF b = a THEN T ELSE TypeOf(cs)[b]
         /\ OwnerIn(ds, FieldOf(ds, b)) = IF b = a THEN Null ELSE RefOf(cs)[b]
  BY <1>5, <1>7, <1>8 DEF TypeOf, RefOf
<1>11. UsedIn(ds) = kept \cup {a} /\ a \in Addresses
  BY <1>5
<1>12. \A b \in kept : Objects!Extent(a, T) \cap Objects!Extent(b, TypeOf(cs)[b]) = {}
  <2> TAKE b \in kept
  <2> DEFINE n == Hdr(ds, b).size
  <2>1. TypeOf(cs)[b] = n
    BY <1>5, <1>8 DEF TypeOf
  <2>2. /\ a[2] \in Nat /\ b[2] \in Nat /\ n \in Nat /\ T \in Nat
        /\ a[1] = b[1] => a[2] + T <= b[2] \/ b[2] + n <= a[2]
    <3>1. a \in UsedIn(ds) /\ b \in UsedIn(ds) /\ a # b /\ Len(ds) <= MaxClusters
      BY <1>5, <1>6
    <3>2. /\ a[2] \in Nat /\ b[2] \in Nat /\ n \in Nat /\ Hdr(ds, a).size \in Nat
          /\ a[1] = b[1] => \/ a[2] + Hdr(ds, a).size <= b[2]
                            \/ b[2] + Hdr(ds, b).size <= a[2]
      BY <3>1, <1>5, BlocksApart
    <3> QED
      BY <3>2, <1>5
  <2> HIDE DEF n
  <2>3. \A u \in a[2] .. a[2] + T - 1, v \in b[2] .. b[2] + n - 1 : <<a[1], u>> # <<b[1], v>>
    BY <2>2
  <2> QED
    BY <2>1, <2>3 DEF Objects!Extent
<1>13. kept \in {Objects!Objects, Objects!Reachable}
  BY <1>4, SameReachable, Mapping DEF cs
<1> USE DEF cs, ds
<1> QED
  BY <1>1, <1>9, <1>10, <1>11, <1>12, <1>13, NewMaps

LEMMA SetFieldIsSetRef ==
  ASSUME HeapInv, RefsValid, NEW s \in Slots, NEW v,
         v = Null \/ \E r \in Slots : v = slots[r] /\ Starts(v),
         SetField(s, v), HeapInv'
  PROVE  Objects!SetRef
<1> DEFINE a == HeaderOf(slots[s])
           cs == clusters
           ds == clusters'
<1>1. /\ SoundClusters(cs) /\ Len(cs) <= MaxClusters /\ ValidIn(cs, slots)
      /\ slots' = slots
  BY InvHolds DEF HeapInv, RefsValid, SetField
<1>2. SoundClusters(ds) /\ Len(ds) <= MaxClusters
  BY DEF HeapInv, GoodHeap, Heap
<1>3. /\ a \in UsedIn(cs) /\ OwnerIn(cs, slots[s]) = a
      /\ UsedIn(ds) = UsedIn(cs)
      /\ \A b \in UsedIn(cs) : Hdr(ds, b) = Hdr(cs, b)
      /\ FieldOf(ds, a) = v
      /\ \A b \in UsedIn(cs) : b # a => FieldOf(ds, b) = FieldOf(cs, b)
  BY SetFieldParts
<1>4. v = Null \/ Onto(cs, v)
  BY StartsUsed DEF Onto
<1>5. v = Null \/ \E r \in Slots : v = slots[r]
  OBVIOUS
<1> HIDE DEF a, cs, ds
<1>6. \A p : p = Null \/ Into(cs, p) => OwnerIn(ds, p) = OwnerIn(cs, p)
  <2>1. \A b \in UsedIn(cs) : \A p : At(cs, p, b) => OwnerIn(ds, p) = b /\ OwnerIn(cs, p) = b
    <3> TAKE b \in UsedIn(cs)
    <3>1. b \in UsedIn(cs) \cap UsedIn(ds) /\ Hdr(cs, b).size = Hdr(ds, b).size
      BY <1>3
    <3> QED
      BY <3>1, <1>1, <1>2, SameOwner
  <2>2. OwnerIn(ds, Null) = Null /\ OwnerIn(cs, Null) = Null
    BY <1>1, <1>2, OwnerIs
  <2> QED
    BY <2>1, <2>2 DEF Into
<1>7. /\ \A p : Onto(cs, p) => Into(cs, p)
      /\ \A r \in Slots : slots[r] = Null \/ Into(cs, slots[r])
      /\ \A b \in UsedIn(cs) : FieldOf(cs, b) = Null \/ Into(cs, FieldOf(cs, b))
  <2>1. \A p : Onto(cs, p) => Into(cs, p)
    BY <1>1, OntoInto
  <2> QED
    BY <2>1, <1>1 DEF ValidIn, Slots
<1>8. SlotOf(ds, slots') = SlotOf(cs, slots)
  BY <1>1, <1>6, <1>7 DEF SlotOf
<1>9. TypeOf(ds) = TypeOf(cs)
  BY <1>3 DEF TypeOf
<1>10. RefOf(ds) = [RefOf(cs) EXCEPT ![a] = OwnerIn(cs, v)]
  <2>1. \A b \in UsedIn(cs) :
          OwnerIn(ds, FieldOf(ds, b)) =
            IF b = a THEN OwnerIn(cs, v) ELSE OwnerIn(cs, FieldOf(cs, b))
    BY <1>3, <1>4, <1>6, <1>7
  <2> QED
    BY <2>1, <1>3 DEF RefOf
<1>11. SlotOf(cs, slots)[s] = a
  BY <1>3 DEF SlotOf
<1>12. OwnerIn(cs, v) \in {SlotOf(cs, slots)[r] : r \in Slots} \cup {Null}
  <2>1. OwnerIn(cs, Null) = Null
    BY <1>1, OwnerIs
  <2>2. \A r \in Slots : SlotOf(cs, slots)[r] = OwnerIn(cs, slots[r])
    BY DEF SlotOf
  <2> QED
    BY <2>1, <2>2, <1>5
<1> QED
  BY <1>3, <1>8, <1>9, <1>10, <1>11, <1>12, SetRefMaps DEF cs, ds

(* Slots only, and what they get is Null, a slot's reference, or that of   *)
(* a field.                                                                *)
LEMMA SlotIsSetSlot ==
  ASSUME HeapInv, RefsValid, NEW s \in Slots, NEW v,
         \/ v = Null
         \/ \E r \in Slots : OwnerIn(clusters, v) = OwnerIn(clusters, slots[r])
         \/ \E r \in Slots : /\ Starts(slots[r])
                             /\ v = FieldOf(clusters, HeaderOf(slots[r])),
         clusters' = clusters, slots' = [slots EXCEPT ![s] = v]
  PROVE  Objects!SetSlot
<1> DEFINE w == OwnerIn(clusters, v)
<1>1. SoundClusters(clusters) /\ Len(clusters) <= MaxClusters /\ DOMAIN slots = Slots
  BY InvHolds DEF HeapInv
<1>2. \A r \in Slots : SlotOf(clusters, slots)[r] = OwnerIn(clusters, slots[r])
  BY DEF SlotOf
<1>3. \/ w = Null
      \/ \E r \in Slots : w = SlotOf(clusters, slots)[r]
      \/ \E r \in Slots : /\ SlotOf(clusters, slots)[r] \in UsedIn(clusters)
                          /\ w = RefOf(clusters)[SlotOf(clusters, slots)[r]]
  <2>1. CASE v = Null
    BY <2>1, <1>1, OwnerIs
  <2>2. CASE \E r \in Slots : OwnerIn(clusters, v) = OwnerIn(clusters, slots[r])
    BY <2>2, <1>2
  <2>3. ASSUME NEW r \in Slots, Starts(slots[r]), v = FieldOf(clusters, HeaderOf(slots[r]))
        PROVE  /\ SlotOf(clusters, slots)[r] \in UsedIn(clusters)
               /\ w = RefOf(clusters)[SlotOf(clusters, slots)[r]]
    <3> DEFINE a == HeaderOf(slots[r])
    <3>1. a \in UsedIn(clusters) /\ OwnerIn(clusters, slots[r]) = a
      BY <2>3, StartsUsed
    <3>2. v = FieldOf(clusters, a)
      BY <2>3
    <3> HIDE DEF a
    <3> QED
      BY <3>1, <3>2, <1>2 DEF RefOf
  <2> QED
    BY <2>1, <2>2, <2>3
<1>4. SlotOf(clusters', slots') = [SlotOf(clusters, slots) EXCEPT ![s] = w]
  <2>1. \A r \in Slots : OwnerIn(clusters', slots'[r]) =
                           IF r = s THEN w ELSE OwnerIn(clusters, slots[r])
    BY <1>1
  <2> HIDE DEF w
  <2> QED
    BY <2>1 DEF SlotOf
<1> HIDE DEF w
<1> QED
  BY <1>3, <1>4, SetSlotMaps

LEMMA CollectIsReclaim ==
  ASSUME HeapInv, RefsValid, Collect, HeapInv'
  PROVE  Objects!Reclaim
<1> DEFINE cs == clusters
           ds == clusters'
<1>1. /\ SoundClusters(cs) /\ Len(cs) <= MaxClusters /\ ValidIn(cs, slots)
      /\ slots' = slots
  BY InvHolds DEF HeapInv, RefsValid, Collect
<1>2. SoundClusters(ds) /\ Len(ds) <= MaxClusters
  BY DEF HeapInv, GoodHeap, Heap
<1>3. /\ UsedIn(ds) = ReachIn(cs, slots)
      /\ Shrinks(cs, ds)
      /\ RootsIn(cs, slots) \subseteq UsedIn(ds)
      /\ Closed(UsedIn(cs), Edges(cs), UsedIn(ds))
  BY CollectRefs
<1>4. Objects!Reachable = ReachIn(cs, slots)
  BY SameReachable
<1> HIDE DEF cs, ds
<1>5. /\ \A s \in Slots : OwnerIn(ds, slots[s]) = OwnerIn(cs, slots[s])
      /\ \A a \in UsedIn(ds) :
           OwnerIn(ds, FieldOf(ds, a)) = OwnerIn(cs, FieldOf(cs, a))
  BY <1>1, <1>2, <1>3, ShrunkOwners
<1>6. SlotOf(ds, slots') = SlotOf(cs, slots)
  BY <1>1, <1>5 DEF SlotOf
<1>7. TypeOf(ds) = [a \in UsedIn(ds) |-> TypeOf(cs)[a]]
  BY <1>3 DEF TypeOf, Shrinks
<1>8. RefOf(ds) = [a \in UsedIn(ds) |-> RefOf(cs)[a]]
  BY <1>3, <1>5 DEF RefOf, Shrinks
<1> QED
  BY <1>3, <1>4, <1>6, <1>7, <1>8, ReclaimMaps DEF cs, ds

LEMMA StepMaps ==
  ASSUME HeapInv, RefsValid, [Next]_vars, HeapInv', astray' = {}
  PROVE  [Objects!ObjNext]_(Objects!objVars)
<1>a. Unslivered'
  BY DEF Unslivered
<1>0. /\ SoundClusters(clusters) /\ Len(clusters) <= MaxClusters
      /\ DOMAIN slots = Slots /\ Stack \subseteq Slots
  BY InvHolds DEF HeapInv, Slots
<1>1. ASSUME NEW s \in Stack, NEW T \in Types, NewRec(s, T)
      PROVE  Objects!New
  BY <1>1, <1>a, NewRecIsNew
<1>2. ASSUME NEW s \in Slots, NEW r \in Slots, SetField(s, slots[r])
      PROVE  Objects!SetRef
  <2> DEFINE v == slots[r]
  <2>1. SetField(s, v) /\ (v = Null \/ \E q \in Slots : v = slots[q] /\ Starts(v))
    BY <1>2 DEF SetField
  <2> HIDE DEF v
  <2> QED
    BY <2>1, SetFieldIsSetRef
<1>3. ASSUME NEW s \in Slots, SetField(s, Null)
      PROVE  Objects!SetRef
  BY <1>3, SetFieldIsSetRef
<1>4. ASSUME NEW s \in Stack, NEW r \in Slots, LoadField(s, r)
      PROVE  Objects!SetSlot
  <2> DEFINE v == FieldOf(clusters, HeaderOf(slots[r]))
  <2>1. /\ Starts(slots[r]) /\ clusters' = clusters
        /\ slots' = [slots EXCEPT ![s] = v]
        /\ v = FieldOf(clusters, HeaderOf(slots[r]))
    BY <1>4 DEF LoadField, FieldOf
  <2> HIDE DEF v
  <2> QED
    BY <1>0, <2>1, SlotIsSetSlot
<1>5. ASSUME NEW s \in Slots, NEW r \in Slots, Copy(s, r)
      PROVE  Objects!SetSlot
  <2> DEFINE v == slots[r]
  <2>1. /\ clusters' = clusters /\ slots' = [slots EXCEPT ![s] = v]
        /\ OwnerIn(clusters, v) = OwnerIn(clusters, slots[r])
    BY <1>5 DEF Copy
  <2> HIDE DEF v
  <2> QED
    BY <2>1, SlotIsSetSlot
<1>6. ASSUME NEW s \in Slots, Forget(s)
      PROVE  Objects!SetSlot
  <2>1. clusters' = clusters /\ slots' = [slots EXCEPT ![s] = Null]
    BY <1>6 DEF Forget
  <2> QED
    BY <2>1, SlotIsSetSlot
<1>7. ASSUME NEW s \in Stack, Advance(s)
      PROVE  Objects!SetSlot
  <2> DEFINE q == <<slots[s][1], slots[s][2] + Hdr(clusters, HeaderOf(slots[s])).size - 2>>
  <2>1. /\ slots' = [slots EXCEPT ![s] = q] /\ clusters' = clusters
        /\ OwnerIn(clusters, q) = OwnerIn(clusters, slots[s])
    BY <1>7, AdvanceOwner
  <2> HIDE DEF q
  <2> QED
    BY <1>0, <2>1, SlotIsSetSlot
<1>8. CASE Collect
  BY <1>8, CollectIsReclaim DEF Objects!ObjNext
<1>9. CASE UNCHANGED vars
  <2>1. clusters' = clusters /\ slots' = slots
    BY <1>9 DEF vars
  <2>2. UNCHANGED Objects!objVars
    BY <2>1, Mapping, MappingPrime DEF Objects!objVars
  <2> QED
    BY <2>2
<1> QED
  BY <1>1, <1>2, <1>3, <1>4, <1>5, <1>6, <1>7, <1>8, <1>9 DEF Next, Objects!ObjNext

(* The clusters, their free lists, the marker and the sweep implement the  *)
(* heap compiled programs are promised: objects that never overlap, keep   *)
(* their place and contents as long as the program can get at them, and a  *)
(* collection that reclaims exactly those it cannot get at                 *)
(* (Cluster::try_alloc, mark_object and cluster_sweep), until an           *)
(* allocation leaves a sliver or a reference is stored in a field that the *)
(* TypeDesc does not list.                                                 *)
THEOREM ObjectsImplemented ==
  Spec => ImplementsObjects
<1>1. Init => Objects!ObjInit
  BY InitMaps
<1>2. ASSUME RefsInv, [Next]_vars
      PROVE  [ObjectsStep]_(Objects!objVars)
  <2>1. CASE astray' = {}
    <3>1. HeapInv /\ RefsValid /\ HeapInv'
      BY <1>2, <2>1, RefsStep
    <3>2. [Objects!ObjNext]_(Objects!objVars)
      BY <1>2, <2>1, <3>1, StepMaps
    <3> QED
      BY <3>2 DEF ObjectsStep
  <2>2. CASE astray' # {}
    BY <2>2 DEF ObjectsStep
  <2> QED
    BY <2>1, <2>2
<1> QED
  BY <1>1, <1>2, RefsAlways, PTL DEF Spec, ImplementsObjects

=============================================================================
