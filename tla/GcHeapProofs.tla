---------------------------- MODULE GcHeapProofs ----------------------------
(***************************************************************************)
(* Machine-checked proofs about the heap of GcHeap, for any number of      *)
(* clusters of any size, any set of types and any slots.                   *)
(*                                                                         *)
(* All of it is for as long as no allocation has left a sliver: one that   *)
(* leaves one unit over stops the walk of the sweep there.                 *)
(*                                                                         *)
(* The first half is about one cluster: what the linear walk finds, what   *)
(* an allocation and a sweep do to the blocks, and which block a word of   *)
(* the stack resolves to.  It rests on Tiled: the blocks at the starts lie *)
(* end to end from the beginning of the cluster to the bump pointer.       *)
(***************************************************************************)
EXTENDS GcHeap, SequenceFacts, FiniteSetTheorems, FunctionTheorems

Offsets == 0 .. Units - 1
Header  == [tag : {0} \cup Types, size : 0 .. Units, mark : BOOLEAN]

Cluster ==
  [bump : 0 .. Units, free : Seq(Offsets), starts : SUBSET Offsets,
   hdr : [Offsets -> Header], field : [Offsets -> {Null} \cup Pointers]]

EndOf(c, o) == o + c.hdr[o].size

Tiled(c) ==
  /\ \A o \in c.starts : o < c.bump
  /\ c.bump > 0 => 0 \in c.starts
  /\ \A o \in c.starts :
       /\ c.hdr[o].size >= MinBlock
       /\ EndOf(c, o) <= c.bump
       /\ EndOf(c, o) \in c.starts \cup {c.bump}
  /\ \A o, p \in c.starts : o < p => EndOf(c, o) <= p

(* The types of a cluster's parts, in one place.                           *)
LEMMA ClusterParts ==
  ASSUME NEW c \in Cluster
  PROVE  /\ Units \in Nat /\ c.bump \in Nat /\ c.bump <= Units
         /\ c.free \in Seq(Offsets)
         /\ c.starts \subseteq Offsets /\ Offsets \subseteq Nat
         /\ c.hdr \in [Offsets -> Header]
         /\ c.field \in [Offsets -> {Null} \cup Pointers]
         /\ \A u \in Offsets :
              /\ c.hdr[u] \in Header
              /\ c.hdr[u].size \in Nat /\ c.hdr[u].size <= Units
              /\ c.hdr[u].tag \in {0} \cup Types
              /\ c.hdr[u].mark \in BOOLEAN
              /\ c.field[u] \in {Null} \cup Pointers
<1>1. Units \in Nat
  BY HeapAssumption
<1>2. /\ c.bump \in 0 .. Units /\ c.free \in Seq(Offsets) /\ c.starts \subseteq Offsets
      /\ c.hdr \in [Offsets -> Header]
      /\ c.field \in [Offsets -> {Null} \cup Pointers]
  BY DEF Cluster
<1>3. Offsets \subseteq Nat
  BY DEF Offsets
<1>4. \A u \in Offsets : c.hdr[u] \in Header /\ c.field[u] \in {Null} \cup Pointers
  BY <1>2
<1>5. \A h \in Header : /\ h.size \in Nat /\ h.size <= Units
                        /\ h.tag \in {0} \cup Types /\ h.mark \in BOOLEAN
  BY <1>1 DEF Header
<1>6. /\ c.bump \in Nat /\ c.bump <= Units
      /\ c.free \in Seq(Offsets) /\ c.starts \subseteq Offsets
      /\ c.hdr \in [Offsets -> Header]
      /\ c.field \in [Offsets -> {Null} \cup Pointers]
  BY <1>1, <1>2
<1>7. \A u \in Offsets :
         /\ c.hdr[u] \in Header
         /\ c.hdr[u].size \in Nat /\ c.hdr[u].size <= Units
         /\ c.hdr[u].tag \in {0} \cup Types
         /\ c.hdr[u].mark \in BOOLEAN
         /\ c.field[u] \in {Null} \cup Pointers
  BY <1>4, <1>5
<1> QED
  BY <1>1, <1>3, <1>6, <1>7

-----------------------------------------------------------------------------
(* Walking.                                                                *)

WalksOn(c, o) ==
  /\ o < c.bump
  /\ c.hdr[o].size >= MinBlock
  /\ o + c.hdr[o].size <= c.bump

(* There is a function that satisfies the recursion of Walk: every offset  *)
(* refers to higher ones only.                                             *)
LEMMA WalkExists ==
  ASSUME NEW c \in Cluster
  PROVE  \E f : f = [o \in 0 .. Units |->
                       IF WalksOn(c, o) THEN {o} \cup f[o + c.hdr[o].size] ELSE {}]
<1>0. Units \in Nat /\ c.bump \in 0 .. Units
  BY HeapAssumption DEF Cluster
<1>a. ASSUME NEW o \in 0 .. Units, WalksOn(c, o)
      PROVE  /\ o + c.hdr[o].size \in 0 .. Units
             /\ Units - (o + c.hdr[o].size) < Units - o
  <2>1. o \in Offsets /\ c.hdr[o] \in Header
    BY <1>0, <1>a DEF WalksOn, Cluster, Offsets
  <2> DEFINE s == c.hdr[o].size
  <2>2. s \in Nat /\ s >= 2 /\ o + s <= c.bump
    <3>1. s \in Nat
      BY <2>1, ClusterParts
    <3>2. s >= 2 /\ o + s <= c.bump
      BY <1>a DEF WalksOn, MinBlock
    <3> QED
      BY <3>1, <3>2
  <2> HIDE DEF s
  <2>3. o + s \in 0 .. Units /\ Units - (o + s) < Units - o
    BY <1>0, <2>2
  <2> QED
    BY <2>3 DEF s
<1> DEFINE Step(f, o) == IF WalksOn(c, o) THEN {o} \cup f[o + c.hdr[o].size] ELSE {}
           Solves(f, k) == \A o \in 0 .. Units : Units - o < k => f[o] = Step(f, o)
           Solved == {k \in Nat : \E f : f = [o \in 0 .. Units |-> f[o]] /\ Solves(f, k)}
<1>1. 0 \in Solved
  <2> DEFINE f == [o \in 0 .. Units |-> {}]
  <2>1. f = [o \in 0 .. Units |-> f[o]] /\ Solves(f, 0)
    BY <1>0
  <2> QED
    BY <2>1
<1>2. ASSUME NEW k \in Solved
      PROVE  k + 1 \in Solved
  <2>1. PICK f : f = [o \in 0 .. Units |-> f[o]] /\ Solves(f, k)
    BY <1>2
  <2> DEFINE g == [o \in 0 .. Units |-> IF Units - o < k THEN f[o] ELSE Step(f, o)]
  <2>3. ASSUME NEW o \in 0 .. Units, Units - o < k + 1
        PROVE  g[o] = Step(g, o)
    <3>1. g[o] = Step(f, o)
      BY <2>1, <2>3
    <3>2. CASE WalksOn(c, o)
      <4> DEFINE next == o + c.hdr[o].size
      <4>1. next \in 0 .. Units /\ Units - next < k
        <5>1. next \in 0 .. Units /\ Units - next < Units - o
          BY <1>a, <3>2
        <5>2. k \in Nat
          BY <1>2
        <5> HIDE DEF next, g, Solves, Solved
        <5> QED
          BY <5>1, <5>2, <1>0, <2>3, SMTT(30)
      <4> HIDE DEF next
      <4>2. g[next] = f[next]
        BY <4>1
      <4>3. g[o + c.hdr[o].size] = f[o + c.hdr[o].size]
        BY <4>2 DEF next
      <4> QED
        BY <3>1, <4>3
    <3> QED
      BY <3>1, <3>2
  <2>4. g = [o \in 0 .. Units |-> g[o]] /\ Solves(g, k + 1)
    BY <2>3
  <2> HIDE DEF g, Solves
  <2>5. \E h : h = [o \in 0 .. Units |-> h[o]] /\ Solves(h, k + 1)
    BY <2>4
  <2>6. k + 1 \in Nat
    OBVIOUS
  <2> QED
    BY <2>5, <2>6
<1>3. Solved = Nat
  <2> HIDE DEF Solved
  <2>1. Solved \in SUBSET Nat
    BY DEF Solved
  <2> QED
    BY <1>1, <1>2, <2>1, SetInduction
<1>4. PICK f : f = [o \in 0 .. Units |-> f[o]] /\ Solves(f, Units + 1)
  <2> HIDE DEF Solves
  <2>1. Units + 1 \in Solved
    BY <1>0, <1>3
  <2> QED
    BY <2>1
<1>5. \A o \in 0 .. Units : f[o] = Step(f, o)
  BY <1>0, <1>4
<1>6. f = [o \in 0 .. Units |-> Step(f, o)]
  BY <1>4, <1>5
<1> QED
  BY <1>6

(* A walk over a tiled cluster visits the starts and ends at the bump      *)
(* pointer.                                                                *)
LEMMA WalkOfTiled ==
  ASSUME NEW c \in Cluster, Tiled(c)
  PROVE  Walk(c) = c.starts
<1> DEFINE from == CHOOSE f : f = [o \in 0 .. Units |->
                       IF WalksOn(c, o) THEN {o} \cup f[o + c.hdr[o].size] ELSE {}]
           Behind(o) == {p \in c.starts : p >= o}
           Right == {k \in Nat : \A o \in c.starts \cup {c.bump} :
                                   o + k >= c.bump => from[o] = Behind(o)}
<1>1. Walk(c) = from[0]
  BY DEF Walk, WalksOn
<1>2. from = [o \in 0 .. Units |->
                IF WalksOn(c, o) THEN {o} \cup from[o + c.hdr[o].size] ELSE {}]
  BY WalkExists
<1> HIDE DEF from
<1>3. /\ Units \in Nat /\ c.bump \in 0 .. Units /\ c.starts \subseteq 0 .. Units
      /\ \A o \in c.starts : o < c.bump /\ WalksOn(c, o) /\ c.hdr[o].size \in Nat
                             /\ c.hdr[o].size >= 2
  BY HeapAssumption DEF Cluster, Tiled, Offsets, Header, MinBlock, WalksOn, EndOf
<1>4. from[c.bump] = {} /\ Behind(c.bump) = {}
  BY <1>2, <1>3 DEF WalksOn
<1>5. 0 \in Right
  BY <1>3, <1>4
<1>6. ASSUME NEW k \in Right
      PROVE  k + 1 \in Right
  <2> SUFFICES ASSUME NEW o \in c.starts, o + (k + 1) >= c.bump
               PROVE  from[o] = Behind(o)
    BY <1>3, <1>4
  <2> DEFINE q == EndOf(c, o)
  <2>1. q \in c.starts \cup {c.bump} /\ q > o /\ q + k >= c.bump /\ q <= c.bump
    BY <1>3, <1>6 DEF Tiled, EndOf
  <2>2. from[o] = {o} \cup from[q]
    BY <1>2, <1>3 DEF EndOf
  <2>3. from[q] = Behind(q)
    BY <1>6, <2>1
  <2>4. Behind(o) = {o} \cup Behind(q)
    <3>1. \A p \in c.starts : p >= o => p = o \/ p >= q
      BY <1>3 DEF Tiled
    <3>2. \A p \in c.starts : p >= q => p >= o
      BY <1>3, <2>1
    <3> QED
      BY <3>1, <3>2, <1>3
  <2> QED
    BY <2>2, <2>3, <2>4
<1>7. Right = Nat
  <2> HIDE DEF Right
  <2>1. Right \in SUBSET Nat
    BY DEF Right
  <2> QED
    BY <1>5, <1>6, <2>1, SetInduction
<1>8. \A o \in c.starts \cup {c.bump} : from[o] = Behind(o)
  <2> TAKE o \in c.starts \cup {c.bump}
  <2>1. c.bump \in Right /\ o + c.bump >= c.bump
    BY <1>3, <1>7
  <2> QED
    BY <2>1
<1>9. 0 \in c.starts \cup {c.bump}
  BY <1>3 DEF Tiled
<1>10. Behind(0) = c.starts
  BY <1>3
<1> QED
  BY <1>1, <1>8, <1>9, <1>10

(* The walk ends where the blocks do.                                      *)
LEMMA WalkEndOfTiled ==
  ASSUME NEW c \in Cluster, Tiled(c)
  PROVE  WalkEnd(c) = c.bump
<1> DEFINE E == {0} \cup {o + c.hdr[o].size : o \in c.starts}
<1>1. WalkEnd(c) = Max(E)
  BY WalkOfTiled DEF WalkEnd
<1>2. /\ c.bump \in Nat /\ c.starts \subseteq Nat
      /\ \A o \in c.starts : c.hdr[o].size \in Nat
  BY HeapAssumption DEF Cluster, Offsets, Header
<1>3. \A o \in c.starts : EndOf(c, o) \in Nat /\ EndOf(c, o) <= c.bump
  BY <1>2 DEF Tiled, EndOf
<1>4. E \in SUBSET Nat /\ E # {} /\ \A n \in E : n <= c.bump
  BY <1>2, <1>3 DEF EndOf
<1>5. c.bump \in E
  <2>1. CASE c.bump = 0
    BY <2>1
  <2>2. CASE c.bump > 0
    <3> DEFINE m == Max(c.starts)
    <3>1. /\ c.starts \in SUBSET Nat /\ c.starts # {}
          /\ \A n \in c.starts : n <= c.bump
      BY <2>2, <1>2 DEF Tiled
    <3>2. m \in c.starts /\ \A n \in c.starts : n <= m
      BY <3>1, <1>2, MaxIsGreatest
    <3> HIDE DEF m
    <3>3. EndOf(c, m) \in Nat /\ EndOf(c, m) > m
      BY <3>2, <1>2 DEF Tiled, EndOf, MinBlock
    <3>4. EndOf(c, m) \notin c.starts
      BY <3>2, <3>3, <1>2
    <3>5. EndOf(c, m) = c.bump
      BY <3>2, <3>4 DEF Tiled
    <3> QED
      BY <3>2, <3>5 DEF EndOf
  <2> QED
    BY <1>2, <2>1, <2>2
<1> HIDE DEF E
<1>6. Max(E) \in E /\ \A n \in E : n <= Max(E)
  BY <1>2, <1>4, MaxIsGreatest
<1>7. Max(E) = c.bump
  <2>1. Max(E) \in Nat /\ Max(E) <= c.bump
    BY <1>4, <1>6
  <2>2. c.bump <= Max(E)
    BY <1>5, <1>6
  <2> QED
    BY <1>2, <2>1, <2>2
<1> QED
  BY <1>1, <1>7

-----------------------------------------------------------------------------
(* What a cluster looks like between the steps of a program.               *)

UsedOf(c) == {o \in c.starts : c.hdr[o].tag # 0}
FreeOf(c) == {o \in c.starts : c.hdr[o].tag = 0}

(* The free list: the blocks without a tag, once each, no two neighbours.  *)
Listed(c) ==
  /\ ToSet(c.free) = FreeOf(c)
  /\ Once(c.free)
  /\ \A o \in FreeOf(c) : EndOf(c, o) \notin FreeOf(c)

(* Beyond the bump pointer nothing has been written yet.                   *)
Fresh(c) ==
  \A u \in Offsets : u >= c.bump => c.hdr[u].tag = 0 /\ c.field[u] = Null

(* What once was a header with a tag stays inside the cluster.             *)
Within(c) ==
  \A u \in Offsets :
    c.hdr[u].tag # 0 => c.hdr[u].size >= MinBlock /\ EndOf(c, u) <= Units

(* No header lies inside a block in use.                                   *)
Solid(c) ==
  \A o \in UsedOf(c) : \A u \in Offsets :
    o < u /\ u < EndOf(c, o) => c.hdr[u].tag = 0

Unblemished(c) == \A o \in c.starts : ~c.hdr[o].mark

Shape(c) ==
  /\ c \in Cluster
  /\ Tiled(c) /\ Listed(c)
  /\ Fresh(c) /\ Within(c) /\ Solid(c)

Sound(c) == Shape(c) /\ Unblemished(c)

LEMMA StartParts ==
  ASSUME NEW c \in Cluster, Tiled(c)
  PROVE  \A o \in c.starts :
           /\ o \in Offsets /\ o \in Nat /\ o < c.bump
           /\ c.hdr[o].size \in Nat /\ c.hdr[o].size >= 2
           /\ EndOf(c, o) \in Nat /\ o < EndOf(c, o) /\ EndOf(c, o) <= c.bump
           /\ EndOf(c, o) \in c.starts \cup {c.bump}
<1> TAKE o \in c.starts
<1> DEFINE s == c.hdr[o].size
<1>1. o \in Offsets /\ o \in Nat /\ s \in Nat
  BY ClusterParts
<1>2. /\ o < c.bump /\ s >= 2 /\ EndOf(c, o) = o + s /\ EndOf(c, o) <= c.bump
      /\ EndOf(c, o) \in c.starts \cup {c.bump}
  BY DEF Tiled, EndOf, MinBlock
<1> HIDE DEF s
<1>3. EndOf(c, o) \in Nat /\ o < EndOf(c, o)
  BY <1>1, <1>2
<1> QED
  BY <1>1, <1>2, <1>3 DEF s

(* A new cluster is empty, and sound.                                      *)
LEMMA NewClusterSound ==
  Sound(NewCluster) /\ NewCluster.starts = {} /\ UsedOf(NewCluster) = {}
<1> DEFINE c == NewCluster
<1>1. /\ c.bump = 0 /\ c.free = <<>> /\ c.starts = {}
      /\ c.hdr = [u \in Offsets |-> Zeroed]
      /\ c.field = [u \in Offsets |-> Null]
  BY DEF NewCluster, Offsets
<1>2. Zeroed \in Header
  BY HeapAssumption DEF Zeroed, Header
<1>3. c \in Cluster
  <2>1. <<>> \in Seq(Offsets)
    OBVIOUS
  <2>2. [u \in Offsets |-> Zeroed] \in [Offsets -> Header]
    BY <1>2
  <2>3. [u \in Offsets |-> Null] \in [Offsets -> {Null} \cup Pointers]
    OBVIOUS
  <2>4. 0 \in 0 .. Units
    BY HeapAssumption
  <2> QED
    BY <2>1, <2>2, <2>3, <2>4 DEF Cluster, NewCluster, Offsets
<1>4. \A u \in Offsets : c.hdr[u].tag = 0 /\ c.field[u] = Null
  BY <1>1 DEF Zeroed
<1> HIDE DEF c
<1>5. Tiled(c)
  BY <1>1 DEF Tiled
<1>7. Listed(c)
  BY <1>1 DEF Listed, FreeOf, ToSet, Once
<1>8. Fresh(c) /\ Within(c)
  BY <1>4 DEF Fresh, Within
<1>9. Solid(c) /\ Unblemished(c) /\ UsedOf(c) = {}
  BY <1>1 DEF Solid, Unblemished, UsedOf
<1> QED
  BY <1>1, <1>3, <1>5, <1>7, <1>8, <1>9 DEF Sound, Shape, c

-----------------------------------------------------------------------------
(* Allocation.                                                             *)

Block(n) == [tag |-> n, size |-> n, mark |-> FALSE]

(* d is c with a block of n units at off, in use, and nothing else about   *)
(* the blocks in use changed.                                              *)
Gains(c, d, off, n) ==
  /\ off \in Offsets /\ off \notin UsedOf(c)
  /\ UsedOf(d) = UsedOf(c) \cup {off}
  /\ d.hdr[off] = Block(n) /\ d.field[off] = Null
  /\ \A o \in UsedOf(c) : d.hdr[o] = c.hdr[o] /\ d.field[o] = c.field[o]
  /\ \A u \in Offsets : d.field[u] = Null \/ d.field[u] = c.field[u]

LEMMA TypesBounded ==
  /\ Units \in Nat
  /\ \A n \in Types : n \in Nat /\ n >= 2 /\ n <= Units /\ n # 0
  /\ \A n \in Types : Block(n) \in Header
  /\ Zeroed \in Header
<1>1. /\ Units \in Nat
      /\ \A n \in Types : n \in Nat /\ n >= 2 /\ n <= Units /\ n # 0
  BY HeapAssumption DEF MinBlock
<1> QED
  BY <1>1 DEF Block, Header, Zeroed

(* The block at the bump pointer.                                          *)
LEMMA BumpTaken ==
  ASSUME NEW c \in Cluster, NEW n \in Types, Fits(c, n) = {}, c.bump + n <= Units
  PROVE  LET d == TryAlloc(c, n)
         IN /\ d \in Cluster
            /\ AllocOffset(c, n) = c.bump /\ c.bump \in Offsets
            /\ d.bump = c.bump + n /\ d.free = c.free
            /\ d.starts = c.starts \cup {c.bump}
            /\ d.hdr = [c.hdr EXCEPT ![c.bump] = Block(n)]
            /\ d.field = c.field
<1> DEFINE t == TakeBump(c, n)
           d == TryAlloc(c, n)
<1>1. c.bump \in Offsets /\ c.bump + n \in 0 .. Units
  BY ClusterParts, TypesBounded DEF Offsets
<1>2. c.starts \cup {c.bump} \in SUBSET Offsets
  BY <1>1, ClusterParts
<1>3. t = [c EXCEPT !.bump = c.bump + n, !.starts = c.starts \cup {c.bump}]
  BY DEF TakeBump
<1>4. /\ t \in Cluster
      /\ t.bump = c.bump + n /\ t.free = c.free
      /\ t.starts = c.starts \cup {c.bump}
      /\ t.hdr = c.hdr /\ t.field = c.field
  BY <1>1, <1>2, <1>3 DEF Cluster
<1>5. d = [t EXCEPT !.hdr = [c.hdr EXCEPT ![c.bump] = Block(n)]]
  BY <1>4 DEF TryAlloc, AllocOffset, Block
<1> HIDE DEF t, d
<1>6. [c.hdr EXCEPT ![c.bump] = Block(n)] \in [Offsets -> Header]
  BY <1>1, ClusterParts, TypesBounded
<1>7. /\ d \in Cluster
      /\ d.bump = t.bump /\ d.free = t.free /\ d.starts = t.starts
      /\ d.hdr = [c.hdr EXCEPT ![c.bump] = Block(n)] /\ d.field = t.field
  BY <1>4, <1>5, <1>6 DEF Cluster
<1> QED
  BY <1>1, <1>4, <1>7 DEF AllocOffset, d

LEMMA BumpSound ==
  ASSUME NEW c, Sound(c), NEW n \in Types,
         Fits(c, n) = {}, c.bump + n <= Units
  PROVE  Sound(TryAlloc(c, n)) /\ Gains(c, TryAlloc(c, n), AllocOffset(c, n), n)
<1> DEFINE b == c.bump
           d == TryAlloc(c, n)
<1>0. c \in Cluster /\ Tiled(c) /\ Listed(c) /\ Fresh(c)
      /\ Within(c) /\ Solid(c) /\ Unblemished(c)
  BY DEF Sound, Shape
<1>1. /\ Units \in Nat /\ b \in Nat /\ c.starts \subseteq Offsets /\ Offsets \subseteq Nat
      /\ c.hdr \in [Offsets -> Header]
      /\ \A u \in Offsets : c.hdr[u].size \in Nat /\ c.hdr[u].size <= Units
      /\ n \in Nat /\ n >= 2 /\ n # 0
  BY <1>0, ClusterParts, TypesBounded
<1>2. /\ d \in Cluster /\ AllocOffset(c, n) = b /\ b \in Offsets
      /\ d.bump = b + n /\ d.free = c.free /\ d.starts = c.starts \cup {b}
      /\ d.hdr = [c.hdr EXCEPT ![b] = Block(n)]
      /\ d.field = c.field
  BY <1>0, BumpTaken
<1> HIDE DEF d
<1>3. /\ d.hdr[b] = Block(n)
      /\ \A u \in Offsets : u # b => d.hdr[u] = c.hdr[u]
  BY <1>1, <1>2
<1>4. /\ \A o \in c.starts : /\ o \in Nat /\ o < b /\ o # b /\ d.hdr[o] = c.hdr[o]
                              /\ EndOf(d, o) = EndOf(c, o) /\ EndOf(c, o) \in Nat
                              /\ EndOf(c, o) <= b
      /\ d.hdr[b].size = n /\ d.hdr[b].tag = n /\ ~d.hdr[b].mark /\ EndOf(d, b) = b + n
  <2>1. ASSUME NEW o \in c.starts
        PROVE  /\ o \in Nat /\ o < b /\ o # b /\ d.hdr[o] = c.hdr[o]
               /\ EndOf(d, o) = EndOf(c, o) /\ EndOf(c, o) \in Nat
               /\ EndOf(c, o) <= b
    <3>1. o \in Offsets /\ o \in Nat /\ o < b /\ EndOf(c, o) <= b
      BY <1>0, <1>1 DEF Tiled
    <3>2. d.hdr[o] = c.hdr[o] /\ o # b
      BY <1>1, <1>3, <3>1
    <3> QED
      BY <1>1, <3>1, <3>2 DEF EndOf
  <2>2. d.hdr[b].size = n /\ d.hdr[b].tag = n /\ ~d.hdr[b].mark
    BY <1>3 DEF Block
  <2> QED
    BY <2>1, <2>2 DEF EndOf
<1>5. Tiled(d)
  <2>1. \A o \in d.starts : o < d.bump
    BY <1>1, <1>2, <1>4
  <2>2. 0 \in d.starts
    BY <1>0, <1>1, <1>2 DEF Tiled
  <2>3. ASSUME NEW o \in d.starts
        PROVE  /\ d.hdr[o].size >= MinBlock /\ EndOf(d, o) <= d.bump
               /\ EndOf(d, o) \in d.starts \cup {d.bump}
    <3>1. CASE o \in c.starts
      <4>1. EndOf(c, o) <= b /\ EndOf(c, o) \in c.starts \cup {b} /\ c.hdr[o].size >= MinBlock
        BY <3>1, <1>0 DEF Tiled
      <4> QED
        BY <3>1, <4>1, <1>1, <1>2, <1>4
    <3>2. CASE o = b
      BY <3>2, <1>1, <1>2, <1>4 DEF MinBlock
    <3> QED
      BY <3>1, <3>2, <1>2
  <2>4. ASSUME NEW o \in d.starts, NEW p \in d.starts, o < p
        PROVE  EndOf(d, o) <= p
    <3>1. o \in c.starts
      BY <2>4, <1>1, <1>2, <1>4
    <3>2. CASE p \in c.starts
      BY <3>1, <3>2, <2>4, <1>0, <1>4 DEF Tiled
    <3>3. CASE p = b
      BY <3>1, <3>3, <1>4
    <3> QED
      BY <3>2, <3>3, <1>2
  <2> QED
    BY <2>1, <2>2, <2>3, <2>4 DEF Tiled
<1>7. UsedOf(d) = UsedOf(c) \cup {b} /\ FreeOf(d) = FreeOf(c) /\ b \notin UsedOf(c)
  BY <1>1, <1>2, <1>4 DEF UsedOf, FreeOf
<1>8. Listed(d)
  <2>1. d.free = c.free /\ ToSet(c.free) = FreeOf(c) /\ Once(c.free)
    BY <1>0, <1>2 DEF Listed
  <2>2. \A o \in FreeOf(c) : EndOf(c, o) \notin FreeOf(c)
    BY <1>0 DEF Listed
  <2>3. \A o \in FreeOf(c) : EndOf(d, o) = EndOf(c, o)
    BY <1>4 DEF FreeOf
  <2> QED
    BY <2>1, <2>2, <2>3, <1>7 DEF Listed
<1>9. Fresh(d)
  BY <1>0, <1>1, <1>2, <1>3 DEF Fresh
<1>10. Within(d)
  BY <1>0, <1>1, <1>2, <1>3, <1>4 DEF Within, EndOf, MinBlock
<1>11. Solid(d)
  <2> SUFFICES ASSUME NEW o \in UsedOf(d), NEW u \in Offsets, o < u, u < EndOf(d, o)
               PROVE  d.hdr[u].tag = 0
    BY DEF Solid
  <2>1. CASE o \in UsedOf(c)
    <3>1. u # b /\ u < EndOf(c, o)
      BY <2>1, <1>1, <1>4 DEF UsedOf
    <3> QED
      BY <2>1, <3>1, <1>0, <1>3 DEF Solid
  <2>2. CASE o = b
    <3>1. u # b /\ u >= b
      BY <2>2, <1>1
    <3> QED
      BY <3>1, <1>0, <1>3 DEF Fresh
  <2> QED
    BY <2>1, <2>2, <1>7
<1>12. Unblemished(d)
  BY <1>0, <1>2, <1>4 DEF Unblemished
<1>13. Gains(c, d, b, n)
  <2>1. d.field[b] = Null
    BY <1>0, <1>1, <1>2 DEF Fresh
  <2> QED
    BY <2>1, <1>2, <1>3, <1>4, <1>7 DEF Gains, UsedOf
<1> QED
  BY <1>2, <1>5, <1>8, <1>9, <1>10, <1>11, <1>12, <1>13 DEF Sound, Shape, d

Rest(n) == [Zeroed EXCEPT !.size = n]

(* The first block of the free list that fits: cut in two, or taken whole  *)
(* and then just as large as asked for.                                    *)
LEMMA FreeFound ==
  ASSUME NEW c, Shape(c), NEW n \in Types, Fits(c, n) # {}, ~LeavesSliver(c, n)
  PROVE  LET i == Min(Fits(c, n))
             b == c.free[i]
             left == c.hdr[b].size - n
         IN /\ i \in 1 .. Len(c.free) /\ b \in FreeOf(c) /\ AllocOffset(c, n) = b
            /\ c.hdr[b].size \in Nat /\ c.hdr[b].size >= n
            /\ left = 0 \/ left >= MinBlock
            /\ b + c.hdr[b].size <= c.bump
<1> DEFINE i == Min(Fits(c, n))
           b == c.free[i]
           size == c.hdr[b].size
<1>1. c \in Cluster /\ Tiled(c) /\ Listed(c)
  BY DEF Shape
<1>2. c.free \in Seq(Offsets) /\ c.starts \subseteq Offsets
      /\ \A u \in Offsets : c.hdr[u].size \in Nat
  BY <1>1, ClusterParts
<1>3. Len(c.free) \in Nat /\ DOMAIN c.free = 1 .. Len(c.free)
  BY <1>2, ElementsOf
<1>4. Fits(c, n) \in SUBSET Nat
  BY <1>3 DEF Fits
<1>5. i \in Fits(c, n)
  <2> DEFINE F == Fits(c, n)
  <2>1. F \in SUBSET Nat /\ F # {}
    BY <1>4
  <2> HIDE DEF F
  <2>2. Min(F) \in F
    BY <2>1, MinIsLeast
  <2> QED
    BY <2>2 DEF F
<1>6. i \in 1 .. Len(c.free) /\ size >= n
  <2>1. \A k \in Fits(c, n) : k \in DOMAIN c.free /\ c.hdr[c.free[k]].size >= n
    BY DEF Fits
  <2> HIDE DEF i
  <2> QED
    BY <2>1, <1>3, <1>5
<1>7. AllocOffset(c, n) = b
  BY DEF AllocOffset
<1> HIDE DEF i, size
<1>8. b \in ToSet(c.free)
  BY <1>2, <1>6, ElementIff
<1>9. b \in FreeOf(c) /\ b \in c.starts /\ b \in Offsets
  BY <1>1, <1>2, <1>8 DEF Listed, FreeOf
<1> HIDE DEF b
<1>10. size \in Nat /\ n \in Nat
  BY <1>2, <1>9, TypesBounded DEF size
<1>11. size - n \in Nat /\ size - n # 1
  <2>1. size - n \notin 1 .. MinBlock - 1
    BY DEF LeavesSliver, i, b, size
  <2> QED
    BY <2>1, <1>6, <1>10 DEF MinBlock
<1>12. size - n = 0 \/ size - n >= MinBlock
  BY <1>11 DEF MinBlock
<1>13. b + size <= c.bump
  BY <1>1, <1>9 DEF Tiled, EndOf, size
<1> QED
  BY <1>6, <1>7, <1>9, <1>10, <1>11, <1>12, <1>13 DEF i, b, size

(* What taking it does to the cluster, part by part.                       *)
LEMMA FreeTaken ==
  ASSUME NEW c, Shape(c), NEW n \in Types, Fits(c, n) # {}, ~LeavesSliver(c, n)
  PROVE  LET i == Min(Fits(c, n))
             b == c.free[i]
             left == c.hdr[b].size - n
             d == TryAlloc(c, n)
         IN /\ d \in Cluster /\ d.bump = c.bump
            /\ left = 0 => /\ d.free = RemoveAt(c.free, i)
                           /\ d.starts = c.starts
            /\ left # 0 => /\ d.free = <<b + n>> \o RemoveAt(c.free, i)
                           /\ d.starts = c.starts \cup {b + n}
                           /\ b + n \in Offsets
                           /\ d.hdr[b + n] = Rest(left)
            /\ d.hdr[b] = Block(n)
            /\ \A u \in Offsets :
                 /\ u \in b + 1 .. b + n - 1 => d.hdr[u] = Zeroed
                 /\ u < b \/ u > b + n \/ (u = b + n /\ left = 0) => d.hdr[u] = c.hdr[u]
                 /\ d.field[u] = IF u \in b .. b + n - 1 THEN Null ELSE c.field[u]
<1> DEFINE i == Min(Fits(c, n))
           b == c.free[i]
           size == c.hdr[b].size
           left == size - n
           split == left >= MinBlock
           hi == b + n - 1 + (IF split THEN 0 ELSE left)
           cut == [c EXCEPT !.free = RemoveAt(@, i)]
           taken == Zero(cut, b, hi)
           kept == IF split THEN CutTail(taken, b + n, left) ELSE taken
           d == TryAlloc(c, n)
<1>1. /\ i \in 1 .. Len(c.free) /\ b \in FreeOf(c) /\ AllocOffset(c, n) = b
      /\ size \in Nat /\ size >= n
      /\ left = 0 \/ left >= MinBlock
      /\ b + size <= c.bump
  BY FreeFound
<1>2. d = [kept EXCEPT !.hdr[b] = Block(n)]
  BY <1>1 DEF TryAlloc, TakeFree, Block
<1> HIDE DEF d, kept, taken, cut, i, size
<1>3. /\ c \in Cluster /\ Units \in Nat /\ c.free \in Seq(Offsets)
      /\ c.bump \in Nat /\ c.bump <= Units /\ c.starts \subseteq Offsets
      /\ n \in Nat /\ n >= 2 /\ n <= Units
      /\ c.hdr \in [Offsets -> Header] /\ c.field \in [Offsets -> {Null} \cup Pointers]
  BY ClusterParts, TypesBounded DEF Shape
<1>4. b \in Offsets /\ b \in Nat
  BY <1>1, <1>3, ClusterParts DEF FreeOf
<1> HIDE DEF b
<1>5. RemoveAt(c.free, i) \in Seq(Offsets)
  BY <1>1, <1>3, Removed
<1>6. /\ cut \in Cluster /\ cut.bump = c.bump /\ cut.starts = c.starts
      /\ cut.free = RemoveAt(c.free, i) /\ cut.hdr = c.hdr /\ cut.field = c.field
  BY <1>3, <1>5 DEF cut, Cluster
<1>7. /\ hi = b + n - 1
      /\ left # 0 <=> split
      /\ left \in Nat
      /\ left # 0 => b + n \in Offsets /\ Rest(left) \in Header
  <2>1. hi = b + n - 1 /\ (left # 0 <=> split) /\ left \in Nat
    BY <1>1, <1>3, <1>4 DEF MinBlock
  <2>2. left # 0 => b + n \in Offsets /\ left \in 0 .. Units
    <3>1. size <= Units /\ b + size <= Units
      BY <1>1, <1>3, <1>4
    <3>2. left # 0 => left >= 2
      BY <1>1 DEF MinBlock
    <3> QED
      BY <3>1, <3>2, <1>1, <1>3, <1>4 DEF Offsets
  <2>3. left # 0 => Rest(left) \in Header
    BY <2>2 DEF Rest, Header, Zeroed
  <2> QED
    BY <2>1, <2>2, <2>3
<1> HIDE DEF hi, split, left
<1> DEFINE H == [u \in Offsets |-> IF u \in b .. hi THEN Zeroed ELSE c.hdr[u]]
           F == [u \in Offsets |-> IF u \in b .. hi THEN Null ELSE c.field[u]]
<1>8. H \in [Offsets -> Header] /\ F \in [Offsets -> {Null} \cup Pointers]
  BY <1>3, TypesBounded
<1>9. taken = [cut EXCEPT !.hdr = H, !.field = F]
  <2>1. DOMAIN cut.hdr = Offsets /\ DOMAIN cut.field = Offsets
    BY <1>3, <1>6
  <2> QED
    BY <2>1, <1>6 DEF taken, Zero
<1> HIDE DEF H, F
<1>10. /\ taken \in Cluster /\ taken.bump = c.bump /\ taken.starts = c.starts
       /\ taken.free = RemoveAt(c.free, i) /\ taken.hdr = H /\ taken.field = F
  BY <1>6, <1>8, <1>9 DEF Cluster
<1>11. ASSUME left # 0
       PROVE  /\ kept \in Cluster /\ kept.bump = c.bump
              /\ kept.starts = c.starts \cup {b + n}
              /\ kept.free = <<b + n>> \o RemoveAt(c.free, i)
              /\ kept.hdr = [H EXCEPT ![b + n] = Rest(left)]
              /\ kept.field = F
  <2>2. <<b + n>> \o RemoveAt(c.free, i) \in Seq(Offsets)
    BY <1>5, <1>7, <1>11, Prepended
  <2>3. [H EXCEPT ![b + n] = Rest(left)] \in [Offsets -> Header]
    BY <1>7, <1>8, <1>11
  <2>4. c.starts \cup {b + n} \in SUBSET Offsets
    BY <1>3, <1>7, <1>11
  <2>5. kept = [taken EXCEPT !.free = <<b + n>> \o RemoveAt(c.free, i),
                             !.starts = c.starts \cup {b + n},
                             !.hdr = [H EXCEPT ![b + n] = Rest(left)]]
    BY <1>7, <1>10, <1>11 DEF kept, CutTail, Rest
  <2> QED
    BY <2>2, <2>3, <2>4, <2>5, <1>10 DEF Cluster
<1>12. ASSUME left = 0
       PROVE  kept = taken
  BY <1>7, <1>12 DEF kept
<1>13. kept \in Cluster /\ kept.bump = c.bump /\ kept.field = F
       /\ kept.hdr \in [Offsets -> Header]
  BY <1>10, <1>11, <1>12, <1>8 DEF Cluster
<1>14. /\ d \in Cluster /\ d.bump = c.bump /\ d.free = kept.free
       /\ d.starts = kept.starts /\ d.field = F
       /\ d.hdr = [kept.hdr EXCEPT ![b] = Block(n)]
  <2>1. [kept.hdr EXCEPT ![b] = Block(n)] \in [Offsets -> Header]
    BY <1>4, <1>13, TypesBounded
  <2> QED
    BY <2>1, <1>2, <1>13 DEF Cluster
<1>15. d.hdr[b] = Block(n)
  BY <1>4, <1>13, <1>14
<1>16. ASSUME left # 0
       PROVE  d.hdr[b + n] = Rest(left)
  <2>1. b + n # b
    BY <1>3, <1>4
  <2>2. d.hdr[b + n] = kept.hdr[b + n]
    BY <2>1, <1>7, <1>13, <1>14, <1>16
  <2> QED
    BY <2>2, <1>7, <1>8, <1>11, <1>16
<1>17. ASSUME NEW u \in Offsets
       PROVE  /\ u \in b + 1 .. b + n - 1 => d.hdr[u] = Zeroed
              /\ u < b \/ u > b + n \/ (u = b + n /\ left = 0) => d.hdr[u] = c.hdr[u]
              /\ d.field[u] = IF u \in b .. b + n - 1 THEN Null ELSE c.field[u]
  <2>1. u \in Nat
    BY DEF Offsets
  <2>2. d.hdr[u] = IF u = b THEN Block(n)
                   ELSE IF left # 0 /\ u = b + n THEN Rest(left) ELSE H[u]
    BY <1>4, <1>7, <1>8, <1>10, <1>11, <1>12, <1>13, <1>14
  <2>3. H[u] = IF u \in b .. b + n - 1 THEN Zeroed ELSE c.hdr[u]
    BY <1>7 DEF H
  <2>4. d.field[u] = IF u \in b .. b + n - 1 THEN Null ELSE c.field[u]
    BY <1>7, <1>14 DEF F
  <2> QED
    BY <2>1, <2>2, <2>3, <2>4, <1>3, <1>4
<1> QED
  BY <1>7, <1>10, <1>11, <1>12, <1>14, <1>15, <1>16, <1>17
     DEF i, b, size, left, d

(* d has a block of n units at b, in place of the free block c had there.  *)
Replaces(c, d, b, n) ==
  /\ d \in Cluster /\ d.bump = c.bump
  /\ b \in FreeOf(c) /\ c.hdr[b].size >= n /\ d.hdr[b] = Block(n)
  /\ \A u \in Offsets :
       /\ u \in b + 1 .. b + n - 1 => d.hdr[u] = Zeroed
       /\ u < b \/ u > b + n \/ (u = b + n /\ c.hdr[b].size = n)
            => d.hdr[u] = c.hdr[u]
       /\ d.field[u] = IF u \in b .. b + n - 1 THEN Null ELSE c.field[u]

LEMMA Replaced ==
  ASSUME NEW c, Sound(c), NEW d, NEW b, NEW n \in Types, Replaces(c, d, b, n)
  PROVE  /\ Units \in Nat /\ n \in Nat /\ n >= 2 /\ n # 0
         /\ c.bump \in Nat /\ c.bump <= Units /\ Offsets \subseteq Nat
         /\ b \in Nat /\ b \in Offsets /\ b \in c.starts /\ b \notin UsedOf(c)
         /\ EndOf(c, b) = b + c.hdr[b].size /\ EndOf(c, b) <= c.bump
         /\ c.hdr[b].size \in Nat /\ c.hdr[b].size >= n
         /\ d.hdr[b].size = n /\ d.hdr[b].tag = n /\ ~d.hdr[b].mark
         /\ EndOf(d, b) = b + n /\ d.field[b] = Null
         /\ \A o \in c.starts :
              /\ o \in Offsets /\ o \in Nat /\ c.hdr[o].size \in Nat
              /\ EndOf(c, o) \in Nat /\ o < EndOf(c, o) /\ EndOf(c, o) <= c.bump
              /\ o # b => /\ o < b \/ o >= EndOf(c, b)
                          /\ o < b => EndOf(c, o) <= b
                          /\ o # b + n \/ c.hdr[b].size = n
                          /\ d.hdr[o] = c.hdr[o] /\ d.field[o] = c.field[o]
                          /\ EndOf(d, o) = EndOf(c, o)
<1>1. c \in Cluster /\ Tiled(c)
  BY DEF Sound, Shape
<1>2. /\ Units \in Nat /\ n \in Nat /\ n >= 2 /\ n # 0
      /\ c.bump \in Nat /\ c.bump <= Units
      /\ c.starts \subseteq Offsets /\ Offsets \subseteq Nat
      /\ \A u \in Offsets : c.hdr[u].size \in Nat
  BY <1>1, ClusterParts, TypesBounded
<1>3. /\ b \in Nat /\ b \in Offsets /\ b \in c.starts /\ b \notin UsedOf(c)
      /\ EndOf(c, b) = b + c.hdr[b].size /\ EndOf(c, b) <= c.bump
      /\ c.hdr[b].size \in Nat /\ c.hdr[b].size >= n
  BY <1>1, <1>2 DEF Replaces, FreeOf, UsedOf, EndOf, Tiled
<1>4. /\ d.hdr[b].size = n /\ d.hdr[b].tag = n /\ ~d.hdr[b].mark
      /\ EndOf(d, b) = b + n
  BY DEF Replaces, Block, EndOf
<1>5. d.field[b] = Null
  BY <1>2, <1>3 DEF Replaces
<1>6. ASSUME NEW o \in c.starts
      PROVE  /\ o \in Offsets /\ o \in Nat /\ c.hdr[o].size \in Nat
             /\ EndOf(c, o) \in Nat /\ o < EndOf(c, o) /\ EndOf(c, o) <= c.bump
  BY <1>1, StartParts
<1>7. ASSUME NEW o \in c.starts, o # b
      PROVE  /\ o < b \/ o >= EndOf(c, b)
             /\ o < b => EndOf(c, o) <= b
             /\ o # b + n \/ c.hdr[b].size = n
             /\ d.hdr[o] = c.hdr[o] /\ d.field[o] = c.field[o]
             /\ EndOf(d, o) = EndOf(c, o)
  <2>1. /\ o < b \/ o >= EndOf(c, b)
        /\ o < b => EndOf(c, o) <= b
    BY <1>1, <1>3, <1>6, <1>7 DEF Tiled
  <2>2. o # b + n \/ c.hdr[b].size = n
    BY <1>2, <1>3, <1>6, <2>1
  <2>3. o < b \/ o > b + n \/ (o = b + n /\ c.hdr[b].size = n)
    BY <1>2, <1>3, <1>6, <2>1, <2>2
  <2>4. o \notin b .. b + n - 1
    BY <1>2, <1>3, <1>6, <2>3
  <2>5. d.hdr[o] = c.hdr[o] /\ d.field[o] = c.field[o]
    BY <1>6, <2>3, <2>4 DEF Replaces
  <2> QED
    BY <2>1, <2>2, <2>5 DEF EndOf
<1> QED
  BY <1>2, <1>3, <1>4, <1>5, <1>6, <1>7

(* What holds of the result whether or not the block was cut.              *)
LEMMA ReplacedOutside ==
  ASSUME NEW c, Sound(c), NEW d, NEW b, NEW n \in Types, Replaces(c, d, b, n),
         c.hdr[b].size # n => /\ b + n \in Offsets
                              /\ d.hdr[b + n].tag = 0
  PROVE  Fresh(d) /\ Within(d)
<1> DEFINE size == c.hdr[b].size
<1>1. /\ Units \in Nat /\ n \in Nat /\ n >= 2 /\ c.bump \in Nat /\ c.bump <= Units
      /\ Offsets \subseteq Nat /\ b \in Nat
      /\ b + size <= c.bump /\ size \in Nat /\ size >= n
      /\ d.hdr[b].size = n /\ EndOf(d, b) = b + n /\ d.bump = c.bump
  BY Replaced DEF Replaces
<1>2. Fresh(c) /\ Within(c)
  BY DEF Sound, Shape
<1>3. ASSUME NEW u \in Offsets
      PROVE  \/ u = b
             \/ d.hdr[u].tag = 0
             \/ d.hdr[u] = c.hdr[u]
  <2>1. \/ u = b
        \/ u \in b + 1 .. b + n - 1
        \/ u = b + n /\ size # n
        \/ u < b \/ u > b + n \/ (u = b + n /\ size = n)
    BY <1>1
  <2> HIDE DEF size
  <2>2. CASE u \in b + 1 .. b + n - 1
    BY <2>2 DEF Replaces, Zeroed
  <2>3. CASE u = b + n /\ size # n
    BY <2>3 DEF size
  <2>4. CASE u < b \/ u > b + n \/ (u = b + n /\ size = n)
    BY <2>4 DEF Replaces, size
  <2> QED
    BY <2>1, <2>2, <2>3, <2>4
<1>4. Fresh(d)
  <2> SUFFICES ASSUME NEW u \in Offsets, u >= c.bump
               PROVE  d.hdr[u].tag = 0 /\ d.field[u] = Null
    BY <1>1 DEF Fresh
  <2>1. u # b /\ u \notin b .. b + n - 1 /\ u \in Nat
    BY <1>1
  <2>2. c.hdr[u].tag = 0 /\ c.field[u] = Null
    BY <1>2 DEF Fresh
  <2>3. d.field[u] = c.field[u]
    BY <2>1 DEF Replaces
  <2> QED
    BY <1>3, <2>1, <2>2, <2>3
<1>5. Within(d)
  <2> SUFFICES ASSUME NEW u \in Offsets, d.hdr[u].tag # 0
               PROVE  d.hdr[u].size >= MinBlock /\ EndOf(d, u) <= Units
    BY DEF Within
  <2>1. CASE u = b
    BY <2>1, <1>1 DEF MinBlock
  <2>2. CASE d.hdr[u] = c.hdr[u]
    BY <2>2, <1>2 DEF Within, EndOf
  <2> QED
    BY <2>1, <2>2, <1>3
<1> QED
  BY <1>4, <1>5

(* A free block taken whole.                                               *)
LEMMA WholeTaken ==
  ASSUME NEW c, Sound(c), NEW d, NEW n \in Types,
         NEW i \in 1 .. Len(c.free), Replaces(c, d, c.free[i], n),
         c.hdr[c.free[i]].size = n,
         d.free = RemoveAt(c.free, i), d.starts = c.starts
  PROVE  Sound(d) /\ Gains(c, d, c.free[i], n)
<1> DEFINE b == c.free[i]
<1>0. /\ c \in Cluster /\ d \in Cluster /\ Tiled(c) /\ Listed(c) /\ Solid(c)
      /\ Unblemished(c) /\ d.bump = c.bump /\ b \in FreeOf(c) /\ d.hdr[b] = Block(n)
      /\ c.free \in Seq(Offsets)
  BY ClusterParts DEF Sound, Shape, Replaces
<1>1. Fresh(d) /\ Within(d)
  BY ReplacedOutside
<1>2. /\ Units \in Nat /\ n \in Nat /\ n >= 2 /\ n # 0
      /\ Offsets \subseteq Nat
      /\ b \in Nat /\ b \in Offsets /\ b \in c.starts /\ b \notin UsedOf(c)
      /\ EndOf(c, b) = b + n
      /\ d.hdr[b].size = n /\ d.hdr[b].tag = n /\ ~d.hdr[b].mark
      /\ EndOf(d, b) = b + n /\ d.field[b] = Null
      /\ \A o \in c.starts :
           /\ o \in Nat /\ EndOf(c, o) \in Nat /\ c.hdr[o].size \in Nat
           /\ o # b => /\ o < b \/ o >= EndOf(c, b)
                       /\ o < b => EndOf(c, o) <= b
                       /\ d.hdr[o] = c.hdr[o] /\ d.field[o] = c.field[o]
                       /\ EndOf(d, o) = EndOf(c, o)
  BY Replaced
<1>3. /\ d.free \in Seq(Offsets) /\ Once(d.free)
      /\ ToSet(d.free) = ToSet(c.free) \ {b}
  BY <1>0, Removed, RemovedOnce DEF Listed
<1> HIDE DEF b
<1>9. UsedOf(d) = UsedOf(c) \cup {b} /\ FreeOf(d) = FreeOf(c) \ {b}
  BY <1>0, <1>2 DEF UsedOf, FreeOf
<1>10. Tiled(d)
  <2>1. ASSUME NEW o \in c.starts
        PROVE  EndOf(d, o) = EndOf(c, o) /\ d.hdr[o].size >= MinBlock
    BY <1>0, <1>2 DEF Tiled, MinBlock
  <2> QED
    BY <2>1, <1>0 DEF Tiled
<1>12. Listed(d)
  <2>1. ToSet(d.free) = FreeOf(d)
    BY <1>0, <1>3, <1>9 DEF Listed
  <2>2. \A o \in FreeOf(d) : EndOf(d, o) \notin FreeOf(d)
    BY <1>0, <1>2, <1>9 DEF Listed, FreeOf
  <2> QED
    BY <1>3, <2>1, <2>2 DEF Listed
<1>13. Solid(d)
  <2> SUFFICES ASSUME NEW o \in UsedOf(d), NEW u \in Offsets, o < u, u < EndOf(d, o)
               PROVE  d.hdr[u].tag = 0
    BY DEF Solid
  <2>1. CASE o = b
    <3>1. u \in b + 1 .. b + n - 1
      BY <2>1, <1>2
    <3> QED
      BY <3>1 DEF Replaces, Zeroed, b
  <2>2. CASE o \in UsedOf(c)
    <3>1. o \in c.starts /\ o # b /\ u \in Nat /\ u < EndOf(c, o)
      BY <2>2, <1>2 DEF UsedOf
    <3>2. c.hdr[u].tag = 0
      BY <2>2, <3>1, <1>0 DEF Solid
    <3>3. u < b \/ u > b + n
      BY <3>1, <1>2
    <3> QED
      BY <3>2, <3>3 DEF Replaces, b
  <2> QED
    BY <2>1, <2>2, <1>9
<1>14. Unblemished(d)
  BY <1>0, <1>2 DEF Unblemished
<1>15. Gains(c, d, b, n)
  <2>1. \A u \in Offsets : d.field[u] = Null \/ d.field[u] = c.field[u]
    BY DEF Replaces
  <2> QED
    BY <2>1, <1>0, <1>2, <1>9 DEF Gains, UsedOf
<1> QED
  BY <1>0, <1>1, <1>10, <1>12, <1>13, <1>14, <1>15 DEF Sound, Shape, b

(* A free block cut in two: the front of it is in use, the tail goes to    *)
(* the front of the free list.                                             *)
Cuts(c, d, i, n) ==
  LET b    == c.free[i]
      left == c.hdr[b].size - n
  IN /\ i \in 1 .. Len(c.free) /\ Replaces(c, d, b, n)
     /\ left >= MinBlock /\ b + n \in Offsets
     /\ d.free = <<b + n>> \o RemoveAt(c.free, i)
     /\ d.starts = c.starts \cup {b + n}
     /\ d.hdr[b + n] = Rest(left)

LEMMA CutTaken ==
  ASSUME NEW c, Sound(c), NEW d, NEW n \in Types,
         NEW i, Cuts(c, d, i, n)
  PROVE  Sound(d) /\ Gains(c, d, c.free[i], n)
<1> DEFINE b == c.free[i]
           t == b + n
           left == c.hdr[b].size - n
           r == RemoveAt(c.free, i)
<1>z. /\ i \in 1 .. Len(c.free) /\ Replaces(c, d, b, n)
      /\ left >= MinBlock /\ t \in Offsets
      /\ d.free = <<t>> \o r /\ d.starts = c.starts \cup {t} /\ d.hdr[t] = Rest(left)
  BY DEF Cuts
<1>y. Replaces(c, d, b, n)
  BY <1>z
<1>d. c.free[i] = b /\ b + n = t /\ left = c.hdr[b].size - n
  OBVIOUS
<1> HIDE DEF b, left, t, r
<1>0. /\ c \in Cluster /\ d \in Cluster /\ Tiled(c) /\ Listed(c) /\ Solid(c)
      /\ Unblemished(c) /\ d.bump = c.bump /\ b \in FreeOf(c) /\ d.hdr[b] = Block(n)
      /\ c.free \in Seq(Offsets)
  BY <1>z, ClusterParts DEF Sound, Shape, Replaces
<1>1. d.hdr[t].tag = 0 /\ d.hdr[t].size = left /\ ~d.hdr[t].mark /\ EndOf(d, t) = t + left
  BY <1>z DEF Rest, Zeroed, EndOf
<1>2. Fresh(d) /\ Within(d)
  <2>1. b + n \in Offsets /\ d.hdr[b + n].tag = 0
    BY <1>z, <1>1 DEF t
  <2> QED
    BY <1>y, <2>1, ReplacedOutside
<1>a. left >= 2 /\ d.free = <<t>> \o r
  BY <1>z DEF MinBlock
<1>c. \A u \in Offsets :
       /\ u \in b + 1 .. b + n - 1 => d.hdr[u] = Zeroed
       /\ u < b \/ u > b + n => d.hdr[u] = c.hdr[u]
  BY <1>z DEF Replaces
<1>3. /\ Units \in Nat /\ n \in Nat /\ n >= 2 /\ n # 0
      /\ Offsets \subseteq Nat /\ c.bump \in Nat
      /\ b \in Nat /\ b \in Offsets /\ b \in c.starts /\ b \notin UsedOf(c)
      /\ EndOf(c, b) = b + c.hdr[b].size /\ EndOf(c, b) <= c.bump /\ c.hdr[b].size \in Nat
      /\ d.hdr[b].size = n /\ d.hdr[b].tag = n /\ ~d.hdr[b].mark
      /\ EndOf(d, b) = b + n /\ d.field[b] = Null
      /\ \A o \in c.starts :
           /\ o \in Nat /\ EndOf(c, o) \in Nat /\ o < EndOf(c, o) /\ EndOf(c, o) <= c.bump
           /\ o # b => /\ o < b \/ o >= EndOf(c, b)
                       /\ o < b => EndOf(c, o) <= b
                       /\ d.hdr[o] = c.hdr[o] /\ d.field[o] = c.field[o]
                       /\ EndOf(d, o) = EndOf(c, o)
  BY <1>y, Replaced
<1>4. /\ t \in Nat /\ b < t /\ t < EndOf(c, b) /\ t + left = EndOf(c, b)
      /\ t \notin c.starts /\ t < c.bump /\ left >= 2
  <2> DEFINE s == c.hdr[b].size
  <2>0. s \in Nat /\ left = s - n /\ EndOf(c, b) = b + s /\ t = b + n
    BY <1>3, <1>d
  <2> HIDE DEF s
  <2>1. t \in Nat /\ b < t /\ t < EndOf(c, b) /\ t + left = EndOf(c, b) /\ left >= 2
    BY <2>0, <1>3, <1>a
  <2>2. t \notin c.starts
    BY <2>1, <1>3
  <2> QED
    BY <2>1, <2>2, <1>3
<1>5. d.starts = c.starts \cup {t} /\ t \in Offsets
  BY <1>z
<1>6. /\ r \in Seq(Offsets) /\ Once(r)
      /\ ToSet(r) = ToSet(c.free) \ {b}
  <2>1. i \in 1 .. Len(c.free) /\ c.free \in Seq(Offsets) /\ Once(c.free)
    BY <1>0, <1>z DEF Listed
  <2> QED
    BY <2>1, Removed, RemovedOnce DEF b, r
<1>7. t \notin ToSet(r)
  BY <1>0, <1>4, <1>6 DEF Listed, FreeOf
<1>8. /\ d.free \in Seq(Offsets) /\ Once(d.free)
      /\ ToSet(d.free) = {t} \cup ToSet(r)
  BY <1>5, <1>6, <1>7, <1>a, Prepended, PrependedOnce
<1>14. UsedOf(d) = UsedOf(c) \cup {b} /\ FreeOf(d) = (FreeOf(c) \ {b}) \cup {t}
  BY <1>0, <1>1, <1>3, <1>4, <1>5 DEF UsedOf, FreeOf
<1>15. Tiled(d)
  <2>0. ASSUME NEW o \in d.starts
        PROVE  o = b \/ o = t \/ (o \in c.starts /\ o # b /\ EndOf(d, o) = EndOf(c, o)
                                 /\ d.hdr[o] = c.hdr[o])
    BY <1>3, <1>5
  <2>1. \A o \in d.starts : o < d.bump
    BY <1>0, <1>4, <1>5 DEF Tiled
  <2>2. d.bump > 0 => 0 \in d.starts
    BY <1>0, <1>5 DEF Tiled
  <2>3. ASSUME NEW o \in d.starts
        PROVE  /\ d.hdr[o].size >= MinBlock /\ EndOf(d, o) <= d.bump
               /\ EndOf(d, o) \in d.starts \cup {d.bump}
    <3>1. CASE o = b
      BY <3>1, <1>0, <1>3, <1>4, <1>5 DEF MinBlock, t
    <3>2. CASE o = t
      <4>1. EndOf(c, b) \in c.starts \cup {c.bump}
        BY <1>0, <1>3 DEF Tiled
      <4> QED
        BY <3>2, <4>1, <1>0, <1>1, <1>3, <1>4, <1>5 DEF MinBlock
    <3>3. CASE o \in c.starts /\ EndOf(d, o) = EndOf(c, o) /\ d.hdr[o] = c.hdr[o]
      BY <3>3, <1>0, <1>5 DEF Tiled
    <3> QED
      BY <2>0, <3>1, <3>2, <3>3
  <2>4. ASSUME NEW o \in d.starts, NEW p \in d.starts, o < p
        PROVE  EndOf(d, o) <= p
    <3>1. CASE o = b
      BY <2>4, <3>1, <1>3, <1>4, <1>5 DEF t
    <3>2. CASE o = t
      <4>1. p \in c.starts /\ p # b
        BY <2>4, <3>2, <1>3, <1>4, <1>5
      <4>2. p >= EndOf(c, b)
        BY <2>4, <3>2, <4>1, <1>3, <1>4
      <4> QED
        BY <3>2, <4>2, <1>1, <1>4
    <3>3. CASE o \in c.starts /\ o # b /\ EndOf(d, o) = EndOf(c, o)
      <4>1. CASE p = t
        BY <2>4, <3>3, <4>1, <1>3, <1>4
      <4>2. CASE p \in c.starts
        BY <2>4, <3>3, <4>2, <1>0 DEF Tiled
      <4> QED
        BY <4>1, <4>2, <1>5
    <3> QED
      BY <2>0, <3>1, <3>2, <3>3
  <2> QED
    BY <2>1, <2>2, <2>3, <2>4 DEF Tiled
<1>17. Listed(d)
  <2>1. ToSet(d.free) = FreeOf(d)
    BY <1>0, <1>6, <1>8, <1>14 DEF Listed
  <2>3. ASSUME NEW o \in FreeOf(d)
        PROVE  EndOf(d, o) \notin FreeOf(d)
    <3>1. CASE o = t
      <4>1. EndOf(d, o) = EndOf(c, b)
        BY <3>1, <1>1, <1>4
      <4>2. EndOf(c, b) \notin FreeOf(c) /\ EndOf(c, b) # t
        BY <1>0, <1>3, <1>4 DEF Listed
      <4> QED
        BY <4>1, <4>2, <1>14
    <3>2. CASE o \in FreeOf(c) /\ o # b
      <4>1. o \in c.starts /\ EndOf(d, o) = EndOf(c, o)
        BY <3>2, <1>3 DEF FreeOf
      <4>2. EndOf(c, o) \notin FreeOf(c)
        BY <3>2, <1>0 DEF Listed
      <4>3. EndOf(c, o) # t
        <5>1. CASE o < b
          BY <5>1, <4>1, <1>3, <1>4, <3>2
        <5>2. CASE o >= EndOf(c, b)
          BY <5>2, <4>1, <1>3, <1>4
        <5> QED
          BY <5>1, <5>2, <4>1, <3>2, <1>3
      <4> QED
        BY <4>1, <4>2, <4>3, <1>14
    <3> QED
      BY <3>1, <3>2, <1>14
  <2> QED
    BY <1>8, <2>1, <2>3 DEF Listed
<1>18. Solid(d)
  <2> SUFFICES ASSUME NEW o \in UsedOf(d), NEW u \in Offsets, o < u, u < EndOf(d, o)
               PROVE  d.hdr[u].tag = 0
    BY DEF Solid
  <2>1. CASE o = b
    <3>1. u \in b + 1 .. b + n - 1
      BY <2>1, <1>3
    <3> QED
      BY <3>1, <1>c DEF Zeroed
  <2>2. CASE o \in UsedOf(c)
    <3>1. o \in c.starts /\ o # b /\ u \in Nat /\ u < EndOf(c, o)
      BY <2>2, <1>3 DEF UsedOf
    <3>2. c.hdr[u].tag = 0
      BY <2>2, <3>1, <1>0 DEF Solid
    <3>3. u < b \/ u > b + n
      BY <3>1, <1>3, <1>4 DEF t
    <3> QED
      BY <3>2, <3>3, <1>c
  <2> QED
    BY <2>1, <2>2, <1>14
<1>19. Unblemished(d)
  BY <1>0, <1>1, <1>3, <1>5 DEF Unblemished
<1>20. Gains(c, d, b, n)
  <2>1. \A u \in Offsets : d.field[u] = Null \/ d.field[u] = c.field[u]
    BY <1>y DEF Replaces
  <2> QED
    BY <2>1, <1>0, <1>3, <1>14 DEF Gains, UsedOf
<1> QED
  BY <1>0, <1>2, <1>15, <1>17, <1>18, <1>19, <1>20 DEF Sound, Shape, b

(* An allocation leaves the cluster sound, with one more block in use.     *)
LEMMA TryAllocSound ==
  ASSUME NEW c, Sound(c), NEW n \in Types, CanAlloc(c, n), ~LeavesSliver(c, n)
  PROVE  Sound(TryAlloc(c, n)) /\ Gains(c, TryAlloc(c, n), AllocOffset(c, n), n)
<1>1. CASE Fits(c, n) = {}
  BY <1>1, BumpSound DEF CanAlloc
<1>2. CASE Fits(c, n) # {}
  <2> DEFINE i == Min(Fits(c, n))
             b == c.free[i]
             left == c.hdr[b].size - n
             d == TryAlloc(c, n)
  <2>0. Shape(c)
    BY DEF Sound
  <2>1. /\ i \in 1 .. Len(c.free) /\ b \in FreeOf(c) /\ AllocOffset(c, n) = b
        /\ c.hdr[b].size \in Nat /\ c.hdr[b].size >= n
        /\ left = 0 \/ left >= MinBlock
    BY <1>2, <2>0, FreeFound
  <2>2. /\ d \in Cluster /\ d.bump = c.bump
        /\ left = 0 => /\ d.free = RemoveAt(c.free, i)
                       /\ d.starts = c.starts
        /\ left # 0 => /\ d.free = <<b + n>> \o RemoveAt(c.free, i)
                       /\ d.starts = c.starts \cup {b + n}
                       /\ b + n \in Offsets
                       /\ d.hdr[b + n] = Rest(left)
        /\ d.hdr[b] = Block(n)
        /\ \A u \in Offsets :
             /\ u \in b + 1 .. b + n - 1 => d.hdr[u] = Zeroed
             /\ u < b \/ u > b + n \/ (u = b + n /\ left = 0) => d.hdr[u] = c.hdr[u]
             /\ d.field[u] = IF u \in b .. b + n - 1 THEN Null ELSE c.field[u]
    BY <1>2, <2>0, FreeTaken
  <2>3. left = 0 <=> c.hdr[b].size = n
    BY <2>1, TypesBounded
  <2> HIDE DEF i, d
  <2>4. Replaces(c, d, b, n)
    BY <2>1, <2>2, <2>3, SMTT(30) DEF Replaces
  <2>5. CASE left = 0
    BY <2>1, <2>2, <2>3, <2>4, <2>5, WholeTaken DEF d
  <2>6. CASE left # 0
    <3>1. Cuts(c, d, i, n)
      BY <2>1, <2>2, <2>4, <2>6 DEF Cuts
    <3> QED
      BY <3>1, <2>1, CutTaken DEF d
  <2> QED
    BY <2>5, <2>6
<1> QED
  BY <1>1, <1>2

-----------------------------------------------------------------------------
(* Marking and resolving.                                                  *)

SameButMarks(c, d) ==
  /\ d \in Cluster
  /\ d.bump = c.bump /\ d.free = c.free /\ d.starts = c.starts /\ d.field = c.field
  /\ \A u \in Offsets : d.hdr[u].tag = c.hdr[u].tag /\ d.hdr[u].size = c.hdr[u].size

LEMMA MarksKeepShape ==
  ASSUME NEW c, Shape(c), NEW d, SameButMarks(c, d)
  PROVE  Shape(d) /\ UsedOf(d) = UsedOf(c) /\ FreeOf(d) = FreeOf(c)
<1>1. /\ c \in Cluster /\ Tiled(c) /\ Listed(c) /\ Fresh(c)
      /\ Within(c) /\ Solid(c)
  BY DEF Shape
<1>2. /\ d \in Cluster /\ c.starts \subseteq Offsets
      /\ d.bump = c.bump /\ d.free = c.free /\ d.starts = c.starts /\ d.field = c.field
      /\ \A u \in Offsets : d.hdr[u].tag = c.hdr[u].tag /\ d.hdr[u].size = c.hdr[u].size
  BY <1>1, ClusterParts DEF SameButMarks
<1>3. \A u \in Offsets : EndOf(d, u) = EndOf(c, u)
  BY <1>2 DEF EndOf
<1>4. UsedOf(d) = UsedOf(c) /\ FreeOf(d) = FreeOf(c)
      /\ UsedOf(c) \subseteq Offsets /\ FreeOf(c) \subseteq Offsets
  BY <1>2 DEF UsedOf, FreeOf
<1>5. Tiled(d)
  <2>1. \A o \in c.starts : o \in Offsets
    BY <1>2
  <2> QED
    BY <2>1, <1>1, <1>2, <1>3 DEF Tiled
<1>7. Listed(d)
  BY <1>1, <1>2, <1>3, <1>4 DEF Listed
<1>8. Fresh(d)
  BY <1>1, <1>2 DEF Fresh
<1>9. Within(d)
  BY <1>1, <1>2, <1>3 DEF Within
<1>10. Solid(d)
  BY <1>1, <1>2, <1>3, <1>4 DEF Solid
<1> QED
  BY <1>2, <1>4, <1>5, <1>7, <1>8, <1>9, <1>10 DEF Shape

LEMMA ClearMarksSound ==
  ASSUME NEW c, Sound(c)
  PROVE  SameButMarks(c, ClearMarks(c)) /\ Sound(ClearMarks(c))
<1> DEFINE d == ClearMarks(c)
           H == [u \in Offsets |-> IF u \in Walk(c) THEN Unmarked(c.hdr[u]) ELSE c.hdr[u]]
<1>1. c \in Cluster /\ Shape(c) /\ Tiled(c) /\ Unblemished(c)
      /\ c.hdr \in [Offsets -> Header]
  BY ClusterParts DEF Sound, Shape
<1>2. \A h \in Header : /\ Unmarked(h) \in Header
                        /\ Unmarked(h).tag = h.tag /\ Unmarked(h).size = h.size
                        /\ Unmarked(h).mark = FALSE
  BY DEF Unmarked, Header
<1>3. H \in [Offsets -> Header]
  BY <1>1, <1>2
<1>4. d = [c EXCEPT !.hdr = H]
  BY <1>1 DEF ClearMarks
<1>5. \A u \in Offsets : /\ H[u].tag = c.hdr[u].tag /\ H[u].size = c.hdr[u].size
                         /\ u \in c.starts => ~H[u].mark
  BY <1>1, <1>2, WalkOfTiled
<1> HIDE DEF H, d
<1>6. /\ d \in Cluster /\ d.hdr = H
      /\ d.bump = c.bump /\ d.free = c.free /\ d.starts = c.starts /\ d.field = c.field
  BY <1>1, <1>3, <1>4 DEF Cluster
<1>7. SameButMarks(c, d)
  BY <1>5, <1>6 DEF SameButMarks
<1>8. Shape(d)
  BY <1>1, <1>7, MarksKeepShape
<1>9. Unblemished(d)
  BY <1>1, <1>5, <1>6, ClusterParts DEF Unblemished
<1> QED
  BY <1>7, <1>8, <1>9 DEF Sound, d

(* Resolve finds the block in use whose payload the unit lies in.          *)
LEMMA ResolveFinds ==
  ASSUME NEW c, Shape(c), NEW u \in Offsets
  PROVE  Resolve(c, u) = {o \in UsedOf(c) : u \in o + 1 .. o + c.hdr[o].size - 1}
<1> DEFINE B == {p \in c.starts \cup {0} : p <= u}
           m == Max(B)
<1>1. c \in Cluster /\ Tiled(c)
  BY DEF Shape
<1>2. /\ u \in Nat /\ c.starts \subseteq Nat /\ c.bump \in Nat
      /\ \A o \in c.starts :
           /\ c.hdr[o].size \in Nat /\ c.hdr[o].size >= 2 /\ EndOf(c, o) <= c.bump
           /\ EndOf(c, o) = o + c.hdr[o].size
      /\ \A o, p \in c.starts : o < p => EndOf(c, o) <= p
  BY <1>1, ClusterParts, StartParts DEF Tiled, EndOf
<1>3. m \in B /\ \A p \in B : p <= m
  <2>1. B \in SUBSET Nat /\ B # {} /\ \A p \in B : p <= u
    BY <1>2
  <2> HIDE DEF B
  <2> QED
    BY <2>1, <1>2, MaxIsGreatest
<1>4. Resolve(c, u) = {o \in {m} \cap c.starts :
                         /\ u < c.bump
                         /\ c.hdr[o].size >= MinBlock
                         /\ o + c.hdr[o].size <= c.bump
                         /\ u \in o + 1 .. o + c.hdr[o].size - 1
                         /\ c.hdr[o].tag # 0}
  BY DEF Resolve, InPayload
<1> HIDE DEF m
<1>5. ASSUME NEW o \in UsedOf(c), u \in o + 1 .. o + c.hdr[o].size - 1
      PROVE  o \in Resolve(c, u)
  <2>1. o \in c.starts /\ c.hdr[o].tag # 0 /\ o \in Nat
    BY <1>2 DEF UsedOf
  <2> DEFINE z == c.hdr[o].size
  <2>2. z \in Nat /\ z >= 2 /\ o + z <= c.bump /\ u \in o + 1 .. o + z - 1
    BY <2>1, <1>2, <1>5
  <2>3. \A p \in c.starts : o < p => o + z <= p
    BY <2>1, <1>2
  <2> HIDE DEF z
  <2>4. o <= u /\ u < c.bump /\ o \in B
    BY <2>1, <2>2, <1>2
  <2>5. m = o
    <3>1. o <= m /\ m <= u /\ m \in Nat /\ m \in c.starts \cup {0}
      BY <2>4, <1>2, <1>3
    <3>2. CASE o < m
      <4>1. m \in c.starts
        BY <2>1, <3>1, <3>2
      <4>2. o + z <= m
        BY <2>3, <3>2, <4>1
      <4> QED
        BY <2>1, <2>2, <3>1, <4>2, <1>2
    <3> QED
      BY <2>1, <3>1, <3>2
  <2> QED
    BY <2>1, <2>2, <2>4, <2>5, <1>4 DEF z, MinBlock
<1>6. \A o \in Resolve(c, u) : o \in UsedOf(c) /\ u \in o + 1 .. o + c.hdr[o].size - 1
  BY <1>4 DEF UsedOf
<1> QED
  BY <1>5, <1>6

-----------------------------------------------------------------------------
(* Sweeping.                                                               *)

Falls(f) == \A i, j \in DOMAIN f : i < j => f[i] > f[j]

(* Every set of offsets can be listed from the highest down.               *)
LEMMA DescendingExists ==
  ASSUME NEW b \in Nat, NEW S \in SUBSET (0 .. b)
  PROVE  /\ IsFiniteSet(S) /\ Cardinality(S) \in Nat
         /\ \E f \in [1 .. Cardinality(S) -> S] : Falls(f)
<1> DEFINE Listable(n) == \A X \in SUBSET (0 .. b) :
                            Cardinality(X) = n => \E f \in [1 .. n -> X] : Falls(f)
           Good == {n \in Nat : Listable(n)}
<1>1. \A X \in SUBSET (0 .. b) : IsFiniteSet(X) /\ Cardinality(X) \in Nat
  <2>1. IsFiniteSet(0 .. b)
    BY FS_Interval
  <2> QED
    BY <2>1, FS_Subset, FS_CardinalityType
<1>2. 0 \in Good
  <2> SUFFICES ASSUME NEW X \in SUBSET (0 .. b), Cardinality(X) = 0
               PROVE  \E f \in [1 .. 0 -> X] : Falls(f)
    OBVIOUS
  <2> DEFINE f == [i \in 1 .. 0 |-> 0]
  <2>1. f \in [1 .. 0 -> X] /\ Falls(f)
    BY DEF Falls
  <2> QED
    BY <2>1
<1>3. ASSUME NEW n \in Good
      PROVE  n + 1 \in Good
  <2> SUFFICES ASSUME NEW X \in SUBSET (0 .. b), Cardinality(X) = n + 1
               PROVE  \E f \in [1 .. n + 1 -> X] : Falls(f)
    OBVIOUS
  <2> DEFINE m == Max(X)
             Y == X \ {m}
  <2>1. n \in Nat /\ IsFiniteSet(X) /\ X # {}
    BY <1>1, FS_EmptySet
  <2>2. m \in X /\ \A x \in X : x <= m
    <3>1. X \in SUBSET Nat /\ \A x \in X : x <= b
      OBVIOUS
    <3> QED
      BY <2>1, <3>1, MaxIsGreatest
  <2> HIDE DEF m
  <2>3. Cardinality(Y) = n /\ Y \in SUBSET (0 .. b)
    BY <2>1, <2>2, FS_RemoveElement, SMTT(30)
  <2>4. PICK g \in [1 .. n -> Y] : Falls(g)
    BY <2>3
  <2>5. \A x \in Y : x \in X /\ x < m /\ x \in Nat /\ m \in Nat
    BY <2>2
  <2> HIDE DEF Y
  <2> DEFINE f == [i \in 1 .. n + 1 |-> IF i = 1 THEN m ELSE g[i - 1]]
  <2>6. \A i \in 1 .. n + 1 : i # 1 => i - 1 \in 1 .. n /\ g[i - 1] \in Y
    BY <2>1, <2>4
  <2>7. f \in [1 .. n + 1 -> X]
    BY <2>2, <2>5, <2>6
  <2>8. ASSUME NEW i \in 1 .. n + 1, NEW j \in 1 .. n + 1, i < j
        PROVE  f[i] > f[j]
    <3>1. j # 1 /\ j - 1 \in 1 .. n /\ f[j] = g[j - 1] /\ g[j - 1] \in Y
      BY <2>6, <2>8
    <3>2. CASE i = 1
      BY <3>1, <3>2, <2>5
    <3>3. CASE i # 1
      <4>1. i - 1 \in 1 .. n /\ i - 1 < j - 1 /\ f[i] = g[i - 1]
        BY <3>3, <2>6, <2>8
      <4> QED
        BY <3>1, <4>1, <2>4 DEF Falls
    <3> QED
      BY <3>2, <3>3
  <2>9. Falls(f)
    BY <2>8 DEF Falls
  <2> QED
    BY <2>7, <2>9
<1>4. Good = Nat
  <2> HIDE DEF Good
  <2>1. Good \in SUBSET Nat
    BY DEF Good
  <2> QED
    BY <1>2, <1>3, <2>1, SetInduction
<1>5. Cardinality(S) \in Good
  BY <1>1, <1>4
<1> QED
  BY <1>1, <1>5

(* The list Sweep makes holds just the offsets of S, once each.            *)
LEMMA DescendingLists ==
  ASSUME NEW b \in Nat, NEW S \in SUBSET (0 .. b)
  PROVE  /\ Descending(S) \in Seq(S)
         /\ Once(Descending(S))
         /\ ToSet(Descending(S)) = S
<1> DEFINE f == Descending(S)
           n == Cardinality(S)
<1>1. n \in Nat /\ IsFiniteSet(S)
  BY DescendingExists
<1>2. f \in [1 .. n -> S] /\ Falls(f)
  BY DescendingExists DEF Descending, Falls
<1> HIDE DEF f
<1>3. f \in Seq(S) /\ Len(f) = n
  <2>1. f \in Seq(S)
    BY <1>1, <1>2, SeqDef
  <2>2. DOMAIN f = 1 .. Len(f) /\ Len(f) \in Nat
    BY <2>1, LenProperties
  <2>3. DOMAIN f = 1 .. n
    BY <1>2
  <2> QED
    BY <1>1, <2>1, <2>2, <2>3
<1>4. \A i \in 1 .. n : f[i] \in Nat
  <2>1. \A i \in 1 .. n : f[i] \in S
    BY <1>2
  <2>2. \A x \in S : x \in Nat
    OBVIOUS
  <2> QED
    BY <2>1, <2>2
<1>5. \A i, j \in 1 .. n : f[i] = f[j] => i = j
  <2> TAKE i, j \in 1 .. n
  <2>1. i < j => f[i] > f[j]
    BY <1>2 DEF Falls
  <2>2. j < i => f[j] > f[i]
    BY <1>2 DEF Falls
  <2> QED
    BY <2>1, <2>2, <1>1, <1>4
<1>6. f \in Injection(1 .. n, S)
  BY <1>2, <1>5 DEF Injection, IsInjective
<1>7. f \in Surjection(1 .. n, S)
  <2>1. IsFiniteSet(1 .. n) /\ Cardinality(1 .. n) = n
    BY <1>1, FS_Interval
  <2> QED
    BY <2>1, <1>1, <1>6, FS_Injection
<1>8. \A x \in S : \E i \in 1 .. n : f[i] = x
  BY <1>7 DEF Surjection
<1>9. ToSet(f) = S
  <2>1. \A x : x \in ToSet(f) <=> \E i \in 1 .. n : f[i] = x
    BY <1>3, ElementIff
  <2> QED
    BY <2>1, <1>2, <1>8
<1> QED
  BY <1>3, <1>5, <1>9 DEF f, Once

(* Every block but the first has one in front of it that ends where it     *)
(* begins.                                                                 *)
LEMMA BlockBefore ==
  ASSUME NEW c \in Cluster, Tiled(c), NEW p \in c.starts, p > 0
  PROVE  \E q \in c.starts : EndOf(c, q) = p
<1> DEFINE B == {x \in c.starts : x < p}
           q == Max(B)
<1>1. /\ \A o \in c.starts :
           /\ o \in Nat /\ EndOf(c, o) \in Nat /\ o < EndOf(c, o) /\ o < c.bump
           /\ EndOf(c, o) \in c.starts \cup {c.bump}
      /\ \A o, x \in c.starts : o < x => EndOf(c, o) <= x
      /\ c.bump \in Nat
  BY StartParts, ClusterParts DEF Tiled
<1>2. 0 \in B
  BY <1>1 DEF Tiled
<1>3. B \in SUBSET Nat /\ \A x \in B : x <= p
  BY <1>1
<1>4. q \in B /\ \A x \in B : x <= q
  <2> HIDE DEF B
  <2> QED
    BY <1>1, <1>2, <1>3, MaxIsGreatest
<1> HIDE DEF q
<1>5. EndOf(c, q) <= p
  BY <1>1, <1>4
<1>6. ~(EndOf(c, q) < p)
  <2> SUFFICES ASSUME EndOf(c, q) < p
               PROVE  FALSE
    OBVIOUS
  <2>1. EndOf(c, q) \in c.starts
    BY <1>1, <1>4
  <2>2. EndOf(c, q) \in B
    BY <2>1
  <2> QED
    BY <1>1, <1>4, <2>2
<1> QED
  BY <1>1, <1>4, <1>5, <1>6

(* The runs Sweep finds in a cluster that is tiled.                        *)
Kept(c)   == {o \in c.starts : Survives(c, o)}
Gone(c)   == c.starts \ Kept(c)
Inner(c)  == {o \in Gone(c) : \E p \in Gone(c) : EndOf(c, p) = o}
Runs(c)   == Gone(c) \ Inner(c)
RunEnd(c, o) == Min({k \in Kept(c) : k > o} \cup {c.bump})

(* A run ends at a block that survives or at the bump pointer, behind all  *)
(* its blocks and before the next run.                                     *)
LEMMA RunsApart ==
  ASSUME NEW c \in Cluster, Tiled(c), NEW o \in Runs(c)
  PROVE  /\ RunEnd(c, o) \in Kept(c) \cup {c.bump}
         /\ RunEnd(c, o) \in Nat /\ RunEnd(c, o) <= c.bump
         /\ EndOf(c, o) <= RunEnd(c, o)
         /\ \A k \in Kept(c) : o < k => RunEnd(c, o) <= k
         /\ \A p \in Runs(c) : o < p => RunEnd(c, o) <= p
<1> DEFINE K == {k \in Kept(c) : k > o} \cup {c.bump}
           e == RunEnd(c, o)
<1>1. /\ \A p \in c.starts :
           /\ p \in Nat /\ EndOf(c, p) \in Nat /\ p < EndOf(c, p) /\ p < c.bump
           /\ EndOf(c, p) <= c.bump
      /\ \A p, x \in c.starts : p < x => EndOf(c, p) <= x
      /\ c.bump \in Nat
  BY StartParts, ClusterParts DEF Tiled
<1>2. /\ o \in c.starts /\ o \in Gone(c)
      /\ Kept(c) \subseteq c.starts /\ Gone(c) \subseteq c.starts /\ Runs(c) \subseteq c.starts
  BY DEF Runs, Gone, Kept
<1>3. K \in SUBSET Nat /\ K # {}
  BY <1>1, <1>2
<1>4. e \in K /\ \A k \in K : e <= k
  <2>1. e = Min(K)
    BY DEF RunEnd
  <2> HIDE DEF K, e
  <2> QED
    BY <2>1, <1>3, MinIsLeast
<1> HIDE DEF e
<1>5. \A k \in K : EndOf(c, o) <= k /\ k <= c.bump
  BY <1>1, <1>2
<1>6. e \in Nat /\ e <= c.bump /\ EndOf(c, o) <= e /\ e \in Kept(c) \cup {c.bump}
  BY <1>3, <1>4, <1>5
<1>7. \A k \in Kept(c) : o < k => e <= k
  BY <1>1, <1>2, <1>4
<1>8. ASSUME NEW p \in Runs(c), o < p
      PROVE  e <= p
  <2>1. PICK q \in c.starts : EndOf(c, q) = p
    BY <1>1, <1>2, <1>8, BlockBefore
  <2>2. q \notin Gone(c)
    BY <2>1 DEF Runs, Inner
  <2>3. q \in Kept(c) /\ q # o
    BY <1>2, <2>2 DEF Gone
  <2>4. o < q
    BY <1>1, <1>2, <1>8, <2>1, <2>3
  <2>5. e <= q /\ q < p
    BY <1>1, <1>7, <2>1, <2>3, <2>4
  <2> QED
    BY <1>1, <1>2, <1>6, <2>5
<1> QED
  BY <1>6, <1>7, <1>8 DEF e

(* What Sweep does to the cluster, part by part.                           *)
LEMMA SweepParts ==
  ASSUME NEW c, Shape(c)
  PROVE  LET d == Sweep(c)
         IN /\ d \in Cluster
            /\ d.bump = c.bump /\ d.field = c.field
            /\ d.starts = c.starts \ Inner(c)
            /\ Once(d.free) /\ ToSet(d.free) = Runs(c)
            /\ \A u \in Kept(c) : /\ d.hdr[u].tag = c.hdr[u].tag
                                  /\ d.hdr[u].size = c.hdr[u].size
                                  /\ ~d.hdr[u].mark
            /\ \A u \in Runs(c) : /\ d.hdr[u].tag = 0 /\ ~d.hdr[u].mark
                                  /\ d.hdr[u].size = RunEnd(c, u) - u
            /\ \A u \in Offsets \ (Kept(c) \cup Runs(c)) : d.hdr[u] = c.hdr[u]
<1> DEFINE New(u) == [tag |-> 0, size |-> RunEnd(c, u) - u, mark |-> FALSE]
           H == [u \in Offsets |-> IF u \in Kept(c) THEN Unmarked(c.hdr[u])
                                  ELSE IF u \in Runs(c) THEN New(u)
                                  ELSE c.hdr[u]]
           d == Sweep(c)
<1>1. /\ c \in Cluster /\ Tiled(c) /\ c.hdr \in [Offsets -> Header]
      /\ c.starts \subseteq Offsets /\ Units \in Nat /\ c.bump <= Units /\ c.bump \in Nat
  BY ClusterParts DEF Shape
<1>2. Walk(c) = c.starts /\ WalkEnd(c) = c.bump
  BY <1>1, WalkOfTiled, WalkEndOfTiled
<1>3. d = [c EXCEPT !.free = Descending(Runs(c)),
                    !.starts = c.starts \ Inner(c),
                    !.hdr = H]
  <2>1. DOMAIN c.hdr = Offsets
    BY <1>1
  <2> QED
    BY <2>1, <1>2 DEF Sweep, Kept, Gone, Inner, Runs, RunEnd, EndOf
<1>4. \A h \in Header : /\ Unmarked(h) \in Header
                        /\ Unmarked(h).tag = h.tag /\ Unmarked(h).size = h.size
                        /\ Unmarked(h).mark = FALSE
  BY DEF Unmarked, Header
<1>5. Runs(c) \subseteq Offsets /\ Kept(c) \subseteq Offsets /\ Kept(c) \cap Runs(c) = {}
  BY <1>1 DEF Runs, Gone, Kept
<1>6. ASSUME NEW u \in Runs(c)
      PROVE  New(u) \in Header
  <2>1. u \in Nat /\ u < EndOf(c, u) /\ EndOf(c, u) \in Nat
    BY <1>1, StartParts DEF Runs, Gone
  <2>2. RunEnd(c, u) \in Nat /\ EndOf(c, u) <= RunEnd(c, u) /\ RunEnd(c, u) <= c.bump
    BY <1>1, RunsApart
  <2>3. RunEnd(c, u) - u \in 0 .. Units
    BY <1>1, <2>1, <2>2
  <2> QED
    BY <2>3 DEF Header
<1>7. H \in [Offsets -> Header]
  <2>1. \A u \in Offsets : Unmarked(c.hdr[u]) \in Header /\ c.hdr[u] \in Header
    BY <1>1, <1>4
  <2> HIDE DEF New
  <2> QED
    BY <2>1, <1>6
<1>8. /\ Descending(Runs(c)) \in Seq(Offsets)
      /\ Once(Descending(Runs(c)))
      /\ ToSet(Descending(Runs(c))) = Runs(c)
  <2> DEFINE S == Runs(c)
             f == Descending(S)
  <2>1. S \in SUBSET (0 .. Units) /\ S \subseteq Offsets
    BY <1>1, <1>5 DEF Offsets
  <2> HIDE DEF S
  <2>2. f \in Seq(S) /\ Once(f) /\ ToSet(f) = S
    BY <1>1, <2>1, DescendingLists
  <2> HIDE DEF f
  <2>3. f \in Seq(Offsets)
    BY <2>1, <2>2, SeqMonotonic
  <2> QED
    BY <2>2, <2>3 DEF f, S
<1>9. \A u \in Kept(c) : H[u] = Unmarked(c.hdr[u]) /\ c.hdr[u] \in Header
  BY <1>1, <1>5
<1>10. \A u \in Runs(c) : H[u] = New(u)
  <2> HIDE DEF New
  <2> QED
    BY <1>5
<1>11. \A u \in Offsets \ (Kept(c) \cup Runs(c)) : H[u] = c.hdr[u]
  <2> HIDE DEF New
  <2> QED
    OBVIOUS
<1> HIDE DEF H, d
<1>12. /\ d \in Cluster /\ d.bump = c.bump /\ d.field = c.field
       /\ d.starts = c.starts \ Inner(c) /\ d.hdr = H
       /\ d.free = Descending(Runs(c))
  <2>1. c.starts \ Inner(c) \in SUBSET Offsets
    BY <1>1
  <2> DEFINE f == Descending(Runs(c))
             st == c.starts \ Inner(c)
  <2>2. f \in Seq(Offsets) /\ st \in SUBSET Offsets
        /\ d = [c EXCEPT !.free = f, !.starts = st, !.hdr = H]
    BY <1>3, <1>8, <2>1
  <2> HIDE DEF f, st
  <2>3. /\ d \in Cluster /\ d.bump = c.bump /\ d.field = c.field
        /\ d.starts = st /\ d.hdr = H /\ d.free = f
    BY <1>1, <1>7, <2>2 DEF Cluster
  <2> QED
    BY <2>3 DEF f, st
<1> HIDE DEF New
<1>13. \A u \in Kept(c) : /\ d.hdr[u].tag = c.hdr[u].tag
                          /\ d.hdr[u].size = c.hdr[u].size
                          /\ ~d.hdr[u].mark
  BY <1>4, <1>9, <1>12
<1>14. \A u \in Runs(c) : /\ d.hdr[u].tag = 0 /\ ~d.hdr[u].mark
                          /\ d.hdr[u].size = RunEnd(c, u) - u
  <2> TAKE u \in Runs(c)
  <2>1. d.hdr[u] = New(u)
    BY <1>10, <1>12
  <2>2. New(u).tag = 0 /\ New(u).mark = FALSE /\ New(u).size = RunEnd(c, u) - u
    BY DEF New
  <2> QED
    BY <2>1, <2>2
<1>15. \A u \in Offsets \ (Kept(c) \cup Runs(c)) : d.hdr[u] = c.hdr[u]
  BY <1>11, <1>12
<1> QED
  BY <1>8, <1>12, <1>13, <1>14, <1>15 DEF d

(* A sweep leaves the cluster sound, with the marked blocks in use and no  *)
(* others.                                                                 *)
LEMMA SweepSound ==
  ASSUME NEW c, Shape(c)
  PROVE  LET d == Sweep(c)
         IN /\ Sound(d) /\ d.field = c.field
            /\ UsedOf(d) = {o \in UsedOf(c) : c.hdr[o].mark}
            /\ \A o \in UsedOf(d) : d.hdr[o].tag = c.hdr[o].tag /\ d.hdr[o].size = c.hdr[o].size
<1> DEFINE d == Sweep(c)
           K == Kept(c)
           R == Runs(c)
           W == c.starts
<1>1. /\ c \in Cluster /\ Tiled(c) /\ Listed(c) /\ Fresh(c)
      /\ Within(c) /\ Solid(c)
  BY DEF Shape
<1>2. /\ d \in Cluster
      /\ d.bump = c.bump /\ d.field = c.field
      /\ d.starts = W \ Inner(c)
      /\ Once(d.free) /\ ToSet(d.free) = R
      /\ \A u \in K : /\ d.hdr[u].tag = c.hdr[u].tag
                      /\ d.hdr[u].size = c.hdr[u].size
                      /\ ~d.hdr[u].mark
      /\ \A u \in R : /\ d.hdr[u].tag = 0 /\ ~d.hdr[u].mark
                      /\ d.hdr[u].size = RunEnd(c, u) - u
      /\ \A u \in Offsets \ (K \cup R) : d.hdr[u] = c.hdr[u]
  BY SweepParts
<1> HIDE DEF d
<1>3. K \cap R = {} /\ W \ Inner(c) = K \cup R /\ K \subseteq W /\ R \subseteq W
  BY DEF Kept, Runs, Gone, Inner
<1>4. \A o \in K : c.hdr[o].tag # 0 /\ c.hdr[o].mark
  BY DEF Kept, Survives
<1>5. K = {o \in UsedOf(c) : c.hdr[o].mark}
  BY DEF Kept, Survives, UsedOf
<1>6. /\ c.bump \in Nat /\ Units \in Nat /\ c.bump <= Units /\ Offsets \subseteq Nat
      /\ \A o \in W :
           /\ o \in Nat /\ o \in Offsets /\ o < c.bump
           /\ c.hdr[o].size >= 2 /\ c.hdr[o].size \in Nat
           /\ EndOf(c, o) \in Nat /\ o < EndOf(c, o) /\ EndOf(c, o) <= c.bump
           /\ EndOf(c, o) \in W \cup {c.bump}
           /\ EndOf(c, o) = o + c.hdr[o].size
      /\ \A o, p \in W : o < p => EndOf(c, o) <= p
  <2>1. \A o, p \in W : o < p => EndOf(c, o) <= p
    BY <1>1 DEF Tiled
  <2> QED
    BY <2>1, <1>1, StartParts, ClusterParts DEF EndOf
<1>7. \A o \in R :
        /\ RunEnd(c, o) \in K \cup {c.bump}
        /\ RunEnd(c, o) \in Nat /\ RunEnd(c, o) <= c.bump
        /\ EndOf(c, o) <= RunEnd(c, o)
        /\ \A k \in K : o < k => RunEnd(c, o) <= k
        /\ \A p \in R : o < p => RunEnd(c, o) <= p
  BY <1>1, RunsApart
<1>8. d.starts = K \cup R
  BY <1>2, <1>3
<1>9. \A o \in K : EndOf(d, o) = EndOf(c, o)
  BY <1>2 DEF EndOf
<1>10. \A o \in R : EndOf(d, o) = RunEnd(c, o) /\ d.hdr[o].size >= 2
  <2> TAKE o \in R
  <2> DEFINE e == RunEnd(c, o)
             f == EndOf(c, o)
  <2>1. /\ o \in Nat /\ e \in Nat /\ f <= e /\ f = o + c.hdr[o].size
        /\ c.hdr[o].size >= 2 /\ c.hdr[o].size \in Nat /\ f \in Nat
    BY <1>3, <1>6, <1>7
  <2>2. d.hdr[o].size = e - o
    BY <1>2
  <2> HIDE DEF e, f
  <2>3. o + (e - o) = e /\ e - o >= 2
    BY <2>1
  <2> QED
    BY <2>2, <2>3 DEF EndOf, e
<1>11. \A o \in K : EndOf(c, o) \in K \cup R \cup {c.bump}
  <2> SUFFICES ASSUME NEW o \in K, EndOf(c, o) \in Inner(c)
               PROVE  FALSE
    BY <1>3, <1>6
  <2>1. PICK p \in Gone(c) : EndOf(c, p) = EndOf(c, o)
    BY DEF Inner
  <2>2. p \in W /\ o \in W /\ p # o
    BY <1>3 DEF Gone
  <2> QED
    BY <2>1, <2>2, <1>6
<1>12. Tiled(d)
  <2>1. \A o \in d.starts : o < d.bump
    BY <1>2, <1>3, <1>6, <1>8
  <2>2. d.bump > 0 => 0 \in d.starts
    <3>1. 0 \notin Inner(c)
      <4> SUFFICES ASSUME NEW p \in Gone(c), EndOf(c, p) = 0
                   PROVE  FALSE
        BY DEF Inner
      <4>1. p \in W
        BY DEF Gone
      <4> QED
        BY <4>1, <1>6
    <3> QED
      BY <3>1, <1>1, <1>2 DEF Tiled
  <2>3. \A o \in d.starts : d.hdr[o].size >= MinBlock
    BY <1>2, <1>3, <1>6, <1>8, <1>10 DEF MinBlock
  <2>4. \A o \in d.starts :
          EndOf(d, o) <= d.bump /\ EndOf(d, o) \in d.starts \cup {d.bump}
    <3>1. \A o \in K : EndOf(d, o) <= d.bump /\ EndOf(d, o) \in d.starts \cup {d.bump}
      BY <1>2, <1>3, <1>6, <1>8, <1>9, <1>11
    <3>2. \A o \in R : EndOf(d, o) <= d.bump /\ EndOf(d, o) \in d.starts \cup {d.bump}
      BY <1>2, <1>7, <1>8, <1>10
    <3> QED
      BY <3>1, <3>2, <1>8
  <2>5. \A o, p \in d.starts : o < p => EndOf(d, o) <= p
    <3>1. \A o \in K : \A p \in d.starts : o < p => EndOf(d, o) <= p
      BY <1>3, <1>6, <1>8, <1>9
    <3>2. \A o \in R : \A p \in d.starts : o < p => EndOf(d, o) <= p
      BY <1>7, <1>8, <1>10
    <3> QED
      BY <3>1, <3>2, <1>8
  <2> QED
    BY <2>1, <2>2, <2>3, <2>4, <2>5 DEF Tiled
<1>14. UsedOf(d) = K /\ FreeOf(d) = R
  BY <1>2, <1>3, <1>4, <1>8 DEF UsedOf, FreeOf
<1>15. Listed(d)
  <2>1. ASSUME NEW o \in R
        PROVE  EndOf(d, o) \notin R
    <3>1. EndOf(d, o) \in K \cup {c.bump}
      BY <1>7, <1>10
    <3>2. c.bump \notin R
      BY <1>3, <1>6
    <3> QED
      BY <3>1, <3>2, <1>3
  <2> QED
    BY <2>1, <1>2, <1>14 DEF Listed
<1>16. Fresh(d)
  <2> SUFFICES ASSUME NEW u \in Offsets, u >= c.bump
               PROVE  d.hdr[u].tag = 0 /\ d.field[u] = Null
    BY <1>2 DEF Fresh
  <2>1. u \notin W
    BY <1>6
  <2> QED
    BY <2>1, <1>1, <1>2, <1>3 DEF Fresh
<1>17. Within(d)
  <2> SUFFICES ASSUME NEW u \in Offsets, d.hdr[u].tag # 0
               PROVE  d.hdr[u].size >= MinBlock /\ EndOf(d, u) <= Units
    BY DEF Within
  <2>1. u \notin R
    BY <1>2
  <2>2. d.hdr[u].tag = c.hdr[u].tag /\ d.hdr[u].size = c.hdr[u].size
    BY <2>1, <1>2
  <2> QED
    BY <2>2, <1>1 DEF Within, EndOf
<1>18. Solid(d)
  <2> SUFFICES ASSUME NEW o \in K, NEW u \in Offsets, o < u, u < EndOf(c, o)
               PROVE  d.hdr[u].tag = 0
    BY <1>9, <1>14 DEF Solid
  <2>1. u \notin W
    BY <1>3, <1>6
  <2>2. o \in UsedOf(c)
    BY <1>5
  <2> QED
    BY <2>1, <2>2, <1>1, <1>2, <1>3 DEF Solid
<1>19. Unblemished(d)
  BY <1>2, <1>8 DEF Unblemished
<1>20. Sound(d)
  BY <1>2, <1>12, <1>15, <1>16, <1>17, <1>18, <1>19 DEF Sound, Shape
<1> QED
  BY <1>2, <1>5, <1>14, <1>20 DEF d

-----------------------------------------------------------------------------
(* The invariant.                                                          *)

UsedIn(cs) == UNION {{i} \X UsedOf(cs[i]) : i \in DOMAIN cs}

OfType(cs, T) == {a \in UsedIn(cs) : Hdr(cs, a).tag = T}

SoundClusters(cs) == cs \in Seq(Cluster) /\ \A i \in 1 .. Len(cs) : Sound(cs[i])

CountsRight(h) ==
  /\ h.counts \in [Types -> Nat]
  /\ \A T \in Types : h.counts[T] = Cardinality(OfType(h.clusters, T))

GoodHeap(h) ==
  /\ h \in [clusters : Seq(Cluster), counts : [Types -> Nat]]
  /\ SoundClusters(h.clusters)
  /\ CountsRight(h)

(* Pointers lead into clusters there are.                                  *)
PointersTo(n) == {Payload(a) : a \in (1 .. n) \X Offsets}

FieldsInside(cs, n) ==
  \A i \in 1 .. Len(cs) : \A u \in Offsets : cs[i].field[u] \in {Null} \cup PointersTo(n)

HeapInv ==
  /\ GoodHeap(Heap)
  /\ Len(clusters) <= MaxClusters
  /\ FieldsInside(clusters, Len(clusters))
  /\ slots \in [Slots -> {Null} \cup PointersTo(Len(clusters))]

-----------------------------------------------------------------------------
(* The blocks in use.                                                      *)

LEMMA UsedInIff ==
  ASSUME NEW cs, SoundClusters(cs)
  PROVE  /\ Len(cs) \in Nat /\ DOMAIN cs = 1 .. Len(cs)
         /\ \A i \in 1 .. Len(cs) : Sound(cs[i]) /\ cs[i] \in Cluster
         /\ \A a \in UsedIn(cs) : /\ a = <<a[1], a[2]>> /\ a[1] \in 1 .. Len(cs)
                                 /\ a[2] \in UsedOf(cs[a[1]]) /\ a[2] \in Offsets
                                 /\ Hdr(cs, a) = cs[a[1]].hdr[a[2]]
         /\ \A i \in 1 .. Len(cs) : \A o \in UsedOf(cs[i]) : <<i, o>> \in UsedIn(cs)
<1>1. /\ Len(cs) \in Nat /\ DOMAIN cs = 1 .. Len(cs)
      /\ \A i \in 1 .. Len(cs) : Sound(cs[i]) /\ cs[i] \in Cluster
  BY ElementsOf DEF SoundClusters
<1>2. \A i \in 1 .. Len(cs) : UsedOf(cs[i]) \subseteq Offsets
  BY <1>1, ClusterParts DEF UsedOf
<1>3. ASSUME NEW a \in UsedIn(cs)
      PROVE  /\ a = <<a[1], a[2]>> /\ a[1] \in 1 .. Len(cs)
             /\ a[2] \in UsedOf(cs[a[1]]) /\ a[2] \in Offsets
             /\ Hdr(cs, a) = cs[a[1]].hdr[a[2]]
  <2>1. PICK i \in 1 .. Len(cs) : a \in {i} \X UsedOf(cs[i])
    BY <1>1 DEF UsedIn
  <2>2. a = <<a[1], a[2]>> /\ a[1] = i /\ a[2] \in UsedOf(cs[i])
    BY <2>1
  <2> QED
    BY <2>2, <1>2 DEF Hdr
<1>4. ASSUME NEW i \in 1 .. Len(cs), NEW o \in UsedOf(cs[i])
      PROVE  <<i, o>> \in UsedIn(cs)
  BY <1>1 DEF UsedIn
<1> QED
  BY <1>1, <1>3, <1>4

LEMMA UsedInFinite ==
  ASSUME NEW cs, SoundClusters(cs)
  PROVE  /\ IsFiniteSet(UsedIn(cs))
         /\ UsedIn(cs) \subseteq (1 .. Len(cs)) \X Offsets
         /\ \A T : IsFiniteSet(OfType(cs, T))
<1>1. UsedIn(cs) \subseteq (1 .. Len(cs)) \X Offsets
  BY UsedInIff
<1>2. IsFiniteSet((1 .. Len(cs)) \X Offsets)
  <2>1. IsFiniteSet(1 .. Len(cs))
    <3>1. 1 \in Int /\ Len(cs) \in Int
      BY UsedInIff
    <3> QED
      BY <3>1, FS_Interval
  <2>2. IsFiniteSet(Offsets)
    BY TypesBounded, FS_Interval DEF Offsets
  <2> QED
    BY <2>1, <2>2, FS_Product
<1>3. IsFiniteSet(UsedIn(cs))
  BY <1>1, <1>2, FS_Subset
<1>4. \A T : OfType(cs, T) \in SUBSET UsedIn(cs)
  BY DEF OfType
<1> QED
  BY <1>1, <1>3, <1>4, FS_Subset

LEMMA Subtracted ==
  ASSUME NEW S, IsFiniteSet(S), NEW D \in SUBSET S
  PROVE  /\ Cardinality(S) \in Nat /\ Cardinality(D) \in Nat
         /\ Cardinality(S) - Cardinality(D) \in Nat
         /\ Cardinality(S \ D) = Cardinality(S) - Cardinality(D)
<1>1. IsFiniteSet(D) /\ Cardinality(D) <= Cardinality(S)
  BY FS_Subset
<1>2. Cardinality(S) \in Nat /\ Cardinality(D) \in Nat
  BY <1>1, FS_CardinalityType
<1>3. S \cap D = D
  OBVIOUS
<1>4. Cardinality(S \ D) = Cardinality(S) - Cardinality(S \cap D)
  BY <1>1, FS_Difference
<1>5. Cardinality(S \cap D) = Cardinality(D)
  BY <1>3
<1>6. Cardinality(S \ D) = Cardinality(S) - Cardinality(D)
  BY <1>4, <1>5
<1> QED
  BY <1>1, <1>2, <1>6

-----------------------------------------------------------------------------
(* A collection.                                                           *)

Cleared(h) == [i \in DOMAIN h.clusters |-> ClearMarks(h.clusters[i])]

(* The blocks the marker gets to.                                          *)
Live(h) == NewlyMarked(Cleared(h))

(* g is what is left of h when of the blocks in use just those of L stay.  *)
Keeps(h, g, L) ==
  /\ Len(g.clusters) = Len(h.clusters)
  /\ \A i \in 1 .. Len(h.clusters) :
       /\ g.clusters[i].field = h.clusters[i].field
       /\ UsedOf(g.clusters[i]) = {o \in UsedOf(h.clusters[i]) : <<i, o>> \in L}
       /\ \A o \in UsedOf(g.clusters[i]) :
            /\ g.clusters[i].hdr[o].tag = h.clusters[i].hdr[o].tag
            /\ g.clusters[i].hdr[o].size = h.clusters[i].hdr[o].size

LEMMA ClearedParts ==
  ASSUME NEW h, GoodHeap(h)
  PROVE  LET cs == h.clusters
             cl == Cleared(h)
         IN /\ DOMAIN cl = 1 .. Len(cs)
            /\ SoundClusters(cl) /\ Len(cl) = Len(cs)
            /\ \A i \in 1 .. Len(cs) : SameButMarks(cs[i], cl[i])
<1> DEFINE cs == h.clusters
           cl == Cleared(h)
<1>1. /\ SoundClusters(cs) /\ Len(cs) \in Nat /\ DOMAIN cs = 1 .. Len(cs)
      /\ \A i \in 1 .. Len(cs) : Sound(cs[i])
  BY UsedInIff DEF GoodHeap
<1>2. \A i \in 1 .. Len(cs) : SameButMarks(cs[i], ClearMarks(cs[i])) /\ Sound(ClearMarks(cs[i]))
  BY <1>1, ClearMarksSound
<1>3. /\ cl = [i \in 1 .. Len(cs) |-> ClearMarks(cs[i])]
      /\ \A i \in 1 .. Len(cs) : cl[i] = ClearMarks(cs[i])
  BY <1>1 DEF Cleared
<1> HIDE DEF cl, cs
<1>4. \A i \in 1 .. Len(cs) : cl[i] \in Cluster
  BY <1>2, <1>3 DEF Sound, Shape
<1>5. cl \in [1 .. Len(cs) -> Cluster]
  BY <1>3, <1>4
<1>6. cl \in Seq(Cluster)
  BY <1>1, <1>5, SeqDef
<1>7. Len(cl) = Len(cs)
  BY <1>1, <1>5, <1>6, LenProperties
<1>8. SoundClusters(cl)
  BY <1>2, <1>3, <1>6, <1>7 DEF SoundClusters
<1>9. DOMAIN cl = 1 .. Len(cs)
  BY <1>5
<1>10. \A i \in 1 .. Len(cs) : SameButMarks(cs[i], cl[i])
  BY <1>2, <1>3
<1> QED
  BY <1>7, <1>8, <1>9, <1>10 DEF cl, cs

(* Marking changes marks only, and those of the starts just as Live says.  *)
LEMMA MarkedParts ==
  ASSUME NEW cl, SoundClusters(cl)
  PROVE  LET m == SetMarks(cl)
         IN /\ DOMAIN m = 1 .. Len(cl)
            /\ \A i \in 1 .. Len(cl) :
                 /\ SameButMarks(cl[i], m[i])
                 /\ \A o \in cl[i].starts : m[i].hdr[o].mark <=> <<i, o>> \in NewlyMarked(cl)
<1> DEFINE new == NewlyMarked(cl)
           m == SetMarks(cl)
           H(i) == [u \in Offsets |-> IF <<i, u>> \in new THEN [cl[i].hdr[u] EXCEPT !.mark = TRUE]
                                     ELSE cl[i].hdr[u]]
<1>1. /\ Len(cl) \in Nat /\ DOMAIN cl = 1 .. Len(cl)
      /\ \A i \in 1 .. Len(cl) : cl[i] \in Cluster /\ Unblemished(cl[i])
  BY UsedInIff DEF Sound
<1>2. \A i \in 1 .. Len(cl) : /\ cl[i].hdr \in [Offsets -> Header]
                              /\ cl[i].starts \subseteq Offsets
  BY <1>1, ClusterParts
<1>3. \A i \in 1 .. Len(cl) : m[i] = [cl[i] EXCEPT !.hdr = H(i)]
  <2>1. \A i \in 1 .. Len(cl) : DOMAIN cl[i].hdr = Offsets
    BY <1>2
  <2> QED
    BY <2>1, <1>1 DEF SetMarks
<1>4. DOMAIN m = 1 .. Len(cl)
  BY <1>1 DEF SetMarks
<1> HIDE DEF m, new
<1>5. ASSUME NEW i \in 1 .. Len(cl)
      PROVE  /\ SameButMarks(cl[i], m[i])
             /\ \A o \in cl[i].starts : m[i].hdr[o].mark <=> <<i, o>> \in new
  <2> DEFINE c == cl[i]
             d == m[i]
             G == H(i)
  <2>1. c \in Cluster /\ Unblemished(c) /\ c.hdr \in [Offsets -> Header]
        /\ c.starts \subseteq Offsets /\ d = [c EXCEPT !.hdr = G]
    BY <1>1, <1>2, <1>3
  <2>2. \A u \in Offsets :
          c.hdr[u] \in Header
          /\ G[u] = IF <<i, u>> \in new THEN [c.hdr[u] EXCEPT !.mark = TRUE] ELSE c.hdr[u]
    BY <2>1
  <2>3. \A x \in Header : /\ [x EXCEPT !.mark = TRUE] \in Header
                          /\ [x EXCEPT !.mark = TRUE].tag = x.tag
                          /\ [x EXCEPT !.mark = TRUE].size = x.size
                          /\ [x EXCEPT !.mark = TRUE].mark = TRUE
    BY DEF Header
  <2>4. G \in [Offsets -> Header]
    <3>1. \A u \in Offsets : G[u] \in Header
      BY <2>2, <2>3
    <3>2. G = [u \in Offsets |-> G[u]]
      OBVIOUS
    <3> HIDE DEF G
    <3> QED
      BY <3>1, <3>2
  <2> HIDE DEF c, d, G, H
  <2>5. /\ d \in Cluster /\ d.hdr = G
        /\ d.bump = c.bump /\ d.free = c.free /\ d.starts = c.starts /\ d.field = c.field
    BY <2>1, <2>4 DEF Cluster
  <2>6. \A u \in Offsets : G[u].tag = c.hdr[u].tag /\ G[u].size = c.hdr[u].size
    BY <2>2, <2>3
  <2>7. \A o \in c.starts : G[o].mark <=> <<i, o>> \in new
    <3> TAKE o \in c.starts
    <3>1. o \in Offsets /\ ~c.hdr[o].mark
      BY <2>1 DEF Unblemished
    <3> QED
      BY <3>1, <2>2, <2>3
  <2>8. SameButMarks(c, d)
    BY <2>5, <2>6 DEF SameButMarks
  <2>9. \A o \in c.starts : d.hdr[o].mark <=> <<i, o>> \in new
    BY <2>5, <2>7
  <2> QED
    BY <2>8, <2>9 DEF c, d
<1> QED
  BY <1>4, <1>5 DEF m, new

(* Records of a heap.                                                      *)
LEMMA HeapParts ==
  ASSUME NEW cs, NEW ct
  PROVE  /\ [clusters |-> cs, counts |-> ct].clusters = cs
         /\ [clusters |-> cs, counts |-> ct].counts = ct
         /\ cs \in Seq(Cluster) /\ ct \in [Types -> Nat]
              => [clusters |-> cs, counts |-> ct]
                   \in [clusters : Seq(Cluster), counts : [Types -> Nat]]
  OBVIOUS

(* A collection leaves a good heap with the live blocks in use.            *)
LEMMA CollectedGood ==
  ASSUME NEW h, GoodHeap(h)
  PROVE  /\ GoodHeap(Collected(h))
         /\ Keeps(h, Collected(h), Live(h))
<1> DEFINE cs == h.clusters
           cl == Cleared(h)
           m == SetMarks(cl)
           n == Len(cs)
           out == [i \in DOMAIN m |-> Sweep(m[i])]
           dead(T) == UNION {{i} \X DeadOfType(m[i], T) : i \in DOMAIN m}
           ct == [T \in Types |-> h.counts[T] - Cardinality(dead(T))]
           L == Live(h)
<1>1. /\ SoundClusters(cs) /\ n \in Nat /\ DOMAIN cs = 1 .. n
      /\ \A i \in 1 .. n : Sound(cs[i]) /\ cs[i] \in Cluster
      /\ CountsRight(h)
  BY UsedInIff DEF GoodHeap
<1>2. /\ SoundClusters(cl) /\ Len(cl) = n
      /\ \A i \in 1 .. n : SameButMarks(cs[i], cl[i])
  BY ClearedParts
<1>3. \A i \in 1 .. n : Sound(cl[i])
  BY <1>2, UsedInIff
<1>4. L = NewlyMarked(cl)
  BY DEF Live
<1>5. Collected(h) = [clusters |-> out, counts |-> ct]
  BY DEF Collected, Cleared
<1> HIDE DEF cl, L, cs
<1>6. /\ DOMAIN m = 1 .. n
      /\ \A i \in 1 .. n :
           /\ SameButMarks(cl[i], m[i])
           /\ \A o \in cl[i].starts : m[i].hdr[o].mark <=> <<i, o>> \in L
  BY <1>2, <1>4, MarkedParts
<1> HIDE DEF m
<1>7. ASSUME NEW i \in 1 .. n
      PROVE  /\ Shape(m[i]) /\ UsedOf(m[i]) = UsedOf(cs[i]) /\ m[i].field = cs[i].field
             /\ \A u \in Offsets : /\ m[i].hdr[u].tag = cs[i].hdr[u].tag
                                   /\ m[i].hdr[u].size = cs[i].hdr[u].size
             /\ \A o \in UsedOf(cs[i]) : m[i].hdr[o].mark <=> <<i, o>> \in L
             /\ UsedOf(cs[i]) \subseteq Offsets
  <2>1. Shape(cs[i]) /\ Shape(cl[i]) /\ SameButMarks(cs[i], cl[i]) /\ SameButMarks(cl[i], m[i])
    BY <1>1, <1>2, <1>3, <1>6 DEF Sound
  <2>2. Shape(m[i]) /\ UsedOf(m[i]) = UsedOf(cl[i]) /\ UsedOf(cl[i]) = UsedOf(cs[i])
    BY <2>1, MarksKeepShape
  <2>3. /\ m[i].field = cs[i].field
        /\ \A u \in Offsets : /\ m[i].hdr[u].tag = cs[i].hdr[u].tag
                              /\ m[i].hdr[u].size = cs[i].hdr[u].size
    BY <2>1 DEF SameButMarks
  <2>4. UsedOf(cs[i]) \subseteq cl[i].starts
    BY <2>2 DEF UsedOf
  <2>5. UsedOf(cs[i]) \subseteq Offsets
    BY <1>1, ClusterParts DEF UsedOf
  <2> QED
    BY <2>2, <2>3, <2>4, <2>5, <1>6
<1>8. DOMAIN out = 1 .. n /\ \A i \in 1 .. n : out[i] = Sweep(m[i])
  BY <1>6
<1>9. out = [i \in 1 .. n |-> out[i]]
  BY <1>6
<1> HIDE DEF out
<1>10. ASSUME NEW i \in 1 .. n
       PROVE  /\ Sound(out[i]) /\ out[i].field = cs[i].field
              /\ UsedOf(out[i]) = {o \in UsedOf(cs[i]) : <<i, o>> \in L}
              /\ \A o \in UsedOf(out[i]) : /\ out[i].hdr[o].tag = cs[i].hdr[o].tag
                                          /\ out[i].hdr[o].size = cs[i].hdr[o].size
  <2>1. /\ Sound(out[i]) /\ out[i].field = m[i].field
        /\ UsedOf(out[i]) = {o \in UsedOf(m[i]) : m[i].hdr[o].mark}
        /\ \A o \in UsedOf(out[i]) : /\ out[i].hdr[o].tag = m[i].hdr[o].tag
                                    /\ out[i].hdr[o].size = m[i].hdr[o].size
    BY <1>7, <1>8, SweepSound
  <2>2. UsedOf(out[i]) = {o \in UsedOf(cs[i]) : <<i, o>> \in L}
    BY <2>1, <1>7
  <2> QED
    BY <2>1, <2>2, <1>7
<1>11. out \in Seq(Cluster) /\ Len(out) = n
  <2>1. \A i \in 1 .. n : out[i] \in Cluster
    BY <1>10 DEF Sound, Shape
  <2>2. out \in [1 .. n -> Cluster]
    BY <1>9, <2>1
  <2>3. out \in Seq(Cluster)
    BY <1>1, <2>2, SeqDef
  <2> QED
    BY <1>1, <2>2, <2>3, LenProperties
<1>12. SoundClusters(out)
  BY <1>10, <1>11 DEF SoundClusters
<1>13. ASSUME NEW T \in Types
       PROVE  dead(T) \in SUBSET OfType(cs, T) /\ OfType(out, T) = OfType(cs, T) \ dead(T)
  <2>0. T # 0
    BY TypesBounded
  <2>1. ASSUME NEW i \in 1 .. n
        PROVE  DeadOfType(m[i], T)
                 = {o \in UsedOf(cs[i]) : <<i, o>> \notin L /\ cs[i].hdr[o].tag = T}
    <3>1. m[i] \in Cluster /\ Tiled(m[i])
      BY <1>7 DEF Shape
    <3>2. InUse(m[i]) = UsedOf(cs[i])
      BY <3>1, <1>7, WalkOfTiled DEF InUse, UsedOf
    <3>3. \A o \in UsedOf(cs[i]) :
            /\ Survives(m[i], o) <=> <<i, o>> \in L
            /\ m[i].hdr[o].tag = cs[i].hdr[o].tag
      <4>1. \A o \in UsedOf(m[i]) : m[i].hdr[o].tag # 0
        BY DEF UsedOf
      <4> QED
        BY <4>1, <1>7 DEF Survives
    <3> QED
      BY <3>2, <3>3 DEF DeadOfType
  <2>2. \A i \in 1 .. n : \A o :
          <<i, o>> \in OfType(cs, T) <=> o \in UsedOf(cs[i]) /\ cs[i].hdr[o].tag = T
    BY <1>1, UsedInIff DEF OfType, Hdr
  <2>3. \A i \in 1 .. n : \A o :
          <<i, o>> \in OfType(out, T) <=> o \in UsedOf(out[i]) /\ out[i].hdr[o].tag = T
    BY <1>11, <1>12, UsedInIff DEF OfType, Hdr
  <2>4. \A i \in 1 .. n : \A o :
          <<i, o>> \in dead(T) <=> o \in DeadOfType(m[i], T)
    <3> TAKE i \in 1 .. n
    <3> TAKE o
    <3> DEFINE D(j) == DeadOfType(m[j], T)
    <3>1. <<i, o>> \in dead(T) <=> \E j \in 1 .. n : <<i, o>> \in {j} \X D(j)
      BY <1>6
    <3> HIDE DEF D
    <3>2. \A j : <<i, o>> \in {j} \X D(j) <=> i = j /\ o \in D(j)
      OBVIOUS
    <3>3. <<i, o>> \in dead(T) <=> o \in D(i)
      BY <3>1, <3>2
    <3> QED
      BY <3>3 DEF D
  <2>5. /\ OfType(cs, T) \subseteq (1 .. n) \X Offsets
        /\ OfType(out, T) \subseteq (1 .. n) \X Offsets
    BY <1>1, <1>11, <1>12, UsedInFinite DEF OfType
  <2>6. dead(T) \subseteq (1 .. n) \X Offsets
    <3>1. \A i \in 1 .. n : DeadOfType(m[i], T) \subseteq Offsets
      BY <2>1, <1>7
    <3> QED
      BY <3>1, <1>6
  <2> HIDE DEF dead
  <2>7. ASSUME NEW i \in 1 .. n, NEW o \in Offsets
        PROVE  /\ <<i, o>> \in dead(T) => <<i, o>> \in OfType(cs, T)
               /\ <<i, o>> \in OfType(out, T)
                    <=> <<i, o>> \in OfType(cs, T) /\ <<i, o>> \notin dead(T)
    BY <2>1, <2>2, <2>3, <2>4, <1>10
  <2>8. \A a \in (1 .. n) \X Offsets : \E i \in 1 .. n, o \in Offsets : a = <<i, o>>
    OBVIOUS
  <2> QED
    BY <2>5, <2>6, <2>7, <2>8
<1> HIDE DEF dead
<1>14. \A T \in Types :
         /\ h.counts[T] = Cardinality(OfType(cs, T))
         /\ ct[T] = h.counts[T] - Cardinality(dead(T))
         /\ h.counts[T] - Cardinality(dead(T)) = Cardinality(OfType(out, T))
         /\ h.counts[T] - Cardinality(dead(T)) \in Nat
  <2> TAKE T \in Types
  <2>1. h.counts[T] = Cardinality(OfType(cs, T))
    BY <1>1 DEF CountsRight, cs
  <2>2. IsFiniteSet(OfType(cs, T))
    BY <1>1, UsedInFinite
  <2>3. /\ Cardinality(OfType(cs, T)) - Cardinality(dead(T)) \in Nat
        /\ Cardinality(OfType(cs, T) \ dead(T))
              = Cardinality(OfType(cs, T)) - Cardinality(dead(T))
    BY <2>2, <1>13, Subtracted
  <2> QED
    BY <2>1, <2>3, <1>13
<1>15. ct \in [Types -> Nat] /\ \A T \in Types : ct[T] = Cardinality(OfType(out, T))
  BY <1>14
<1> HIDE DEF ct
<1>16. GoodHeap(Collected(h))
  BY <1>5, <1>11, <1>12, <1>15, HeapParts DEF GoodHeap, CountsRight
<1>17. Keeps(h, Collected(h), L)
  BY <1>5, <1>10, <1>11, HeapParts DEF Keeps, cs
<1> QED
  BY <1>16, <1>17 DEF L

-----------------------------------------------------------------------------
(* Room for a block, and the block.                                        *)

(* g holds the blocks of h that are in L, as they were, and no other block *)
(* in use; its further clusters are empty.                                 *)
After(h, g, L) ==
  /\ Len(h.clusters) <= Len(g.clusters)
  /\ UsedIn(g.clusters) = UsedIn(h.clusters) \cap L
  /\ \A a \in UsedIn(g.clusters) :
       /\ Hdr(g.clusters, a).tag = Hdr(h.clusters, a).tag
       /\ Hdr(g.clusters, a).size = Hdr(h.clusters, a).size
  /\ \A i \in 1 .. Len(h.clusters) : g.clusters[i].field = h.clusters[i].field
  /\ \A i \in 1 .. Len(g.clusters) :
       i > Len(h.clusters) => \A u \in Offsets : g.clusters[i].field[u] = Null

LEMMA AfterSame ==
  ASSUME NEW h, GoodHeap(h)
  PROVE  After(h, h, UsedIn(h.clusters))
<1>1. Len(h.clusters) \in Nat
  BY UsedInIff DEF GoodHeap
<1> QED
  BY <1>1 DEF After

LEMMA AfterKept ==
  ASSUME NEW h, GoodHeap(h), NEW g, GoodHeap(g), NEW L, Keeps(h, g, L)
  PROVE  After(h, g, L)
<1> DEFINE cs == h.clusters
           ds == g.clusters
           n == Len(cs)
<1>1. SoundClusters(cs) /\ SoundClusters(ds) /\ Len(ds) = n
  BY DEF GoodHeap, Keeps
<1>2. \A i \in 1 .. n :
        /\ ds[i].field = cs[i].field
        /\ UsedOf(ds[i]) = {o \in UsedOf(cs[i]) : <<i, o>> \in L}
        /\ \A o \in UsedOf(ds[i]) : /\ ds[i].hdr[o].tag = cs[i].hdr[o].tag
                                   /\ ds[i].hdr[o].size = cs[i].hdr[o].size
  BY DEF Keeps
<1> HIDE DEF cs, ds
<1>3. /\ n \in Nat
      /\ \A a \in UsedIn(cs) : /\ a = <<a[1], a[2]>> /\ a[1] \in 1 .. n
                              /\ a[2] \in UsedOf(cs[a[1]])
                              /\ Hdr(cs, a) = cs[a[1]].hdr[a[2]]
      /\ \A i \in 1 .. n : \A o \in UsedOf(cs[i]) : <<i, o>> \in UsedIn(cs)
  BY <1>1, UsedInIff
<1>4. /\ \A a \in UsedIn(ds) : /\ a = <<a[1], a[2]>> /\ a[1] \in 1 .. n
                              /\ a[2] \in UsedOf(ds[a[1]])
                              /\ Hdr(ds, a) = ds[a[1]].hdr[a[2]]
      /\ \A i \in 1 .. n : \A o \in UsedOf(ds[i]) : <<i, o>> \in UsedIn(ds)
  BY <1>1, UsedInIff
<1>5. \A a \in UsedIn(ds) : a \in UsedIn(cs) /\ a \in L
  <2> TAKE a \in UsedIn(ds)
  <2>1. a = <<a[1], a[2]>> /\ a[1] \in 1 .. n /\ a[2] \in UsedOf(ds[a[1]])
    BY <1>4
  <2>2. a[2] \in UsedOf(cs[a[1]]) /\ <<a[1], a[2]>> \in L
    BY <2>1, <1>2
  <2>3. <<a[1], a[2]>> \in UsedIn(cs)
    BY <2>1, <2>2, <1>3
  <2> QED
    BY <2>1, <2>2, <2>3
<1>6. \A a \in UsedIn(cs) : a \in L => a \in UsedIn(ds)
  <2> TAKE a \in UsedIn(cs)
  <2>1. a = <<a[1], a[2]>> /\ a[1] \in 1 .. n /\ a[2] \in UsedOf(cs[a[1]])
    BY <1>3
  <2> QED
    BY <2>1, <1>2, <1>4
<1>7. \A a \in UsedIn(ds) : /\ Hdr(ds, a).tag = Hdr(cs, a).tag
                            /\ Hdr(ds, a).size = Hdr(cs, a).size
  BY <1>2, <1>3, <1>4, <1>5
<1>8. UsedIn(ds) = UsedIn(cs) \cap L
  BY <1>5, <1>6
<1>9. Len(cs) <= Len(ds) /\ \A i \in 1 .. Len(ds) : ~(i > n)
  BY <1>1, <1>3
<1> QED
  BY <1>1, <1>2, <1>7, <1>8, <1>9 DEF After, cs, ds

LEMMA AfterTwice ==
  ASSUME NEW h, NEW g, NEW k, NEW L, NEW M,
         GoodHeap(h), GoodHeap(g), GoodHeap(k),
         After(h, g, L), After(g, k, M)
  PROVE  After(h, k, L \cap M)
<1>1. /\ Len(h.clusters) \in Nat /\ Len(g.clusters) \in Nat /\ Len(k.clusters) \in Nat
      /\ \A i \in 1 .. Len(g.clusters) : g.clusters[i] \in Cluster
  BY UsedInIff DEF GoodHeap
<1>2. Len(h.clusters) <= Len(k.clusters)
  BY <1>1 DEF After
<1>3. UsedIn(k.clusters) = UsedIn(h.clusters) \cap (L \cap M)
  BY DEF After
<1>4. \A a \in UsedIn(k.clusters) :
        /\ Hdr(k.clusters, a).tag = Hdr(h.clusters, a).tag
        /\ Hdr(k.clusters, a).size = Hdr(h.clusters, a).size
  BY DEF After
<1>5. \A i \in 1 .. Len(h.clusters) : k.clusters[i].field = h.clusters[i].field
  BY <1>1 DEF After
<1>6. ASSUME NEW i \in 1 .. Len(k.clusters), i > Len(h.clusters), NEW u \in Offsets
      PROVE  k.clusters[i].field[u] = Null
  <2>1. CASE i > Len(g.clusters)
    BY <2>1 DEF After
  <2>2. CASE i <= Len(g.clusters)
    BY <2>2, <1>1, <1>6 DEF After
  <2> QED
    BY <2>1, <2>2, <1>1
<1> QED
  BY <1>2, <1>3, <1>4, <1>5, <1>6 DEF After

(* A new cluster adds no block.                                            *)
LEMMA GrownGood ==
  ASSUME NEW h, GoodHeap(h)
  PROVE  /\ GoodHeap(Grow(h))
         /\ After(h, Grow(h), UsedIn(h.clusters))
         /\ Len(Grow(h).clusters) = Len(h.clusters) + 1
         /\ Grow(h).clusters[Len(h.clusters) + 1] = NewCluster
<1> DEFINE cs == h.clusters
           ds == Append(cs, NewCluster)
           n == Len(cs)
<1>1. /\ SoundClusters(cs) /\ cs \in Seq(Cluster) /\ n \in Nat /\ DOMAIN cs = 1 .. n
      /\ CountsRight(h) /\ h \in [clusters : Seq(Cluster), counts : [Types -> Nat]]
      /\ \A i \in 1 .. n : Sound(cs[i]) /\ cs[i] \in Cluster
  BY UsedInIff DEF GoodHeap, SoundClusters
<1>2. /\ Sound(NewCluster) /\ NewCluster \in Cluster /\ UsedOf(NewCluster) = {}
      /\ \A u \in Offsets : NewCluster.field[u] = Null
  BY NewClusterSound DEF Sound, Shape, NewCluster, Offsets
<1>3. Grow(h) = [h EXCEPT !.clusters = ds]
  BY DEF Grow
<1> HIDE DEF cs
<1>4. /\ ds \in Seq(Cluster) /\ Len(ds) = n + 1
      /\ \A i \in 1 .. n : ds[i] = cs[i]
      /\ ds[n + 1] = NewCluster
  BY <1>1, <1>2, Appended
<1> HIDE DEF ds
<1>5. /\ Grow(h).clusters = ds /\ Grow(h).counts = h.counts
      /\ Grow(h) \in [clusters : Seq(Cluster), counts : [Types -> Nat]]
  BY <1>1, <1>3, <1>4
<1>6. SoundClusters(ds)
  <2>1. \A i \in 1 .. n + 1 : i \in 1 .. n \/ i = n + 1
    BY <1>1
  <2> QED
    BY <2>1, <1>1, <1>2, <1>4 DEF SoundClusters
<1>7. UsedIn(ds) = UsedIn(cs)
  <2>1. \A i \in 1 .. n + 1 : i \in 1 .. n \/ i = n + 1
    BY <1>1
  <2>2. /\ \A a \in UsedIn(cs) : /\ a = <<a[1], a[2]>> /\ a[1] \in 1 .. n
                                /\ a[2] \in UsedOf(cs[a[1]])
        /\ \A i \in 1 .. n : \A o \in UsedOf(cs[i]) : <<i, o>> \in UsedIn(cs)
    BY <1>1, UsedInIff
  <2>3. /\ \A a \in UsedIn(ds) : /\ a = <<a[1], a[2]>> /\ a[1] \in 1 .. n + 1
                                /\ a[2] \in UsedOf(ds[a[1]])
        /\ \A i \in 1 .. n + 1 : \A o \in UsedOf(ds[i]) : <<i, o>> \in UsedIn(ds)
    BY <1>4, <1>6, UsedInIff
  <2>4. \A a \in UsedIn(ds) : a \in UsedIn(cs)
    <3> TAKE a \in UsedIn(ds)
    <3>1. a = <<a[1], a[2]>> /\ a[1] \in 1 .. n + 1 /\ a[2] \in UsedOf(ds[a[1]])
      BY <2>3
    <3>2. a[1] \in 1 .. n
      BY <3>1, <2>1, <1>2, <1>4
    <3>3. a[2] \in UsedOf(cs[a[1]])
      BY <3>1, <3>2, <1>4
    <3>4. <<a[1], a[2]>> \in UsedIn(cs)
      BY <3>2, <3>3, <2>2
    <3> QED
      BY <3>1, <3>4
  <2>5. \A a \in UsedIn(cs) : a \in UsedIn(ds)
    <3> TAKE a \in UsedIn(cs)
    <3>1. a = <<a[1], a[2]>> /\ a[1] \in 1 .. n /\ a[2] \in UsedOf(cs[a[1]])
      BY <2>2
    <3>2. a[1] \in 1 .. n + 1 /\ a[2] \in UsedOf(ds[a[1]])
      BY <3>1, <1>1, <1>4
    <3>3. <<a[1], a[2]>> \in UsedIn(ds)
      BY <3>2, <2>3
    <3> QED
      BY <3>1, <3>3
  <2> QED
    BY <2>4, <2>5
<1>8. \A a \in UsedIn(cs) : Hdr(ds, a) = Hdr(cs, a)
  BY <1>1, <1>4, UsedInIff DEF Hdr
<1>9. \A T \in Types : OfType(ds, T) = OfType(cs, T)
  BY <1>7, <1>8 DEF OfType
<1>10. GoodHeap(Grow(h))
  BY <1>1, <1>5, <1>6, <1>9 DEF GoodHeap, CountsRight, cs
<1>11. After(h, Grow(h), UsedIn(cs))
  <2>1. n <= n + 1 /\ \A i \in 1 .. n + 1 : i > n => i = n + 1
    BY <1>1
  <2> QED
    BY <2>1, <1>2, <1>4, <1>5, <1>7, <1>8 DEF After, cs
<1> QED
  BY <1>4, <1>5, <1>10, <1>11 DEF cs

LEMMA AfterSubset ==
  ASSUME NEW h, NEW g, NEW L, NEW M, After(h, g, L),
         UsedIn(h.clusters) \cap L = UsedIn(h.clusters) \cap M
  PROVE  After(h, g, M)
BY DEF After

(* Once there is room the heap is good, with all its blocks or with those  *)
(* a collection leaves.                                                    *)
LEMMA RoomMade ==
  ASSUME NEW h, GoodHeap(h), NEW n \in Types
  PROVE  LET g == WithRoom(h, n)
         IN /\ GoodHeap(g)
            /\ CanAllocIn(g.clusters, n) # {}
            /\ \E L \in {UsedIn(h.clusters), Live(h)} : After(h, g, L)
<1> DEFINE g == WithRoom(h, n)
           k == Collected(h)
<1>1. GoodHeap(k) /\ After(h, k, Live(h))
  BY CollectedGood, AfterKept
<1>2. CASE CanAllocIn(h.clusters, n) # {}
  <2>1. g = h
    BY <1>2 DEF WithRoom
  <2> QED
    BY <1>2, <2>1, AfterSame
<1>3. CASE CanAllocIn(h.clusters, n) = {} /\ CanAllocIn(k.clusters, n) # {}
  <2>1. g = k
    BY <1>3 DEF WithRoom
  <2> QED
    BY <1>1, <1>3, <2>1
<1>4. CASE CanAllocIn(h.clusters, n) = {} /\ CanAllocIn(k.clusters, n) = {}
  <2>1. g = Grow(k)
    BY <1>4 DEF WithRoom
  <2> HIDE DEF g, k
  <2>2. /\ GoodHeap(g) /\ After(k, g, UsedIn(k.clusters))
        /\ Len(g.clusters) = Len(k.clusters) + 1
        /\ g.clusters[Len(k.clusters) + 1] = NewCluster
    BY <1>1, <2>1, GrownGood
  <2>3. Len(k.clusters) + 1 \in DOMAIN g.clusters
    BY <1>1, <2>2, UsedInIff DEF GoodHeap
  <2>4. CanAlloc(NewCluster, n)
    BY TypesBounded DEF CanAlloc, NewCluster
  <2>5. CanAllocIn(g.clusters, n) # {}
    BY <2>2, <2>3, <2>4 DEF CanAllocIn
  <2>6. After(h, g, Live(h) \cap UsedIn(k.clusters))
    BY <1>1, <2>2, AfterTwice
  <2>7. UsedIn(k.clusters) = UsedIn(h.clusters) \cap Live(h)
    BY <1>1 DEF After
  <2>8. After(h, g, Live(h))
    BY <2>6, <2>7, AfterSubset
  <2> QED
    BY <2>2, <2>5, <2>8 DEF g, k
<1> QED
  BY <1>2, <1>3, <1>4

LEMMA ClusterReplaced ==
  ASSUME NEW cs, SoundClusters(cs), NEW i \in 1 .. Len(cs), NEW d, Sound(d)
  PROVE  LET ds == [cs EXCEPT ![i] = d]
         IN /\ SoundClusters(ds) /\ Len(ds) = Len(cs)
            /\ ds[i] = d
            /\ \A j \in 1 .. Len(cs) : j # i => ds[j] = cs[j]
<1> DEFINE ds == [cs EXCEPT ![i] = d]
<1>1. /\ cs \in Seq(Cluster) /\ Len(cs) \in Nat /\ DOMAIN cs = 1 .. Len(cs)
      /\ \A j \in 1 .. Len(cs) : Sound(cs[j]) /\ cs[j] \in Cluster
  BY UsedInIff DEF SoundClusters
<1>2. d \in Cluster
  BY DEF Sound, Shape
<1>3. ds[i] = d /\ \A j \in 1 .. Len(cs) : j # i => ds[j] = cs[j]
  BY <1>1
<1>4. ds \in [1 .. Len(cs) -> Cluster]
  BY <1>1, <1>2
<1> HIDE DEF ds
<1>5. ds \in Seq(Cluster)
  BY <1>1, <1>4, SeqDef
<1>6. Len(ds) = Len(cs)
  BY <1>1, <1>4, <1>5, LenProperties
<1>7. SoundClusters(ds)
  BY <1>1, <1>3, <1>5, <1>6 DEF SoundClusters
<1> QED
  BY <1>3, <1>6, <1>7 DEF ds

(* What __newbcpl_new_rec makes of a heap with room.                       *)
WithBlock(g, i, T) ==
  [clusters |-> [g.clusters EXCEPT ![i] = TryAlloc(@, T)],
   counts   |-> [g.counts EXCEPT ![T] = @ + 1]]

NewBlock(g, i, T) == <<i, AllocOffset(g.clusters[i], T)>>

(* It has one block more, of the right type, its field null; the others    *)
(* are as they were.                                                       *)
GainsBlock(g, i, T) ==
  LET k == WithBlock(g, i, T)
      a == NewBlock(g, i, T)
  IN /\ GoodHeap(k)
     /\ Len(k.clusters) = Len(g.clusters) /\ i \in 1 .. Len(g.clusters)
     /\ a \notin UsedIn(g.clusters)
     /\ a \in (1 .. Len(g.clusters)) \X Offsets
     /\ a[1] = i /\ a[2] = AllocOffset(g.clusters[i], T)
     /\ UsedIn(k.clusters) = UsedIn(g.clusters) \cup {a}
     /\ Hdr(k.clusters, a) = Block(T) /\ k.clusters[a[1]].field[a[2]] = Null
     /\ \A b \in UsedIn(g.clusters) :
          /\ Hdr(k.clusters, b) = Hdr(g.clusters, b)
          /\ k.clusters[b[1]].field[b[2]] = g.clusters[b[1]].field[b[2]]
     /\ \A j \in 1 .. Len(g.clusters) : \A u \in Offsets :
          \/ k.clusters[j].field[u] = Null
          \/ k.clusters[j].field[u] = g.clusters[j].field[u]

LEMMA Allocated ==
  ASSUME NEW g, GoodHeap(g), NEW T \in Types,
         NEW i \in CanAllocIn(g.clusters, T), ~LeavesSliver(g.clusters[i], T)
  PROVE  GainsBlock(g, i, T)
<1> DEFINE cs == g.clusters
           n == Len(cs)
           c == cs[i]
           d == TryAlloc(c, T)
           off == AllocOffset(c, T)
           ds == [cs EXCEPT ![i] = d]
           a == <<i, off>>
           ct == [g.counts EXCEPT ![T] = @ + 1]
           k == WithBlock(g, i, T)
<1>1. /\ SoundClusters(cs) /\ cs \in Seq(Cluster) /\ n \in Nat /\ DOMAIN cs = 1 .. n
      /\ CountsRight(g)
      /\ \A j \in 1 .. n : Sound(cs[j]) /\ cs[j] \in Cluster
  BY UsedInIff DEF GoodHeap, SoundClusters
<1>2. i \in 1 .. n /\ CanAlloc(c, T)
  BY <1>1 DEF CanAllocIn
<1>3. Sound(d) /\ Gains(c, d, off, T)
  BY <1>1, <1>2, TryAllocSound
<1>4. k = [clusters |-> ds, counts |-> ct] /\ NewBlock(g, i, T) = a
  BY DEF WithBlock, NewBlock
<1> HIDE DEF cs, k
<1> HIDE DEF c, d, off
<1>c. c = cs[i]
  BY DEF c
<1>5. /\ SoundClusters(ds) /\ Len(ds) = n /\ ds[i] = d
      /\ \A j \in 1 .. n : j # i => ds[j] = cs[j]
  BY <1>1, <1>2, <1>3, ClusterReplaced
<1> HIDE DEF ds
<1>6. /\ off \in Offsets /\ off \notin UsedOf(c)
      /\ UsedOf(d) = UsedOf(c) \cup {off}
      /\ d.hdr[off] = Block(T) /\ d.field[off] = Null
      /\ \A o \in UsedOf(c) : d.hdr[o] = c.hdr[o] /\ d.field[o] = c.field[o]
      /\ \A u \in Offsets : d.field[u] = Null \/ d.field[u] = c.field[u]
  BY <1>3 DEF Gains
<1>7. /\ a[1] = i /\ a[2] = off /\ a \in (1 .. n) \X Offsets
  BY <1>2, <1>6
<1>8. /\ \A b \in UsedIn(cs) : /\ b = <<b[1], b[2]>> /\ b[1] \in 1 .. n
                                /\ b[2] \in UsedOf(cs[b[1]])
                                /\ Hdr(cs, b) = cs[b[1]].hdr[b[2]]
      /\ \A j \in 1 .. n : \A o \in UsedOf(cs[j]) : <<j, o>> \in UsedIn(cs)
  BY <1>1, UsedInIff
<1>9. /\ \A b \in UsedIn(ds) : /\ b = <<b[1], b[2]>> /\ b[1] \in 1 .. n
                                /\ b[2] \in UsedOf(ds[b[1]])
                                /\ Hdr(ds, b) = ds[b[1]].hdr[b[2]]
      /\ \A j \in 1 .. n : \A o \in UsedOf(ds[j]) : <<j, o>> \in UsedIn(ds)
  BY <1>5, UsedInIff
<1>10. a \notin UsedIn(cs)
  BY <1>6, <1>7, <1>8, <1>c
<1>11. a \in UsedIn(ds) /\ Hdr(ds, a) = Block(T) /\ ds[a[1]].field[a[2]] = Null
  <2>1. <<i, off>> \in UsedIn(ds)
    BY <1>2, <1>5, <1>6, <1>9
  <2> QED
    BY <2>1, <1>5, <1>6, <1>7, <1>9
<1>12. ASSUME NEW b \in UsedIn(cs)
       PROVE  /\ b \in UsedIn(ds) /\ Hdr(ds, b) = Hdr(cs, b)
              /\ ds[b[1]].field[b[2]] = cs[b[1]].field[b[2]]
  <2>1. b = <<b[1], b[2]>> /\ b[1] \in 1 .. n /\ b[2] \in UsedOf(cs[b[1]])
        /\ Hdr(cs, b) = cs[b[1]].hdr[b[2]]
    BY <1>8
  <2>2. /\ b[2] \in UsedOf(ds[b[1]]) /\ ds[b[1]].hdr[b[2]] = cs[b[1]].hdr[b[2]]
        /\ ds[b[1]].field[b[2]] = cs[b[1]].field[b[2]]
    <3>1. CASE b[1] = i
      BY <3>1, <2>1, <1>5, <1>6, <1>c
    <3>2. CASE b[1] # i
      BY <3>2, <2>1, <1>5
    <3> QED
      BY <3>1, <3>2
  <2>3. <<b[1], b[2]>> \in UsedIn(ds)
    BY <2>1, <2>2, <1>9
  <2> QED
    BY <2>1, <2>2, <2>3, <1>9
<1>13. ASSUME NEW b \in UsedIn(ds), b # a
       PROVE  b \in UsedIn(cs)
  <2>1. b = <<b[1], b[2]>> /\ b[1] \in 1 .. n /\ b[2] \in UsedOf(ds[b[1]])
    BY <1>9
  <2>2. b[2] \in UsedOf(cs[b[1]])
    <3>1. CASE b[1] = i
      BY <3>1, <2>1, <1>5, <1>6, <1>13, <1>c
    <3>2. CASE b[1] # i
      BY <3>2, <2>1, <1>5
    <3> QED
      BY <3>1, <3>2
  <2>3. <<b[1], b[2]>> \in UsedIn(cs)
    BY <2>1, <2>2, <1>8
  <2> QED
    BY <2>1, <2>3
<1>14. UsedIn(ds) = UsedIn(cs) \cup {a}
  BY <1>11, <1>12, <1>13
<1>15. \A j \in 1 .. n : \A u \in Offsets :
         ds[j].field[u] = Null \/ ds[j].field[u] = cs[j].field[u]
  BY <1>5, <1>6, <1>c
<1>16. ASSUME NEW S \in Types
       PROVE  Cardinality(OfType(ds, S))
                = IF S = T THEN Cardinality(OfType(cs, S)) + 1 ELSE Cardinality(OfType(cs, S))
  <2>1. Hdr(ds, a).tag = T
    BY <1>11 DEF Block
  <2>2. CASE S = T
    <3>1. OfType(ds, S) = OfType(cs, S) \cup {a}
      BY <2>1, <2>2, <1>12, <1>14 DEF OfType
    <3>2. a \notin OfType(cs, S) /\ IsFiniteSet(OfType(cs, S))
      BY <1>1, <1>10, UsedInFinite DEF OfType
    <3> DEFINE X == OfType(cs, S)
    <3> HIDE DEF X, a
    <3>3. Cardinality(X \cup {a}) = Cardinality(X) + 1
      BY <3>2, FS_AddElement DEF X
    <3> QED
      BY <2>2, <3>1, <3>3 DEF X
  <2>3. CASE S # T
    <3>1. OfType(ds, S) = OfType(cs, S)
      BY <2>1, <2>3, <1>12, <1>14 DEF OfType
    <3> QED
      BY <2>3, <3>1
  <2> QED
    BY <2>2, <2>3
<1>17. ct \in [Types -> Nat] /\ \A S \in Types : ct[S] = Cardinality(OfType(ds, S))
  <2>1. /\ g.counts \in [Types -> Nat]
        /\ \A S \in Types : g.counts[S] = Cardinality(OfType(cs, S))
    BY <1>1 DEF CountsRight, cs
  <2> QED
    BY <2>1, <1>16
<1> HIDE DEF ct, a
<1>18. GoodHeap(k)
  <2>1. /\ k.clusters = ds /\ k.counts = ct
        /\ k \in [clusters : Seq(Cluster), counts : [Types -> Nat]]
    BY <1>4, <1>5, <1>17, HeapParts DEF SoundClusters
  <2> QED
    BY <2>1, <1>5, <1>17 DEF GoodHeap, CountsRight
<1>19. k.clusters = ds
  BY <1>4
<1> QED
  BY <1>2, <1>4, <1>5, <1>7, <1>10, <1>11, <1>12, <1>14, <1>15, <1>18, <1>19 DEF GainsBlock, cs, k, c, off

-----------------------------------------------------------------------------
(* Steps.                                                                  *)

LEMMA PointerParts ==
  ASSUME NEW n \in Nat
  PROVE  /\ \A a \in (1 .. n) \X Offsets : Payload(a) \in PointersTo(n)
         /\ \A p \in PointersTo(n) :
              /\ HeaderOf(p) \in (1 .. n) \X Offsets
              /\ HeaderOf(p)[1] \in 1 .. n /\ HeaderOf(p)[2] \in Offsets
              /\ p = <<p[1], p[2]>> /\ p = Payload(HeaderOf(p))
              /\ p[1] = HeaderOf(p)[1] /\ p[2] = HeaderOf(p)[2] + 1
         /\ n <= MaxClusters => PointersTo(n) \subseteq Pointers
         /\ \A m \in Nat : n <= m => PointersTo(n) \subseteq PointersTo(m)
<1>1. \A a \in (1 .. n) \X Offsets : Payload(a) \in PointersTo(n)
  BY DEF PointersTo
<1>2. ASSUME NEW p \in PointersTo(n)
      PROVE  /\ HeaderOf(p) \in (1 .. n) \X Offsets
             /\ HeaderOf(p)[1] \in 1 .. n /\ HeaderOf(p)[2] \in Offsets
             /\ p = <<p[1], p[2]>> /\ p = Payload(HeaderOf(p))
             /\ p[1] = HeaderOf(p)[1] /\ p[2] = HeaderOf(p)[2] + 1
  <2>1. PICK a \in (1 .. n) \X Offsets : p = Payload(a)
    BY DEF PointersTo
  <2>2. PICK i \in 1 .. n, u \in Offsets : a = <<i, u>>
    BY <2>1
  <2>3. p = <<i, u + 1>> /\ u \in Nat
    BY <2>1, <2>2 DEF Payload, Offsets
  <2>4. u + 1 - 1 = u
    BY <2>3
  <2>5. HeaderOf(p) = <<i, u>>
    BY <2>3, <2>4 DEF HeaderOf
  <2> QED
    BY <2>3, <2>5 DEF Payload
<1>3. n <= MaxClusters => PointersTo(n) \subseteq Pointers
  <2>1. n <= MaxClusters => (1 .. n) \X Offsets \subseteq Addresses
    BY HeapAssumption DEF Addresses, Offsets
  <2> QED
    BY <2>1 DEF PointersTo, Pointers
<1>4. \A m \in Nat : n <= m => PointersTo(n) \subseteq PointersTo(m)
  <2>1. \A m \in Nat : n <= m => (1 .. n) \X Offsets \subseteq (1 .. m) \X Offsets
    OBVIOUS
  <2> QED
    BY <2>1 DEF PointersTo
<1> QED
  BY <1>1, <1>2, <1>3, <1>4

LEMMA AfterFields ==
  ASSUME NEW h, NEW g, NEW L, GoodHeap(h), GoodHeap(g), After(h, g, L),
         FieldsInside(h.clusters, Len(h.clusters))
  PROVE  FieldsInside(g.clusters, Len(g.clusters))
<1>1. Len(h.clusters) \in Nat /\ Len(g.clusters) \in Nat
  BY UsedInIff DEF GoodHeap
<1>2. Len(h.clusters) <= Len(g.clusters)
  BY DEF After
<1>3. PointersTo(Len(h.clusters)) \subseteq PointersTo(Len(g.clusters))
  BY <1>1, <1>2, PointerParts
<1>4. ASSUME NEW i \in 1 .. Len(g.clusters), NEW u \in Offsets
      PROVE  g.clusters[i].field[u] \in {Null} \cup PointersTo(Len(g.clusters))
  <2>1. CASE i \in 1 .. Len(h.clusters)
    <3>1. g.clusters[i].field = h.clusters[i].field
      BY <2>1 DEF After
    <3>2. h.clusters[i].field[u] \in {Null} \cup PointersTo(Len(h.clusters))
      BY <2>1 DEF FieldsInside
    <3> QED
      BY <3>1, <3>2, <1>3
  <2>2. CASE i > Len(h.clusters)
    BY <2>2 DEF After
  <2> QED
    BY <2>1, <2>2, <1>1
<1> QED
  BY <1>4 DEF FieldsInside

(* The heap __newbcpl_new_rec allocates from: the threshold may have asked *)
(* for a collection already, and making room may ask for another.          *)
Rooms(T) == {WithRoom(Heap, T), WithRoom(Collected(Heap), T)}

LEMMA RoomsGood ==
  ASSUME GoodHeap(Heap), NEW T \in Types, NEW g \in Rooms(T)
  PROVE  /\ GoodHeap(g)
         /\ CanAllocIn(g.clusters, T) # {}
         /\ Min(CanAllocIn(g.clusters, T)) \in CanAllocIn(g.clusters, T)
         /\ \/ After(Heap, g, UsedIn(clusters))
            \/ After(Heap, g, Live(Heap))
            \/ After(Heap, g, Live(Heap) \cap Live(Collected(Heap)))
<1> DEFINE k == Collected(Heap)
<1>1. Heap.clusters = clusters
  BY DEF Heap
<1>2. GoodHeap(k) /\ After(Heap, k, Live(Heap))
  BY CollectedGood, AfterKept
<1>3. ASSUME GoodHeap(g), CanAllocIn(g.clusters, T) # {}
      PROVE  Min(CanAllocIn(g.clusters, T)) \in CanAllocIn(g.clusters, T)
  <2> DEFINE S == CanAllocIn(g.clusters, T)
  <2>1. S \in SUBSET Nat /\ S # {}
    BY <1>3, UsedInIff DEF GoodHeap, CanAllocIn
  <2> HIDE DEF S
  <2>2. Min(S) \in S
    BY <2>1, MinIsLeast
  <2> QED
    BY <2>2 DEF S
<1> DEFINE Made == \/ After(Heap, g, UsedIn(clusters))
                   \/ After(Heap, g, Live(Heap))
                   \/ After(Heap, g, Live(Heap) \cap Live(k))
<1>4. SUFFICES GoodHeap(g) /\ CanAllocIn(g.clusters, T) # {} /\ Made
  BY <1>3
<1>5. CASE g = WithRoom(Heap, T)
  BY <1>1, <1>5, RoomMade
<1>6. CASE g = WithRoom(k, T)
  <2> HIDE DEF k
  <2>1. GoodHeap(g) /\ CanAllocIn(g.clusters, T) # {}
    BY <1>2, <1>6, RoomMade
  <2>2. PICK M \in {UsedIn(k.clusters), Live(k)} : After(k, g, M)
    BY <1>2, <1>6, RoomMade
  <2>3. After(Heap, g, Live(Heap) \cap M)
    BY <1>2, <2>1, <2>2, AfterTwice
  <2>4. CASE M = UsedIn(k.clusters)
    <3>1. UsedIn(k.clusters) = UsedIn(Heap.clusters) \cap Live(Heap)
      BY <1>2 DEF After
    <3>2. After(Heap, g, Live(Heap))
      BY <2>3, <2>4, <3>1, AfterSubset
    <3> QED
      BY <2>1, <3>2
  <2>5. CASE M = Live(k)
    BY <2>1, <2>3, <2>5
  <2> QED
    BY <2>1, <2>2, <2>4, <2>5
<1> QED
  BY <1>5, <1>6 DEF Rooms

(* __newbcpl_new_rec, taken apart.                                         *)
LEMMA NewRecParts ==
  ASSUME GoodHeap(Heap), NEW s \in Stack, NEW T \in Types, NewRec(s, T),
         Unslivered'
  PROVE  \E g \in Rooms(T) : \E i \in CanAllocIn(g.clusters, T) :
           /\ GoodHeap(g) /\ Len(g.clusters) <= MaxClusters
           /\ ~LeavesSliver(g.clusters[i], T)
           /\ clusters' = WithBlock(g, i, T).clusters
           /\ block_count' = WithBlock(g, i, T).counts
           /\ slots' = [slots EXCEPT ![s] = Payload(NewBlock(g, i, T))]
<1>1. PICK g \in Rooms(T) :
        LET i == Min(CanAllocIn(g.clusters, T))
        IN /\ Len(g.clusters) <= MaxClusters
           /\ Becomes(WithBlock(g, i, T))
           /\ slots' = [slots EXCEPT ![s] = Payload(NewBlock(g, i, T))]
           /\ astray' = IF LeavesSliver(g.clusters[i], T)
                          THEN astray \cup {"sliver"} ELSE astray
  BY DEF NewRec, Rooms, WithBlock, NewBlock
<1>2. /\ GoodHeap(g)
      /\ Min(CanAllocIn(g.clusters, T)) \in CanAllocIn(g.clusters, T)
  BY RoomsGood
<1> QED
  BY <1>1, <1>2 DEF Becomes, Unslivered

LEMMA InvHolds ==
  HeapInv => /\ GoodHeap(Heap) /\ SoundClusters(clusters)
             /\ Len(clusters) \in Nat /\ DOMAIN clusters = 1 .. Len(clusters)
             /\ PointersTo(Len(clusters)) \subseteq Pointers
             /\ Heap.clusters = clusters /\ Heap.counts = block_count
             /\ Heap \in [clusters : Seq(Cluster), counts : [Types -> Nat]]
<1> SUFFICES ASSUME HeapInv PROVE
             /\ GoodHeap(Heap) /\ SoundClusters(clusters)
             /\ Len(clusters) \in Nat /\ DOMAIN clusters = 1 .. Len(clusters)
             /\ PointersTo(Len(clusters)) \subseteq Pointers
             /\ Heap.clusters = clusters /\ Heap.counts = block_count
             /\ Heap \in [clusters : Seq(Cluster), counts : [Types -> Nat]]
  OBVIOUS
<1>1. Heap.clusters = clusters /\ Heap.counts = block_count
  BY DEF Heap
<1>2. GoodHeap(Heap) /\ SoundClusters(clusters) /\ Len(clusters) <= MaxClusters
      /\ Heap \in [clusters : Seq(Cluster), counts : [Types -> Nat]]
  BY <1>1 DEF HeapInv, GoodHeap
<1>3. Len(clusters) \in Nat /\ DOMAIN clusters = 1 .. Len(clusters)
  BY <1>2, UsedInIff
<1> QED
  BY <1>1, <1>2, <1>3, PointerParts

LEMMA InitInv == Init => HeapInv
<1> SUFFICES ASSUME Init PROVE HeapInv
  OBVIOUS
<1>1. clusters = <<>> /\ clusters \in Seq(Cluster) /\ Len(clusters) = 0
  BY DEF Init
<1>2. \A T : OfType(clusters, T) = {}
  BY <1>1 DEF OfType, UsedIn
<1>3. /\ block_count = [T \in Types |-> 0] /\ slots = [s \in Slots |-> Null]
      /\ Heap = [clusters |-> clusters, counts |-> block_count]
  BY DEF Init, Heap
<1>4. block_count \in [Types -> Nat] /\ \A T \in Types : block_count[T] = 0
  BY <1>3
<1>5. Cardinality({}) = 0
  BY FS_EmptySet
<1>6. GoodHeap(Heap)
  <2>1. /\ Heap.clusters = clusters /\ Heap.counts = block_count
        /\ Heap \in [clusters : Seq(Cluster), counts : [Types -> Nat]]
    BY <1>1, <1>3, <1>4, HeapParts
  <2>2. SoundClusters(clusters)
    BY <1>1 DEF SoundClusters
  <2>3. CountsRight(Heap)
    BY <2>1, <1>2, <1>4, <1>5 DEF CountsRight
  <2> QED
    BY <2>1, <2>2, <2>3 DEF GoodHeap
<1>7. FieldsInside(clusters, Len(clusters)) /\ Len(clusters) <= MaxClusters
  BY <1>1, HeapAssumption DEF FieldsInside
<1>8. slots \in [Slots -> {Null} \cup PointersTo(Len(clusters))]
  BY <1>3
<1> QED
  BY <1>6, <1>7, <1>8 DEF HeapInv

LEMMA NewRecInv ==
  ASSUME HeapInv, NEW s \in Stack, NEW T \in Types, NewRec(s, T), Unslivered'
  PROVE  HeapInv'
<1>1. PICK g \in Rooms(T) : \E i \in CanAllocIn(g.clusters, T) :
         /\ GoodHeap(g) /\ Len(g.clusters) <= MaxClusters
         /\ ~LeavesSliver(g.clusters[i], T)
         /\ clusters' = WithBlock(g, i, T).clusters
         /\ block_count' = WithBlock(g, i, T).counts
         /\ slots' = [slots EXCEPT ![s] = Payload(NewBlock(g, i, T))]
  BY InvHolds, NewRecParts
<1>2. PICK i \in CanAllocIn(g.clusters, T) :
         /\ GoodHeap(g) /\ Len(g.clusters) <= MaxClusters
         /\ ~LeavesSliver(g.clusters[i], T)
         /\ clusters' = WithBlock(g, i, T).clusters
         /\ block_count' = WithBlock(g, i, T).counts
         /\ slots' = [slots EXCEPT ![s] = Payload(NewBlock(g, i, T))]
  BY <1>1
<1> DEFINE k == WithBlock(g, i, T)
           a == NewBlock(g, i, T)
           n == Len(g.clusters)
<1>3. \E L : After(Heap, g, L)
  BY InvHolds, RoomsGood
<1>4. /\ GoodHeap(k) /\ Len(k.clusters) = n
      /\ a \in (1 .. n) \X Offsets
      /\ \A j \in 1 .. n : \A u \in Offsets :
           k.clusters[j].field[u] = Null \/ k.clusters[j].field[u] = g.clusters[j].field[u]
  <2>1. GainsBlock(g, i, T)
    BY <1>2, Allocated
  <2> QED
    BY <2>1 DEF GainsBlock
<1>5. Heap' = k
  <2>1. k = [clusters |-> k.clusters, counts |-> k.counts]
    BY DEF WithBlock
  <2> QED
    BY <1>2, <2>1 DEF Heap
<1> HIDE DEF k, a
<1>6. FieldsInside(g.clusters, n)
  BY <1>2, <1>3, InvHolds, AfterFields DEF HeapInv
<1>7. FieldsInside(k.clusters, Len(k.clusters))
  BY <1>4, <1>6 DEF FieldsInside
<1>8. n \in Nat /\ Len(clusters) <= n
  BY <1>2, <1>3, InvHolds, UsedInIff DEF GoodHeap, After
<1>9. PointersTo(Len(clusters)) \subseteq PointersTo(n) /\ Payload(a) \in PointersTo(n)
  BY <1>4, <1>8, InvHolds, PointerParts
<1>10. slots' \in [Slots -> {Null} \cup PointersTo(n)]
  <2>1. slots \in [Slots -> {Null} \cup PointersTo(n)]
    BY <1>9 DEF HeapInv
  <2>2. slots' = [slots EXCEPT ![s] = Payload(a)]
    BY <1>2 DEF a
  <2> QED
    BY <2>1, <2>2, <1>9
<1>11. clusters' = k.clusters
  BY <1>2 DEF k
<1> QED
  BY <1>2, <1>4, <1>5, <1>7, <1>10, <1>11 DEF HeapInv

LEMMA CollectInv ==
  ASSUME HeapInv, Collect
  PROVE  HeapInv'
<1> DEFINE k == Collected(Heap)
<1>1. GoodHeap(k) /\ Keeps(Heap, k, Live(Heap)) /\ After(Heap, k, Live(Heap))
  BY InvHolds, CollectedGood, AfterKept
<1>2. clusters' = k.clusters /\ block_count' = k.counts /\ slots' = slots
  BY DEF Collect, Becomes
<1>3. k = [clusters |-> k.clusters, counts |-> k.counts]
  BY DEF Collected
<1> HIDE DEF k
<1>4. Heap' = k
  BY <1>2, <1>3 DEF Heap
<1>5. Len(k.clusters) = Len(clusters)
  BY <1>1, InvHolds DEF Keeps
<1>6. FieldsInside(k.clusters, Len(k.clusters))
  BY <1>1, InvHolds, AfterFields DEF HeapInv
<1> QED
  BY <1>1, <1>2, <1>4, <1>5, <1>6 DEF HeapInv

(* What a pointer to the start of a payload refers to.                     *)
LEMMA StartsParts ==
  ASSUME HeapInv, NEW p \in {Null} \cup PointersTo(Len(clusters)), Starts(p)
  PROVE  LET a == HeaderOf(p)
         IN /\ p \in PointersTo(Len(clusters)) /\ p = Payload(a)
            /\ a \in (1 .. Len(clusters)) \X Offsets
            /\ a[1] \in 1 .. Len(clusters) /\ a[2] \in Offsets
            /\ p = <<a[1], a[2] + 1>>
            /\ clusters[a[1]].hdr[a[2]].tag # 0
            /\ Hdr(clusters, a) = clusters[a[1]].hdr[a[2]]
            /\ Sound(clusters[a[1]]) /\ clusters[a[1]] \in Cluster
<1> DEFINE a == HeaderOf(p)
<1>1. p \in PointersTo(Len(clusters)) /\ Hdr(clusters, a).tag # 0
  BY DEF Starts
<1>2. /\ a \in (1 .. Len(clusters)) \X Offsets
      /\ a[1] \in 1 .. Len(clusters) /\ a[2] \in Offsets
      /\ p = Payload(a) /\ p = <<p[1], p[2]>>
      /\ p[1] = a[1] /\ p[2] = a[2] + 1
  BY <1>1, InvHolds, PointerParts
<1> HIDE DEF a
<1>3. Sound(clusters[a[1]]) /\ clusters[a[1]] \in Cluster
  BY <1>2, InvHolds, UsedInIff
<1> QED
  BY <1>1, <1>2, <1>3 DEF a, Hdr

LEMMA SetFieldInv ==
  ASSUME HeapInv, NEW s \in Slots, NEW v \in {Null} \cup PointersTo(Len(clusters)),
         SetField(s, v)
  PROVE  HeapInv'
<1> DEFINE n == Len(clusters)
           p == slots[s]
           a == HeaderOf(p)
           c == clusters[a[1]]
           d == [c EXCEPT !.field[a[2]] = v]
           ds == [clusters EXCEPT ![a[1]] = d]
<1>1. p \in {Null} \cup PointersTo(n) /\ Starts(p)
  BY DEF SetField, HeapInv
<1>2. /\ a[1] \in 1 .. n /\ a[2] \in Offsets /\ c.hdr[a[2]].tag # 0
      /\ Sound(c) /\ c \in Cluster
  BY <1>1, StartsParts
<1>3. clusters' = ds /\ block_count' = block_count /\ slots' = slots
  BY DEF SetField
<1> HIDE DEF p, a
<1>c. c = clusters[a[1]]
  OBVIOUS
<1>4. /\ d \in Cluster
      /\ d.bump = c.bump /\ d.free = c.free /\ d.starts = c.starts /\ d.hdr = c.hdr
      /\ d.field[a[2]] = v
      /\ \A u \in Offsets : u # a[2] => d.field[u] = c.field[u]
  <2>1. v \in {Null} \cup Pointers
    BY InvHolds
  <2>2. c.field \in [Offsets -> {Null} \cup Pointers]
    BY <1>2, ClusterParts
  <2> DEFINE f == [c.field EXCEPT ![a[2]] = v]
  <2>3. f \in [Offsets -> {Null} \cup Pointers]
    BY <1>2, <2>1, <2>2
  <2>4. f[a[2]] = v /\ \A u \in Offsets : u # a[2] => f[u] = c.field[u]
    BY <1>2, <2>2
  <2>5. d = [c EXCEPT !.field = f]
    BY <1>2 DEF Cluster
  <2> HIDE DEF f, c, d
  <2> QED
    BY <1>2, <2>3, <2>4, <2>5 DEF Cluster
<1> HIDE DEF d
<1>5. Sound(d) /\ UsedOf(d) = UsedOf(c)
  <2> HIDE DEF c
  <2>1. \A o : EndOf(d, o) = EndOf(c, o)
    BY <1>4 DEF EndOf
  <2>2. UsedOf(d) = UsedOf(c) /\ FreeOf(d) = FreeOf(c)
    BY <1>4 DEF UsedOf, FreeOf
  <2>3. Tiled(d) /\ Listed(d) /\ Within(d) /\ Solid(d) /\ Unblemished(d)
    BY <1>2, <1>4, <2>1, <2>2
       DEF Sound, Shape, Tiled, Listed, Within, Solid, Unblemished
  <2>4. Fresh(d)
    BY <1>2, <1>4 DEF Sound, Shape, Fresh
  <2> QED
    BY <1>4, <2>2, <2>3, <2>4 DEF Sound, Shape
<1>6. /\ SoundClusters(ds) /\ Len(ds) = n
      /\ ds[a[1]] = d
      /\ \A j \in 1 .. n : j # a[1] => ds[j] = clusters[j]
  BY <1>2, <1>5, InvHolds, ClusterReplaced
<1> HIDE DEF c, ds
<1>7. \A j \in 1 .. n : UsedOf(ds[j]) = UsedOf(clusters[j]) /\ ds[j].hdr = clusters[j].hdr
  BY <1>4, <1>5, <1>6, <1>c
<1>8. UsedIn(ds) = UsedIn(clusters)
  <2>1. DOMAIN ds = 1 .. n /\ DOMAIN clusters = 1 .. n
    BY <1>6, InvHolds, UsedInIff
  <2> QED
    BY <1>7, <2>1 DEF UsedIn
<1>9. \A T : OfType(ds, T) = OfType(clusters, T)
  <2>1. \A b \in UsedIn(clusters) : b[1] \in 1 .. n
    BY InvHolds, UsedInIff
  <2>2. \A b \in UsedIn(clusters) : Hdr(ds, b) = Hdr(clusters, b)
    BY <2>1, <1>7 DEF Hdr
  <2> QED
    BY <2>2, <1>8 DEF OfType
<1>10. GoodHeap(Heap')
  <2>1. /\ Heap'.clusters = ds /\ Heap'.counts = block_count
        /\ block_count \in [Types -> Nat]
        /\ Heap' = [clusters |-> ds, counts |-> block_count]
    BY <1>3, InvHolds DEF Heap, GoodHeap, CountsRight
  <2>2. Heap' \in [clusters : Seq(Cluster), counts : [Types -> Nat]]
    BY <1>6, <2>1, HeapParts DEF SoundClusters
  <2>3. \A T \in Types : block_count[T] = Cardinality(OfType(ds, T))
    BY <1>9, InvHolds DEF GoodHeap, CountsRight
  <2> QED
    BY <1>6, <2>1, <2>2, <2>3 DEF GoodHeap, CountsRight
<1>11. FieldsInside(ds, n)
  BY <1>2, <1>4, <1>6, <1>c DEF FieldsInside, HeapInv
<1> QED
  BY <1>3, <1>6, <1>10, <1>11 DEF HeapInv

(* The steps that change a slot only.                                      *)
LEMMA SlotInv ==
  ASSUME HeapInv, UNCHANGED <<clusters, block_count>>,
         slots' \in [Slots -> {Null} \cup PointersTo(Len(clusters))]
  PROVE  HeapInv'
BY DEF HeapInv, Heap

LEMMA AdvanceInv ==
  ASSUME HeapInv, NEW s \in Stack, Advance(s)
  PROVE  HeapInv'
<1> DEFINE n == Len(clusters)
           p == slots[s]
           a == HeaderOf(p)
           size == clusters[a[1]].hdr[a[2]].size
           q == <<p[1], p[2] + Hdr(clusters, a).size - 2>>
<1>1. s \in Slots /\ slots \in [Slots -> {Null} \cup PointersTo(n)]
  BY DEF Slots, HeapInv
<1>2. p \in {Null} \cup PointersTo(n) /\ Starts(p)
  BY <1>1 DEF Advance
<1>3. slots' = [slots EXCEPT ![s] = q]
  BY <1>1 DEF Advance
<1> HIDE DEF p, a
<1>4. /\ p = <<a[1], a[2] + 1>>
      /\ a[1] \in 1 .. n /\ a[2] \in Offsets
      /\ clusters[a[1]].hdr[a[2]].tag # 0
      /\ Hdr(clusters, a).size = size
      /\ Sound(clusters[a[1]]) /\ clusters[a[1]] \in Cluster
  BY <1>2, StartsParts DEF a
<1>5. Units \in Nat /\ a[2] \in Nat /\ size \in Nat /\ size >= 2 /\ a[2] + size <= Units
  BY <1>4, ClusterParts DEF Sound, Shape, Within, EndOf, MinBlock
<1>6. q = <<a[1], a[2] + 1 + size - 2>>
  BY <1>4
<1> HIDE DEF size, q
<1> DEFINE u == a[2] + size - 2
<1>7. u \in Offsets /\ a[2] + 1 + size - 2 = u + 1
  BY <1>5 DEF Offsets
<1>8. q = Payload(<<a[1], u>>) /\ <<a[1], u>> \in (1 .. n) \X Offsets
  BY <1>4, <1>6, <1>7 DEF Payload
<1>9. q \in PointersTo(n)
  BY <1>8, InvHolds, PointerParts
<1>10. slots' \in [Slots -> {Null} \cup PointersTo(n)]
  BY <1>1, <1>3, <1>9
<1> QED
  BY <1>10, SlotInv DEF Advance

LEMMA NextInv ==
  ASSUME HeapInv, [Next]_vars, Unslivered'
  PROVE  HeapInv'
<1> DEFINE P == {Null} \cup PointersTo(Len(clusters))
<1>0. slots \in [Slots -> P] /\ Stack \subseteq Slots
  BY DEF HeapInv, Slots
<1>1. ASSUME NEW s \in Stack, NEW T \in Types, NewRec(s, T)
      PROVE  HeapInv'
  BY <1>1, NewRecInv
<1>2. ASSUME NEW s \in Slots, NEW r \in Slots, SetField(s, slots[r])
      PROVE  HeapInv'
  BY <1>0, <1>2, SetFieldInv
<1>3. ASSUME NEW s \in Slots, SetField(s, Null)
      PROVE  HeapInv'
  BY <1>3, SetFieldInv
<1>4. ASSUME NEW s \in Stack, NEW r \in Slots, LoadField(s, r)
      PROVE  HeapInv'
  <2> DEFINE a == HeaderOf(slots[r])
             v == clusters[a[1]].field[a[2]]
  <2>1. slots[r] \in P /\ Starts(slots[r])
    BY <1>0, <1>4 DEF LoadField
  <2>2. a[1] \in 1 .. Len(clusters) /\ a[2] \in Offsets
    BY <2>1, StartsParts
  <2> HIDE DEF a
  <2>3. v \in P
    BY <2>2 DEF HeapInv, FieldsInside
  <2>4. slots' \in [Slots -> P]
    BY <1>0, <1>4, <2>3 DEF LoadField, a
  <2> QED
    BY <1>4, <2>4, SlotInv DEF LoadField
<1>5. ASSUME NEW s \in Slots, NEW r \in Slots, Copy(s, r)
      PROVE  HeapInv'
  <2>1. slots' \in [Slots -> P]
    BY <1>0, <1>5 DEF Copy
  <2> QED
    BY <1>5, <2>1, SlotInv DEF Copy
<1>6. ASSUME NEW s \in Slots, Forget(s)
      PROVE  HeapInv'
  <2>1. slots' \in [Slots -> P]
    BY <1>0, <1>6 DEF Forget
  <2> QED
    BY <1>6, <2>1, SlotInv DEF Forget
<1>7. ASSUME NEW s \in Stack, Advance(s)
      PROVE  HeapInv'
  BY <1>7, AdvanceInv
<1>8. CASE Collect
  BY <1>8, CollectInv
<1>9. CASE UNCHANGED vars
  BY <1>0, <1>9, SlotInv DEF vars
<1> QED
  BY <1>1, <1>2, <1>3, <1>4, <1>5, <1>6, <1>7, <1>8, <1>9 DEF Next

-----------------------------------------------------------------------------
(* What follows for the program.                                           *)

(* What has gone astray stays so.                                          *)
LEMMA AstrayGrows ==
  ASSUME [Next]_vars
  PROVE  astray \subseteq astray'
BY DEF Next, vars, NewRec, SetField, LoadField, Copy, Forget, Advance, Collect

(* What has gone astray is one of the two things that can.                 *)
LEMMA AstrayTyped ==
  Spec => [](astray \subseteq {"sliver", "unlisted"})
<1>1. Init => astray \subseteq {"sliver", "unlisted"}
  BY DEF Init
<1>2. ASSUME astray \subseteq {"sliver", "unlisted"}, [Next]_vars
      PROVE  (astray \subseteq {"sliver", "unlisted"})'
  BY <1>2 DEF Next, vars, NewRec, SetField, LoadField, Copy, Forget, Advance, Collect
<1> QED
  BY <1>1, <1>2, PTL DEF Spec

(* The inductive invariant: sound until an allocation leaves a sliver.     *)
LEMMA HeapInvAlways ==
  Spec => [](Unslivered => HeapInv)
<1>1. Init => (Unslivered => HeapInv)
  BY InitInv
<1>2. ASSUME Unslivered => HeapInv, [Next]_vars
      PROVE  (Unslivered => HeapInv)'
  <2> SUFFICES ASSUME Unslivered' PROVE HeapInv'
    OBVIOUS
  <2>1. Unslivered
    BY <1>2, AstrayGrows DEF Unslivered
  <2> QED
    BY <1>2, <2>1, NextInv
<1> QED
  BY <1>1, <1>2, PTL DEF Spec

(* Every header, field and slot of the heap stays in its range, whatever   *)
(* splits, sweeps and stores do (Cluster and BlockHeader in gc.rs), until  *)
(* an allocation leaves a sliver.                                          *)
THEOREM HeapTypesHold ==
  Spec => [](Unslivered => TypeOK)
<1>1. HeapInv /\ astray \subseteq {"sliver", "unlisted"} => TypeOK
  <2> SUFFICES ASSUME HeapInv, astray \subseteq {"sliver", "unlisted"} PROVE TypeOK
    OBVIOUS
  <2>1. \A i \in DOMAIN clusters : clusters[i] \in Cluster
    BY InvHolds, UsedInIff
  <2>2. block_count \in [Types -> Nat]
    BY InvHolds DEF GoodHeap, CountsRight
  <2>3. slots \in [Slots -> {Null} \cup Pointers]
    BY InvHolds DEF HeapInv
  <2> QED
    BY <2>1, <2>2, <2>3 DEF TypeOK, Cluster, Offsets, Header
<1> QED
  BY <1>1, HeapInvAlways, AstrayTyped, PTL

(* The sweep's linear walk meets every block of a cluster and ends at the  *)
(* bump pointer, and the bitmap names the same blocks (cluster_sweep,      *)
(* Cluster::resolve), until an allocation leaves a sliver.                 *)
THEOREM HeapIsTiled ==
  Spec => []HeapWalks
<1>1. HeapInv => Walkable
  <2> SUFFICES ASSUME HeapInv, NEW i \in DOMAIN clusters
               PROVE  /\ WalkEnd(clusters[i]) = clusters[i].bump
                      /\ clusters[i].starts = Walk(clusters[i])
    BY DEF Walkable
  <2>1. clusters[i] \in Cluster /\ Tiled(clusters[i])
    BY InvHolds, UsedInIff DEF Sound, Shape
  <2> QED
    BY <2>1, WalkOfTiled, WalkEndOfTiled
<1>2. (Unslivered => HeapInv) => HeapWalks
  BY <1>1 DEF HeapWalks
<1> QED
  BY <1>2, HeapInvAlways, PTL

(* Free lists, mark bits and block counts agree with the headers between   *)
(* any two steps of the program (cluster_sweep, TypeDescRegistry), until   *)
(* an allocation leaves a sliver.                                          *)
THEOREM BooksAreExact ==
  Spec => []BooksExact
<1>1. ASSUME HeapInv, NEW i \in DOMAIN clusters
      PROVE  /\ clusters[i] \in Cluster /\ Sound(clusters[i])
             /\ Walk(clusters[i]) = clusters[i].starts
             /\ InUse(clusters[i]) = UsedOf(clusters[i])
             /\ Walk(clusters[i]) \ InUse(clusters[i]) = FreeOf(clusters[i])
  <2>1. clusters[i] \in Cluster /\ Tiled(clusters[i]) /\ Sound(clusters[i])
    BY <1>1, InvHolds, UsedInIff DEF Sound, Shape
  <2>2. Walk(clusters[i]) = clusters[i].starts
    BY <2>1, WalkOfTiled
  <2> QED
    BY <2>1, <2>2 DEF InUse, UsedOf, FreeOf
<1>2. HeapInv => FreeListExact
  <2> SUFFICES ASSUME HeapInv, NEW i \in DOMAIN clusters
               PROVE  LET c    == clusters[i]
                          free == Walk(c) \ InUse(c)
                      IN /\ ToSet(c.free) = free
                         /\ Len(c.free) = Cardinality(free)
                         /\ \A o \in free : o + c.hdr[o].size \notin free
    BY DEF FreeListExact
  <2> DEFINE c == clusters[i]
             free == Walk(c) \ InUse(c)
             f == c.free
  <2>1. /\ free = FreeOf(c) /\ ToSet(f) = FreeOf(c) /\ Once(f)
        /\ \A o \in FreeOf(c) : EndOf(c, o) \notin FreeOf(c)
        /\ f \in Seq(Offsets)
    BY <1>1, ClusterParts DEF Sound, Shape, Listed
  <2> HIDE DEF free, f, c
  <2>2. Cardinality(ToSet(f)) = Len(f)
    BY <2>1, Counted
  <2>3. /\ ToSet(f) = free /\ Len(f) = Cardinality(free)
        /\ \A o \in free : o + c.hdr[o].size \notin free
    BY <2>1, <2>2 DEF EndOf
  <2> QED
    BY <2>3 DEF f, c, free
<1>3. HeapInv => NoMarkLeft
  BY <1>1 DEF NoMarkLeft, Sound, Unblemished, UsedOf
<1>4. HeapInv => CountsMatch
  <2> SUFFICES ASSUME HeapInv PROVE CountsMatch
    OBVIOUS
  <2>1. Used = UsedIn(clusters)
    BY DEF Used, UsedIn, UsedOf
  <2>2. \A T \in Types : block_count[T] = Cardinality(OfType(clusters, T))
    BY InvHolds DEF GoodHeap, CountsRight
  <2> QED
    BY <2>1, <2>2 DEF CountsMatch, OfType
<1>5. (Unslivered => HeapInv) => BooksExact
  BY <1>2, <1>3, <1>4 DEF BooksExact
<1> QED
  BY <1>5, HeapInvAlways, PTL

(* The stack scan resolves a word to the block whose payload it points     *)
(* into and to no other (Cluster::resolve), until an allocation leaves a   *)
(* sliver.                                                                 *)
THEOREM ResolveIsExact ==
  Spec => []ResolveExact
<1>1. HeapInv => Resolves
  <2> SUFFICES ASSUME HeapInv, NEW i \in DOMAIN clusters, NEW u \in 0 .. Units - 1
               PROVE  LET c == clusters[i]
                      IN Resolve(c, u) =
                           {o \in InUse(c) : u \in o + 1 .. o + c.hdr[o].size - 1}
    BY DEF Resolves
  <2> DEFINE c == clusters[i]
  <2>1. c \in Cluster /\ Shape(c) /\ Tiled(c) /\ u \in Offsets
    BY InvHolds, UsedInIff DEF Sound, Shape, Offsets
  <2> HIDE DEF c
  <2>2. InUse(c) = UsedOf(c)
    BY <2>1, WalkOfTiled DEF InUse, UsedOf
  <2>3. Resolve(c, u) = {o \in InUse(c) : u \in o + 1 .. o + c.hdr[o].size - 1}
    BY <2>1, <2>2, ResolveFinds
  <2> QED
    BY <2>3 DEF c
<1>2. (Unslivered => HeapInv) => ResolveExact
  BY <1>1 DEF ResolveExact
<1> QED
  BY <1>2, HeapInvAlways, PTL

=============================================================================
