------------------------- MODULE UsingCleanupProofs -------------------------
(***************************************************************************)
(* Machine-checked facts about UsingCleanup, for any names, any number of  *)
(* objects and any depth: the types, that the object of every USING that   *)
(* control has left was released once, and that nested ones are released   *)
(* innermost first.                                                        *)
(*                                                                         *)
(* A transfer of control goes back to the context of a statement further   *)
(* out, and calls what the lowering noted there and here.  The inductive   *)
(* invariant says how the contexts of the open statements are related: the *)
(* path from the outermost to the innermost, with the point control is at  *)
(* behind it.                                                              *)
(***************************************************************************)
EXTENDS UsingCleanup, SequenceFacts

(* The statements n and behind them the point with scopes s and cleanups u.*)
PathTo(n, s, u) ==
  Append(n, [kind |-> "here", at |-> Len(u), scopes |-> s])

Path == PathTo(nest, scopes, using_cleanups)

BlocksBefore(p, k) == {i \in 1 .. k - 1 : p[i].kind = "block"}

(* Scopes t are scopes s after more has been declared or opened.           *)
Grown(t, s) ==
  /\ Len(s) <= Len(t)
  /\ \A l \in 1 .. Len(s), n \in Names : s[l][n] # 0 => t[l][n] # 0

(* s and t have the same objects under the names of the first a cleanups.  *)
SameFor(t, s, u, a) ==
  \A l \in 1 .. Len(s), j \in 1 .. a : t[l][u[j].name] = s[l][u[j].name]

(* A name is found in s.                                                   *)
Has(s, n) == \E l \in 1 .. Len(s) : s[l][n] # 0

(* A name is found in s, and with object x.                                *)
Holds(s, n, x) ==
  \E l \in 1 .. Len(s) :
    /\ s[l][n] = x /\ x # 0
    /\ \A h \in 1 .. Len(s) : h > l => s[h][n] = 0

-----------------------------------------------------------------------------
(* What is true of every path p with cleanups u.                           *)

Typed(p, u) ==
  /\ Len(p) \in Nat /\ Len(p) >= 1 /\ Len(u) \in Nat
  /\ \A k \in 1 .. Len(p) : p[k].at \in 0 .. Len(u) /\ p[k].scopes \in Scopes
  /\ \A j \in 1 .. Len(u) : u[j] \in Cleanups
  /\ p[Len(p)].at = Len(u)

(* There is one scope for the routine and one for every block.             *)
Scoped(p) ==
  \A k \in 1 .. Len(p) :
    Len(p[k].scopes) = 1 + Cardinality(BlocksBefore(p, k))

(* Cleanups are counted as the USINGs on the way, and no others.           *)
Counting(p) ==
  /\ p[1].at = 0
  /\ \A k \in 1 .. Len(p) : p[k].at <= k - 1
  /\ \A k \in 1 .. Len(p) - 1 : IsUsing(p[k]) => p[k + 1].at = p[k].at + 1
  /\ \A i, k \in 1 .. Len(p) : i <= k =>
       /\ p[i].at <= p[k].at
       /\ (\A j \in i .. k - 1 : ~IsUsing(p[j])) => p[i].at = p[k].at

(* What is declared at a point is declared further in.                     *)
Growing(p) ==
  \A i, k \in 1 .. Len(p) : i <= k => Grown(p[k].scopes, p[i].scopes)

(* The names of the cleanups of a point are declared there.                *)
Found(p, u) ==
  \A k \in 1 .. Len(p) : \A j \in 1 .. p[k].at : Has(p[k].scopes, u[j].name)

Good(p, u) ==
  Typed(p, u) /\ Scoped(p) /\ Counting(p) /\ Growing(p) /\ Found(p, u)

(* Nothing further in changes what the names of a point's cleanups mean    *)
(* in the point's scopes.                                                  *)
Agreeing(p, u) ==
  \A i, k \in 1 .. Len(p) :
    i <= k => SameFor(p[k].scopes, p[i].scopes, u, p[i].at)

(* At every point the names of its cleanups mean their objects.            *)
Resolved(p, u) ==
  \A k \in 1 .. Len(p) : \A j \in 1 .. p[k].at :
    Holds(p[k].scopes, u[j].name, u[j].object)

Named(p, u) == Agreeing(p, u) /\ Resolved(p, u)

(* The objects of the open USINGs are owned, and younger further in.       *)
Younger(u) ==
  \A i, j \in 1 .. Len(u) : i < j => u[i].object < u[j].object

Owning == Held \subseteq owned

(* Contexts: the statements n, and the point behind them with scopes s and *)
(* cleanups u.                                                             *)

Context(n, s, u) ==
  /\ n \in Seq(Statements) /\ s \in Scopes /\ u \in Seq(Cleanups)
  /\ Good(PathTo(n, s, u), u)

Meaning(n, s, u) == Named(PathTo(n, s, u), u)

-----------------------------------------------------------------------------
(* The inductive invariant, and what it says of the calls made so far.     *)

PathInv == TypeOK /\ Context(nest, scopes, using_cleanups)

NameInv ==
  /\ Meaning(nest, scopes, using_cleanups)
  /\ Younger(using_cleanups) /\ Owning

IInv == PathInv /\ (~shadowed => NameInv)

(* Every step keeps what the history says.                                 *)
Notes ==
  /\ shadowed' \in BOOLEAN /\ (shadowed => shadowed')
  /\ skipped' \subseteq Objects

(* The objects that are to be released, those of the open USINGs included. *)
Live == owned \ skipped

ReleaseInv ==
  /\ ToSet(released) = Live \ Held
  /\ Once(released)
  /\ Held \subseteq Live /\ skipped \subseteq owned

-----------------------------------------------------------------------------
(* Scopes.                                                                 *)

LEMMA ScopeParts ==
  ASSUME NEW s \in Scopes
  PROVE  /\ Len(s) \in Nat /\ DOMAIN s = 1 .. Len(s)
         /\ \A l \in 1 .. Len(s) : s[l] \in [Names -> {0} \cup Objects]
  BY ElementsOf DEF Scopes

LEMMA GrownOn ==
  ASSUME NEW r \in Scopes, NEW s \in Scopes, NEW t \in Scopes,
         Grown(t, s), Grown(s, r)
  PROVE  Grown(t, r)
<1>1. Len(r) \in Nat /\ Len(s) \in Nat /\ Len(t) \in Nat
  BY ScopeParts
<1> QED
  BY <1>1 DEF Grown

LEMMA SameOn ==
  ASSUME NEW r \in Scopes, NEW s \in Scopes, NEW t, NEW u,
         NEW a \in Nat, NEW b \in Nat, b <= a, Len(r) <= Len(s),
         SameFor(t, s, u, a), SameFor(s, r, u, b)
  PROVE  SameFor(t, r, u, b)
<1>1. Len(r) \in Nat /\ Len(s) \in Nat
  BY ScopeParts
<1> QED
  BY <1>1 DEF SameFor

(* Looking a name up finds the object it means.                            *)
LEMMA LookupIs ==
  ASSUME scopes \in Scopes, NEW n \in Names
  PROVE  /\ Has(scopes, n) => Lookup(n) \in Objects
         /\ \A x : Holds(scopes, n, x) => Lookup(n) = x
<1> DEFINE D == Declaring(n)
<1>1. Len(scopes) \in Nat /\ DOMAIN scopes = 1 .. Len(scopes)
  BY ScopeParts
<1>2. D = {i \in 1 .. Len(scopes) : scopes[i][n] # 0}
  BY <1>1 DEF Declaring
<1>3. D \in SUBSET Nat /\ \A i \in D : i <= Len(scopes)
  BY <1>1, <1>2
<1>4. Lookup(n) = scopes[Max(D)][n]
  BY DEF Lookup
<1>5. ASSUME D # {}
      PROVE  Max(D) \in D /\ \A i \in D : i <= Max(D)
  <2> HIDE DEF D
  <2> DEFINE b == Len(scopes)
  <2>1. b \in Nat /\ \A i \in D : i <= b
    BY <1>1, <1>3
  <2> HIDE DEF b
  <2> QED
    BY <1>3, <1>5, <2>1, MaxIsGreatest
<1> HIDE DEF D
<1>6. ASSUME Has(scopes, n)
      PROVE  Lookup(n) \in Objects
  <2>1. D # {}
    BY <1>2, <1>6 DEF Has
  <2>2. Max(D) \in 1 .. Len(scopes) /\ scopes[Max(D)][n] # 0
    BY <1>2, <1>5, <2>1
  <2>3. scopes[Max(D)][n] \in {0} \cup Objects
    BY <2>2, ScopeParts
  <2> QED
    BY <1>4, <2>2, <2>3
<1>7. ASSUME NEW x, Holds(scopes, n, x)
      PROVE  Lookup(n) = x
  <2>1. PICK l \in 1 .. Len(scopes) :
          /\ scopes[l][n] = x /\ x # 0
          /\ \A h \in 1 .. Len(scopes) : h > l => scopes[h][n] = 0
    BY <1>7 DEF Holds
  <2>2. l \in D
    BY <1>2, <2>1
  <2>3. Max(D) \in D /\ l <= Max(D)
    BY <1>5, <2>2
  <2>4. Max(D) \in 1 .. Len(scopes) /\ scopes[Max(D)][n] # 0
    BY <1>2, <2>3
  <2>5. Max(D) = l
    BY <2>1, <2>3, <2>4
  <2> QED
    BY <1>4, <2>1, <2>5
<1> QED
  BY <1>6, <1>7

-----------------------------------------------------------------------------
(* Going back: q is p up to its m-th point, where the scopes are now s.    *)

Back(p, u, q, v, m, s) ==
  /\ m \in 1 .. Len(p)
  /\ Len(q) = m
  /\ \A k \in 1 .. m - 1 : q[k] = p[k]
  /\ q[m].at = p[m].at /\ q[m].scopes = s
  /\ s \in Scopes /\ Len(s) = Len(p[m].scopes) /\ Grown(s, p[m].scopes)
  /\ Len(v) = p[m].at
  /\ \A j \in 1 .. Len(v) : v[j] = u[j]

LEMMA BackTyped ==
  ASSUME NEW p, NEW u, NEW q, NEW v, NEW m, NEW s, Good(p, u), Back(p, u, q, v, m, s)
  PROVE  Typed(q, v) /\ Scoped(q) /\ Counting(q)
<1>1. /\ Len(p) \in Nat /\ Len(u) \in Nat /\ m \in 1 .. Len(p) /\ Len(q) = m
      /\ \A k \in 1 .. m - 1 : q[k] = p[k]
      /\ \A k \in 1 .. m : k < m \/ k = m
      /\ q[m].at = p[m].at /\ q[m].scopes = s /\ s \in Scopes
      /\ \A k \in 1 .. Len(p) : p[k].at \in 0 .. Len(u) /\ p[k].scopes \in Scopes
      /\ \A i, k \in 1 .. Len(p) : i <= k => p[i].at <= p[k].at
  BY DEF Good, Typed, Counting, Back
<1>2. \A k \in 1 .. m : q[k].at = p[k].at /\ Len(q[k].scopes) = Len(p[k].scopes)
  BY <1>1 DEF Back
<1>3. Typed(q, v)
  <2>1. Len(v) = p[m].at /\ p[m].at \in Nat /\ p[m].at <= Len(u)
    BY <1>1 DEF Back
  <2>2. \A k \in 1 .. m : q[k].at \in 0 .. Len(v) /\ q[k].scopes \in Scopes
    <3> TAKE k \in 1 .. m
    <3>1. q[k].at = p[k].at /\ p[k].at \in 0 .. Len(u) /\ p[k].at <= p[m].at
      BY <1>1, <1>2
    <3>2. q[k].scopes \in Scopes
      BY <1>1
    <3> QED
      BY <2>1, <3>1, <3>2
  <2>3. \A j \in 1 .. Len(v) : v[j] \in Cleanups
    BY <2>1, <1>1 DEF Back, Good, Typed
  <2> QED
    BY <1>1, <2>1, <2>2, <2>3 DEF Typed
<1>4. Scoped(q)
  <2> SUFFICES ASSUME NEW k \in 1 .. m
               PROVE  Len(q[k].scopes) = 1 + Cardinality(BlocksBefore(q, k))
    BY <1>1 DEF Scoped
  <2>1. BlocksBefore(q, k) = BlocksBefore(p, k)
    <3>1. \A i \in 1 .. k - 1 : q[i] = p[i]
      BY <1>1
    <3> QED
      BY <3>1 DEF BlocksBefore
  <2>2. k \in 1 .. Len(p)
    BY <1>1
  <2>3. Len(p[k].scopes) = 1 + Cardinality(BlocksBefore(p, k))
    BY <2>2 DEF Good, Scoped
  <2> QED
    BY <2>1, <2>3, <1>2
<1>5. Counting(q)
  <2>1. q[1].at = 0
    BY <1>1, <1>2 DEF Good, Counting
  <2>2. \A k \in 1 .. m : q[k].at <= k - 1
    BY <1>1, <1>2 DEF Good, Counting
  <2>3. \A k \in 1 .. m - 1 : IsUsing(q[k]) => q[k + 1].at = q[k].at + 1
    <3> TAKE k \in 1 .. m - 1
    <3>1. q[k] = p[k] /\ k + 1 \in 1 .. m /\ k \in 1 .. Len(p) - 1
      BY <1>1
    <3>2. IsUsing(p[k]) => p[k + 1].at = p[k].at + 1
      BY <3>1 DEF Good, Counting
    <3> QED
      BY <3>1, <3>2, <1>2
  <2>4. ASSUME NEW i \in 1 .. m, NEW k \in 1 .. m, i <= k
        PROVE  /\ q[i].at <= q[k].at
               /\ (\A j \in i .. k - 1 : ~IsUsing(q[j])) => q[i].at = q[k].at
    <3>1. \A j \in i .. k - 1 : q[j] = p[j]
      BY <1>1
    <3>2. i \in 1 .. Len(p) /\ k \in 1 .. Len(p)
      BY <1>1
    <3>3. /\ p[i].at <= p[k].at
          /\ (\A j \in i .. k - 1 : ~IsUsing(p[j])) => p[i].at = p[k].at
      BY <2>4, <3>2 DEF Good, Counting
    <3> QED
      BY <3>1, <3>3, <1>2
  <2> QED
    BY <1>1, <2>1, <2>2, <2>3, <2>4 DEF Counting
<1> QED
  BY <1>3, <1>4, <1>5

(* Going back leaves a good path.                                          *)
LEMMA BackGood ==
  ASSUME NEW p, NEW u, NEW q, NEW v, NEW m, NEW s, Good(p, u), Back(p, u, q, v, m, s)
  PROVE  Good(q, v)
<1>1. Typed(q, v) /\ Scoped(q) /\ Counting(q)
  BY BackTyped
<1>2. /\ Len(p) \in Nat /\ m \in 1 .. Len(p) /\ Len(q) = m
      /\ \A k \in 1 .. m - 1 : q[k] = p[k]
      /\ q[m].scopes = s /\ s \in Scopes /\ Grown(s, p[m].scopes)
      /\ \A k \in 1 .. Len(p) : p[k].scopes \in Scopes
      /\ Growing(p)
  BY DEF Good, Typed, Back
<1>3. \A k \in 1 .. m : Grown(q[k].scopes, p[k].scopes)
  <2> TAKE k \in 1 .. m
  <2>1. CASE k < m
    BY <2>1, <1>2, ScopeParts DEF Grown
  <2>2. CASE k = m
    BY <2>2, <1>2
  <2> QED
    BY <2>1, <2>2, <1>2
<1>4. Growing(q)
  <2> SUFFICES ASSUME NEW i \in 1 .. m, NEW k \in 1 .. m, i <= k
               PROVE  Grown(q[k].scopes, q[i].scopes)
    BY <1>2 DEF Growing
  <2>1. q[k].scopes \in Scopes /\ q[i].scopes \in Scopes
    BY <1>1, <1>2 DEF Typed
  <2>2. CASE i = k
    BY <2>1, <2>2, ScopeParts DEF Grown
  <2>3. CASE i < k
    <3>1. i \in 1 .. Len(p) /\ k \in 1 .. Len(p) /\ q[i] = p[i]
      BY <2>3, <1>2
    <3>2. Grown(p[k].scopes, p[i].scopes) /\ Grown(q[k].scopes, p[k].scopes)
      BY <2>3, <3>1, <1>2, <1>3 DEF Growing
    <3> QED
      BY <3>1, <3>2, <2>1, <1>2, GrownOn
  <2> QED
    BY <2>2, <2>3, <1>2
<1>5. Found(q, v)
  <2> SUFFICES ASSUME NEW k \in 1 .. m, NEW j \in 1 .. q[k].at
               PROVE  Has(q[k].scopes, v[j].name)
    BY <1>2 DEF Found
  <2>1. /\ q[k].at = p[k].at /\ v[j] = u[j] /\ v[j] \in Cleanups
        /\ k \in 1 .. Len(p)
    BY <1>1, <1>2 DEF Back, Typed
  <2>2. Has(p[k].scopes, u[j].name)
    BY <2>1 DEF Good, Found
  <2>3. u[j].name \in Names
    BY <2>1 DEF Cleanups
  <2>4. p[k].scopes \in Scopes /\ q[k].scopes \in Scopes
    BY <2>1, <1>1, <1>2 DEF Typed
  <2>5. PICK l \in 1 .. Len(p[k].scopes) : p[k].scopes[l][u[j].name] # 0
    BY <2>2 DEF Has
  <2>6. l \in 1 .. Len(q[k].scopes) /\ q[k].scopes[l][u[j].name] # 0
    <3>1. Len(p[k].scopes) \in Nat /\ Len(q[k].scopes) \in Nat
      BY <2>4, ScopeParts
    <3>2. /\ Len(p[k].scopes) <= Len(q[k].scopes)
          /\ q[k].scopes[l][u[j].name] # 0
      BY <2>3, <2>5, <1>3 DEF Grown
    <3> QED
      BY <3>1, <3>2
  <2> QED
    BY <2>1, <2>6 DEF Has
<1> QED
  BY <1>1, <1>4, <1>5 DEF Good

(* Going back to scopes in which the names mean the same keeps meanings.   *)
LEMMA BackNamed ==
  ASSUME NEW p, NEW u, NEW q, NEW v, NEW m, NEW s, Good(p, u), Back(p, u, q, v, m, s),
         Named(p, u), SameFor(s, p[m].scopes, u, p[m].at)
  PROVE  Named(q, v)
<1>1. /\ Len(p) \in Nat /\ m \in 1 .. Len(p) /\ Len(q) = m
      /\ \A k \in 1 .. m - 1 : q[k] = p[k]
      /\ q[m].at = p[m].at /\ q[m].scopes = s /\ Len(s) = Len(p[m].scopes)
      /\ Len(v) = p[m].at
      /\ \A j \in 1 .. Len(v) : v[j] = u[j]
      /\ \A k \in 1 .. Len(p) : p[k].scopes \in Scopes /\ p[k].at \in Nat
      /\ \A i, k \in 1 .. Len(p) : i <= k => p[i].at <= p[k].at
      /\ \A i, k \in 1 .. Len(p) : i <= k => Len(p[i].scopes) <= Len(p[k].scopes)
      /\ s \in Scopes
  BY SMTT(30) DEF Good, Typed, Counting, Growing, Grown, Back
<1>2. \A k \in 1 .. m : /\ q[k].at = p[k].at /\ Len(q[k].scopes) = Len(p[k].scopes)
                        /\ q[k].at \in Nat /\ q[k].at <= Len(v)
                        /\ k \in 1 .. Len(p)
                        /\ SameFor(q[k].scopes, p[k].scopes, u, p[k].at)
  <2> TAKE k \in 1 .. m
  <2>1. CASE k < m
    BY SMTT(30), <2>1, <1>1 DEF SameFor
  <2>2. CASE k = m
    BY <2>2, <1>1
  <2> QED
    BY <2>1, <2>2, <1>1
<1>3. Agreeing(q, v)
  <2> SUFFICES ASSUME NEW i \in 1 .. m, NEW k \in 1 .. m, i <= k
               PROVE  SameFor(q[k].scopes, q[i].scopes, v, q[i].at)
    BY <1>1 DEF Agreeing
  <2>1. \A j \in 1 .. q[i].at : v[j] = u[j]
    BY <1>1, <1>2
  <2>2. CASE i = k
    BY <2>2 DEF SameFor
  <2>3. CASE i < k
    <3>1. q[i] = p[i]
      BY <2>3, <1>1
    <3>2. SameFor(p[k].scopes, p[i].scopes, u, p[i].at)
      BY <2>3, <1>2 DEF Named, Agreeing
    <3>3. SameFor(q[k].scopes, p[i].scopes, u, p[i].at)
      BY SMTT(30), <2>3, <3>2, <1>1, <1>2, SameOn
    <3>4. ASSUME NEW l \in 1 .. Len(q[i].scopes), NEW j \in 1 .. q[i].at
          PROVE  q[k].scopes[l][v[j].name] = q[i].scopes[l][v[j].name]
      <4>1. q[k].scopes[l][u[j].name] = p[i].scopes[l][u[j].name]
        BY <3>1, <3>3 DEF SameFor
      <4>2. v[j] = u[j]
        BY <2>1
      <4> QED
        BY <4>1, <4>2, <3>1
    <3> QED
      BY <3>4 DEF SameFor
  <2> QED
    BY <2>2, <2>3, <1>1
<1>4. Resolved(q, v)
  <2> SUFFICES ASSUME NEW k \in 1 .. m, NEW j \in 1 .. q[k].at
               PROVE  Holds(q[k].scopes, v[j].name, v[j].object)
    BY <1>1 DEF Resolved
  <2>1. v[j] = u[j] /\ j \in 1 .. p[k].at
    BY <1>1, <1>2
  <2>2. Holds(p[k].scopes, u[j].name, u[j].object)
    BY <2>1, <1>2 DEF Named, Resolved
  <2>3. \A l \in 1 .. Len(p[k].scopes) :
          q[k].scopes[l][u[j].name] = p[k].scopes[l][u[j].name]
    BY <2>1, <1>2 DEF SameFor
  <2>4. Len(q[k].scopes) = Len(p[k].scopes)
    BY <1>2
  <2> QED
    BY <2>1, <2>2, <2>3, <2>4 DEF Holds
<1> QED
  BY <1>3, <1>4 DEF Named

-----------------------------------------------------------------------------
(* Opening a statement: q is p with the statement in the place of the      *)
(* point, and the point behind it, where the scopes are s.                 *)

Opened(p, u, q, v, kind, s) ==
  LET n == Len(p)
  IN /\ Len(q) = n + 1
     /\ \A k \in 1 .. n - 1 : q[k] = p[k]
     /\ q[n].kind = kind /\ q[n].at = p[n].at /\ q[n].scopes = p[n].scopes
     /\ q[n + 1].at = Len(v) /\ q[n + 1].scopes = s
     /\ s \in Scopes /\ Grown(s, p[n].scopes)
     /\ Len(s) = Len(p[n].scopes) + (IF kind = "block" THEN 1 ELSE 0)
     /\ Len(v) = Len(u) + (IF kind = "using" THEN 1 ELSE 0)
     /\ \A j \in 1 .. Len(u) : v[j] = u[j]
     /\ \A j \in 1 .. Len(v) : v[j] \in Cleanups
     /\ kind = "using" => Has(s, v[Len(v)].name)

(* What the points of the two paths have in common.                        *)
LEMMA OpenedParts ==
  ASSUME NEW p, NEW u, NEW q, NEW v, NEW kind, NEW s,
         Good(p, u), Opened(p, u, q, v, kind, s)
  PROVE  /\ Len(p) \in Nat /\ Len(p) >= 1 /\ Len(q) = Len(p) + 1
         /\ Len(u) \in Nat /\ Len(v) \in Nat /\ Len(u) <= Len(v)
         /\ \A k \in 1 .. Len(p) :
              /\ q[k].at = p[k].at /\ q[k].scopes = p[k].scopes
              /\ p[k].at \in Nat /\ p[k].at <= Len(u) /\ p[k].scopes \in Scopes
         /\ \A k \in 1 .. Len(q) : k \in 1 .. Len(p) \/ k = Len(p) + 1
<1>1. /\ Len(p) \in Nat /\ Len(p) >= 1 /\ Len(u) \in Nat
      /\ \A k \in 1 .. Len(p) : p[k].at \in 0 .. Len(u) /\ p[k].scopes \in Scopes
  BY DEF Good, Typed
<1>2. Len(v) \in Nat /\ Len(u) <= Len(v) /\ Len(q) = Len(p) + 1
  BY <1>1 DEF Opened
<1>3. \A k \in 1 .. Len(p) : q[k].at = p[k].at /\ q[k].scopes = p[k].scopes
  <2> TAKE k \in 1 .. Len(p)
  <2>1. CASE k = Len(p)
    BY <2>1 DEF Opened
  <2>2. CASE k \in 1 .. Len(p) - 1
    BY <2>2 DEF Opened
  <2> QED
    BY <1>1, <2>1, <2>2
<1> QED
  BY <1>1, <1>2, <1>3

LEMMA OpenTyped ==
  ASSUME NEW p, NEW u, NEW q, NEW v, NEW kind, NEW s,
         Good(p, u), Opened(p, u, q, v, kind, s)
  PROVE  Typed(q, v) /\ Scoped(q)
<1> DEFINE n == Len(p)
<1>1. /\ n \in Nat /\ n >= 1 /\ Len(q) = n + 1
      /\ Len(u) \in Nat /\ Len(v) \in Nat /\ Len(u) <= Len(v)
      /\ \A k \in 1 .. n :
           /\ q[k].at = p[k].at /\ q[k].scopes = p[k].scopes
           /\ p[k].at \in Nat /\ p[k].at <= Len(u) /\ p[k].scopes \in Scopes
      /\ \A k \in 1 .. Len(q) : k \in 1 .. n \/ k = n + 1
  BY OpenedParts
<1>2. /\ \A k \in 1 .. n - 1 : q[k] = p[k]
      /\ q[n].kind = kind
      /\ q[n + 1].at = Len(v) /\ q[n + 1].scopes = s /\ s \in Scopes
      /\ Len(s) = Len(p[n].scopes) + (IF kind = "block" THEN 1 ELSE 0)
      /\ \A j \in 1 .. Len(v) : v[j] \in Cleanups
  BY DEF Opened
<1> HIDE DEF n
<1>3. Typed(q, v)
  BY <1>1, <1>2 DEF Typed
<1>4. ASSUME NEW k \in 1 .. n
      PROVE  BlocksBefore(q, k) = BlocksBefore(p, k)
  <2>1. \A i \in 1 .. k - 1 : q[i] = p[i]
    BY <1>1, <1>2
  <2> QED
    BY <2>1 DEF BlocksBefore
<1>5. BlocksBefore(q, n + 1) =
        BlocksBefore(p, n) \cup (IF kind = "block" THEN {n} ELSE {})
  <2>1. \A i : i \in 1 .. n <=> i \in 1 .. n - 1 \/ i = n
    BY <1>1
  <2>2. n + 1 - 1 = n
    BY <1>1
  <2> QED
    BY <2>1, <2>2, <1>2 DEF BlocksBefore
<1>6. \A k \in 1 .. n : Len(p[k].scopes) = 1 + Cardinality(BlocksBefore(p, k))
  BY DEF Good, Scoped, n
<1>7. Scoped(q)
  <2>1. IsFiniteSet(BlocksBefore(p, n)) /\ n \notin BlocksBefore(p, n)
    <3> DEFINE m == n - 1
               B == BlocksBefore(p, n)
               M == 1 .. m
    <3>1. m \in Nat /\ B \subseteq M /\ n \notin B
      BY <1>1 DEF BlocksBefore
    <3> HIDE DEF m, B
    <3>2. IsFiniteSet(M)
      BY <3>1, FirstNumbers
    <3> HIDE DEF M
    <3>3. IsFiniteSet(B)
      BY <3>1, <3>2, FS_Subset
    <3> QED
      BY <3>1, <3>3 DEF B
  <2>2. Cardinality(BlocksBefore(q, n + 1)) =
          Cardinality(BlocksBefore(p, n)) + (IF kind = "block" THEN 1 ELSE 0)
    <3> DEFINE B == BlocksBefore(p, n)
    <3>1. IsFiniteSet(B) /\ n \notin B
      BY <2>1
    <3>2. BlocksBefore(q, n + 1) = B \cup (IF kind = "block" THEN {n} ELSE {})
      BY <1>5
    <3> HIDE DEF B
    <3>3. Cardinality(B \cup {n}) = Cardinality(B) + 1
      BY <3>1, FS_AddElement
    <3>4. Cardinality(B) \in Nat
      BY <3>1, FS_CardinalityType
    <3>5. CASE kind = "block"
      BY <3>5, <3>2, <3>3 DEF B
    <3>6. CASE kind # "block"
      <4>1. BlocksBefore(q, n + 1) = B
        BY <3>2, <3>6
      <4> QED
        BY <3>4, <3>6, <4>1 DEF B
    <3> QED
      BY <3>5, <3>6
  <2>3. Len(q[n + 1].scopes) = 1 + Cardinality(BlocksBefore(q, n + 1))
    <3>1. Cardinality(BlocksBefore(p, n)) \in Nat
      BY <2>1, FS_CardinalityType
    <3>2. Len(p[n].scopes) = 1 + Cardinality(BlocksBefore(p, n))
      BY <1>1, <1>6
    <3> QED
      BY <2>2, <3>1, <3>2, <1>2
  <2>4. \A k \in 1 .. n : Len(q[k].scopes) = 1 + Cardinality(BlocksBefore(q, k))
    BY <1>1, <1>4, <1>6
  <2> QED
    BY <2>3, <2>4, <1>1 DEF Scoped
<1> QED
  BY <1>3, <1>7

LEMMA OpenCounting ==
  ASSUME NEW p, NEW u, NEW q, NEW v, NEW kind, NEW s,
         Good(p, u), Opened(p, u, q, v, kind, s)
  PROVE  Counting(q)
<1> DEFINE n == Len(p)
<1>1. /\ n \in Nat /\ n >= 1 /\ Len(q) = n + 1
      /\ Len(u) \in Nat /\ Len(v) \in Nat /\ Len(u) <= Len(v)
      /\ \A k \in 1 .. n : q[k].at = p[k].at /\ p[k].at \in Nat
      /\ \A k \in 1 .. Len(q) : k \in 1 .. n \/ k = n + 1
  BY OpenedParts
<1>2. /\ \A k \in 1 .. n - 1 : q[k] = p[k]
      /\ q[n].kind = kind
      /\ q[n + 1].at = Len(v)
      /\ Len(v) = Len(u) + (IF kind = "using" THEN 1 ELSE 0)
  BY DEF Opened
<1>3. /\ p[1].at = 0 /\ p[n].at = Len(u)
      /\ \A k \in 1 .. n : p[k].at <= k - 1
      /\ \A k \in 1 .. n - 1 : IsUsing(p[k]) => p[k + 1].at = p[k].at + 1
      /\ \A i, k \in 1 .. n : i <= k =>
           /\ p[i].at <= p[k].at
           /\ (\A j \in i .. k - 1 : ~IsUsing(p[j])) => p[i].at = p[k].at
  BY DEF Good, Typed, Counting
<1> HIDE DEF n
<1>4. q[1].at = 0
  BY <1>1, <1>3
<1>5. ASSUME NEW k \in 1 .. n + 1
      PROVE  q[k].at <= k - 1
  <2>1. CASE k \in 1 .. n
    BY <2>1, <1>1, <1>3
  <2>2. CASE k = n + 1
    <3>1. Len(u) <= n - 1 /\ Len(v) <= Len(u) + 1
      BY <1>1, <1>2, <1>3
    <3>2. q[k].at = Len(v) /\ k - 1 = n
      BY <2>2, <1>1, <1>2
    <3> QED
      BY <3>1, <3>2, <1>1
  <2> QED
    BY <2>1, <2>2, <1>1
<1>6. ASSUME NEW k \in 1 .. n, IsUsing(q[k])
      PROVE  q[k + 1].at = q[k].at + 1
  <2>1. CASE k = n
    BY <2>1, <1>1, <1>2, <1>3, <1>6 DEF IsUsing
  <2>2. CASE k < n
    <3>1. k \in 1 .. n - 1 /\ k + 1 \in 1 .. n /\ q[k] = p[k]
      BY <2>2, <1>1, <1>2
    <3> QED
      BY <3>1, <1>1, <1>3, <1>6
  <2> QED
    BY <2>1, <2>2, <1>1
<1>7. ASSUME NEW i \in 1 .. n + 1, NEW k \in 1 .. n + 1, i <= k
      PROVE  /\ q[i].at <= q[k].at
             /\ (\A j \in i .. k - 1 : ~IsUsing(q[j])) => q[i].at = q[k].at
  <2>1. CASE i \in 1 .. n /\ k \in 1 .. n
    <3>1. \A j \in i .. k - 1 : q[j] = p[j]
      BY <2>1, <1>1, <1>2
    <3> QED
      BY <2>1, <3>1, <1>1, <1>3, <1>7
  <2>2. CASE i \in 1 .. n /\ k = n + 1
    <3>1. \A j \in i .. n - 1 : q[j] = p[j] /\ j \in i .. k - 1
      BY <2>2, <1>1, <1>2
    <3>2. n \in i .. k - 1 /\ n \in 1 .. n /\ i <= n
      BY <2>2, <1>1
    <3>3. q[i].at <= q[k].at
      <4>1. p[i].at <= p[n].at
        BY <2>2, <3>2, <1>3
      <4>2. q[i].at = p[i].at /\ p[i].at \in Nat /\ q[k].at = Len(v) /\ p[n].at = Len(u)
        BY <2>2, <1>1, <1>2, <1>3
      <4> QED
        BY <4>1, <4>2, <1>1
    <3>4. ASSUME \A j \in i .. k - 1 : ~IsUsing(q[j])
          PROVE  q[i].at = q[k].at
      <4>1. p[i].at = p[n].at
        BY <2>2, <3>1, <3>2, <3>4, <1>3
      <4>2. kind # "using"
        BY <3>2, <3>4, <1>2 DEF IsUsing
      <4> QED
        BY <2>2, <4>1, <4>2, <1>1, <1>2, <1>3
    <3> QED
      BY <3>3, <3>4
  <2>3. CASE i = n + 1
    <3>1. k = i /\ q[i].at = Len(v)
      BY <2>3, <1>1, <1>2, <1>7
    <3> QED
      BY <3>1, <1>1
  <2> QED
    BY <2>1, <2>2, <2>3, <1>1, <1>7
<1> QED
  BY <1>1, <1>4, <1>5, <1>6, <1>7 DEF Counting

(* Opening a statement leaves a good path.                                 *)
LEMMA OpenGood ==
  ASSUME NEW p, NEW u, NEW q, NEW v, NEW kind, NEW s,
         Good(p, u), Opened(p, u, q, v, kind, s)
  PROVE  Good(q, v)
<1> DEFINE n == Len(p)
<1>1. /\ n \in Nat /\ n >= 1 /\ Len(q) = n + 1
      /\ Len(u) \in Nat /\ Len(v) \in Nat /\ Len(u) <= Len(v)
      /\ \A k \in 1 .. n :
           /\ q[k].at = p[k].at /\ q[k].scopes = p[k].scopes
           /\ p[k].at \in Nat /\ p[k].at <= Len(u) /\ p[k].scopes \in Scopes
      /\ \A k \in 1 .. Len(q) : k \in 1 .. n \/ k = n + 1
  BY OpenedParts
<1>2. /\ q[n + 1].at = Len(v) /\ q[n + 1].scopes = s
      /\ s \in Scopes /\ Grown(s, p[n].scopes)
      /\ Len(v) = Len(u) + (IF kind = "using" THEN 1 ELSE 0)
      /\ \A j \in 1 .. Len(u) : v[j] = u[j]
      /\ \A j \in 1 .. Len(v) : v[j] \in Cleanups
      /\ kind = "using" => Has(s, v[Len(v)].name)
  BY DEF Opened
<1>3. /\ \A i, k \in 1 .. n : i <= k => Grown(p[k].scopes, p[i].scopes)
      /\ \A k \in 1 .. n : \A j \in 1 .. p[k].at : Has(p[k].scopes, u[j].name)
      /\ p[n].at = Len(u)
  BY DEF Good, Growing, Found, Typed
<1> HIDE DEF n
<1>4. Growing(q)
  <2> SUFFICES ASSUME NEW i \in 1 .. n + 1, NEW k \in 1 .. n + 1, i <= k
               PROVE  Grown(q[k].scopes, q[i].scopes)
    BY <1>1 DEF Growing
  <2>1. CASE i \in 1 .. n /\ k \in 1 .. n
    BY <2>1, <1>1, <1>3
  <2>2. CASE i \in 1 .. n /\ k = n + 1
    <3>1. Grown(p[n].scopes, p[i].scopes) /\ p[n].scopes \in Scopes
          /\ p[i].scopes \in Scopes /\ q[i].scopes = p[i].scopes
      BY <2>2, <1>1, <1>3
    <3> QED
      BY <2>2, <3>1, <1>2, GrownOn
  <2>3. CASE i = n + 1
    <3>1. i = k
      BY <2>3, <1>1
    <3> QED
      BY <2>3, <3>1, <1>2, ScopeParts DEF Grown
  <2> QED
    BY <2>1, <2>2, <2>3, <1>1
<1>5. Found(q, v)
  <2>1. ASSUME NEW k \in 1 .. n, NEW j \in 1 .. q[k].at
        PROVE  Has(q[k].scopes, v[j].name)
    BY SMTT(30), <1>1, <1>2, <1>3
  <2>2. ASSUME NEW j \in 1 .. Len(u)
        PROVE  Has(s, v[j].name)
    <3>1. n \in 1 .. n /\ p[n].scopes \in Scopes
      BY <1>1
    <3>2. Has(p[n].scopes, u[j].name)
      BY <3>1, <1>3
    <3>3. v[j] = u[j] /\ v[j].name \in Names
      <4>1. v[j] \in Cleanups
        BY <1>1, <1>2
      <4> QED
        BY <4>1, <1>2 DEF Cleanups
    <3>4. PICK l \in 1 .. Len(p[n].scopes) : p[n].scopes[l][v[j].name] # 0
      BY <3>2, <3>3 DEF Has
    <3>5. l \in 1 .. Len(s) /\ s[l][v[j].name] # 0
      <4>1. Len(p[n].scopes) \in Nat /\ Len(s) \in Nat
        BY <3>1, <1>2, ScopeParts
      <4>2. Len(p[n].scopes) <= Len(s) /\ s[l][v[j].name] # 0
        BY <3>3, <3>4, <1>2 DEF Grown
      <4> QED
        BY <4>1, <4>2
    <3> QED
      BY <3>5 DEF Has
  <2>3. ASSUME NEW j \in 1 .. Len(v)
        PROVE  Has(s, v[j].name)
    <3>1. CASE j \in 1 .. Len(u)
      BY <2>2, <3>1
    <3>2. CASE j \notin 1 .. Len(u)
      <4>1. kind = "using" /\ j = Len(v)
        BY <3>2, <1>1, <1>2
      <4> QED
        BY <4>1, <1>2
    <3> QED
      BY <3>1, <3>2
  <2> QED
    BY <2>1, <2>3, <1>1, <1>2 DEF Found
<1> QED
  BY <1>4, <1>5, OpenTyped, OpenCounting DEF Good

(* Opening a statement keeps what names mean, if what it declares has      *)
(* another name.                                                           *)
LEMMA OpenNamed ==
  ASSUME NEW p, NEW u, NEW q, NEW v, NEW kind, NEW s,
         Good(p, u), Opened(p, u, q, v, kind, s), Named(p, u),
         SameFor(s, p[Len(p)].scopes, u, Len(u)),
         kind = "block" => \A n \in Names : s[Len(s)][n] = 0,
         kind = "using" => Holds(s, v[Len(v)].name, v[Len(v)].object)
  PROVE  Named(q, v)
<1> DEFINE n == Len(p)
<1>1. /\ n \in Nat /\ n >= 1 /\ Len(q) = n + 1
      /\ Len(u) \in Nat /\ Len(v) \in Nat /\ Len(u) <= Len(v)
      /\ \A k \in 1 .. n :
           /\ q[k].at = p[k].at /\ q[k].scopes = p[k].scopes
           /\ p[k].at \in Nat /\ p[k].at <= Len(u) /\ p[k].scopes \in Scopes
      /\ \A k \in 1 .. Len(q) : k \in 1 .. n \/ k = n + 1
  BY OpenedParts
<1>2. /\ q[n + 1].at = Len(v) /\ q[n + 1].scopes = s
      /\ s \in Scopes /\ Grown(s, p[n].scopes)
      /\ Len(s) = Len(p[n].scopes) + (IF kind = "block" THEN 1 ELSE 0)
      /\ Len(v) = Len(u) + (IF kind = "using" THEN 1 ELSE 0)
      /\ \A j \in 1 .. Len(u) : v[j] = u[j]
      /\ \A j \in 1 .. Len(v) : v[j] \in Cleanups
  BY DEF Opened
<1>3. /\ \A i, k \in 1 .. n :
           i <= k => SameFor(p[k].scopes, p[i].scopes, u, p[i].at)
      /\ \A i, k \in 1 .. n : i <= k => Grown(p[k].scopes, p[i].scopes)
      /\ \A k \in 1 .. n : \A j \in 1 .. p[k].at :
           Holds(p[k].scopes, u[j].name, u[j].object)
      /\ p[n].at = Len(u)
      /\ SameFor(s, p[n].scopes, u, Len(u))
  BY DEF Good, Named, Agreeing, Resolved, Growing, Typed
<1> HIDE DEF n
<1>4. ASSUME NEW i \in 1 .. n
      PROVE  /\ \A j \in 1 .. p[i].at : v[j] = u[j]
             /\ \A t : SameFor(t, p[i].scopes, u, p[i].at)
                         => SameFor(t, q[i].scopes, v, q[i].at)
  <2>1. \A j \in 1 .. p[i].at : v[j] = u[j]
    BY <1>1, <1>2
  <2>2. ASSUME NEW t, SameFor(t, p[i].scopes, u, p[i].at)
        PROVE  SameFor(t, q[i].scopes, v, q[i].at)
    <3>1. q[i].scopes = p[i].scopes /\ q[i].at = p[i].at
      BY <1>1
    <3>2. ASSUME NEW l \in 1 .. Len(q[i].scopes), NEW j \in 1 .. q[i].at
          PROVE  t[l][v[j].name] = q[i].scopes[l][v[j].name]
      <4>1. t[l][u[j].name] = p[i].scopes[l][u[j].name]
        BY <3>1, <2>2 DEF SameFor
      <4>2. v[j] = u[j]
        BY <2>1, <3>1
      <4> QED
        BY <4>1, <4>2, <3>1
    <3> QED
      BY <3>2 DEF SameFor
  <2> QED
    BY <2>1, <2>2
<1>5. Agreeing(q, v)
  <2> SUFFICES ASSUME NEW i \in 1 .. n + 1, NEW k \in 1 .. n + 1, i <= k
               PROVE  SameFor(q[k].scopes, q[i].scopes, v, q[i].at)
    BY <1>1 DEF Agreeing
  <2>1. CASE i \in 1 .. n /\ k \in 1 .. n
    BY <2>1, <1>1, <1>3, <1>4
  <2>2. CASE i \in 1 .. n /\ k = n + 1
    <3>1. /\ n \in 1 .. n /\ i <= n /\ p[n].scopes \in Scopes
          /\ p[i].scopes \in Scopes /\ p[i].at \in Nat /\ p[i].at <= Len(u)
      BY <2>2, <1>1
    <3>2. Len(p[i].scopes) <= Len(p[n].scopes)
          /\ SameFor(p[n].scopes, p[i].scopes, u, p[i].at)
      BY <2>2, <3>1, <1>3 DEF Grown
    <3>3. SameFor(s, p[i].scopes, u, p[i].at)
      BY <3>1, <3>2, <1>1, <1>3, SameOn
    <3> QED
      BY <2>2, <3>3, <1>2, <1>4
  <2>3. CASE i = n + 1
    <3>1. i = k
      BY <2>3, <1>1
    <3> QED
      BY <3>1 DEF SameFor
  <2> QED
    BY <2>1, <2>2, <2>3, <1>1
<1>6. ASSUME NEW k \in 1 .. n, NEW j \in 1 .. q[k].at
      PROVE  Holds(q[k].scopes, v[j].name, v[j].object)
  BY <1>1, <1>3, <1>4
<1>7. ASSUME NEW j \in 1 .. Len(u)
      PROVE  Holds(s, v[j].name, v[j].object)
  <2> DEFINE r == p[n].scopes
  <2>1. n \in 1 .. n /\ r \in Scopes /\ v[j] = u[j] /\ v[j] \in Cleanups
    BY <1>1, <1>2
  <2>2. Holds(r, v[j].name, v[j].object)
    BY <2>1, <1>3
  <2>3. \A l \in 1 .. Len(r) : s[l][v[j].name] = r[l][v[j].name]
    BY <2>1, <1>3 DEF SameFor
  <2>4. v[j].name \in Names
    BY <2>1 DEF Cleanups
  <2>5. Len(r) \in Nat /\ Len(s) \in Nat /\ Len(r) <= Len(s)
    BY <2>1, <1>2, ScopeParts DEF Grown
  <2>6. \A h \in 1 .. Len(s) : h \in 1 .. Len(r) \/ s[h][v[j].name] = 0
    <3> TAKE h \in 1 .. Len(s)
    <3>1. CASE kind = "block"
      BY SMTT(30), <3>1, <2>4, <2>5, <1>2
    <3>2. CASE kind # "block"
      BY <3>2, <2>5, <1>2
    <3> QED
      BY <3>1, <3>2
  <2> HIDE DEF r
  <2>7. PICK l \in 1 .. Len(r) :
          /\ r[l][v[j].name] = v[j].object /\ v[j].object # 0
          /\ \A h \in 1 .. Len(r) : h > l => r[h][v[j].name] = 0
    BY <2>2 DEF Holds
  <2>8. l \in 1 .. Len(s) /\ s[l][v[j].name] = v[j].object
    BY <2>3, <2>5, <2>7
  <2>9. \A h \in 1 .. Len(s) : h > l => s[h][v[j].name] = 0
    BY <2>3, <2>6, <2>7
  <2> QED
    BY <2>7, <2>8, <2>9 DEF Holds
<1>8. ASSUME NEW j \in 1 .. Len(v)
      PROVE  Holds(s, v[j].name, v[j].object)
  <2>1. CASE j \in 1 .. Len(u)
    BY <1>7, <2>1
  <2>2. CASE j \notin 1 .. Len(u)
    <3>1. kind = "using" /\ j = Len(v)
      BY <2>2, <1>1, <1>2
    <3> QED
      BY <3>1
  <2> QED
    BY <2>1, <2>2
<1>9. Resolved(q, v)
  BY <1>6, <1>8, <1>1, <1>2 DEF Resolved
<1> QED
  BY <1>5, <1>9 DEF Named

-----------------------------------------------------------------------------
(* Contexts.                                                               *)

LEMMA PathParts ==
  ASSUME NEW n \in Seq(Statements), NEW s, NEW u
  PROVE  /\ Len(n) \in Nat /\ DOMAIN n = 1 .. Len(n)
         /\ Len(PathTo(n, s, u)) = Len(n) + 1
         /\ \A k \in 1 .. Len(n) : PathTo(n, s, u)[k] = n[k] /\ n[k] \in Statements
         /\ PathTo(n, s, u)[Len(n) + 1].kind = "here"
         /\ PathTo(n, s, u)[Len(n) + 1].at = Len(u)
         /\ PathTo(n, s, u)[Len(n) + 1].scopes = s
<1> DEFINE e == [kind |-> "here", at |-> Len(u), scopes |-> s]
           S == Statements \cup {e}
<1>1. n \in Seq(S) /\ e \in S
  <2>1. Statements \subseteq S /\ e \in S
    OBVIOUS
  <2> HIDE DEF S, e
  <2> QED
    BY <2>1, SeqMonotonic
<1>2. /\ Len(n) \in Nat /\ DOMAIN n = 1 .. Len(n)
      /\ \A k \in 1 .. Len(n) : n[k] \in Statements
  BY ElementsOf
<1>3. e.kind = "here" /\ e.at = Len(u) /\ e.scopes = s
  OBVIOUS
<1>4. PathTo(n, s, u) = Append(n, e)
  BY DEF PathTo
<1> HIDE DEF e, S
<1>5. /\ Len(Append(n, e)) = Len(n) + 1
      /\ \A k \in 1 .. Len(n) : Append(n, e)[k] = n[k]
      /\ Append(n, e)[Len(n) + 1] = e
  BY <1>1, AppendProperties
<1> QED
  BY <1>2, <1>3, <1>4, <1>5

(* The front of a sequence.                                                *)
LEMMA FrontIs ==
  ASSUME NEW T, NEW s \in Seq(T), NEW m \in 0 .. Len(s)
  PROVE  /\ SubSeq(s, 1, m) \in Seq(T)
         /\ Len(SubSeq(s, 1, m)) = m
         /\ \A i \in 1 .. m : SubSeq(s, 1, m)[i] = s[i]
<1>1. Len(s) \in Nat /\ \A i \in 1 .. Len(s) : s[i] \in T
  BY ElementsOf
<1>2. 1 \in Int /\ m \in Int /\ \A i \in 1 .. m : s[i] \in T
  BY <1>1
<1>3. /\ SubSeq(s, 1, m) \in Seq(T)
      /\ Len(SubSeq(s, 1, m)) = IF 1 <= m THEN m - 1 + 1 ELSE 0
      /\ \A i \in 1 .. m - 1 + 1 : SubSeq(s, 1, m)[i] = s[1 + i - 1]
  BY <1>2, SubSeqProperties
<1>4. m \in Nat /\ m - 1 + 1 = m /\ (1 <= m \/ m = 0)
  BY <1>1
<1> QED
  BY <1>3, <1>4

(* A context that goes back is a context, and the names keep their         *)
(* meaning if the scopes agree on them.                                    *)
LEMMA ContextBack ==
  ASSUME NEW n, NEW s, NEW u, Context(n, s, u),
         NEW m \in 1 .. Len(n) + 1, NEW r \in Scopes,
         Len(r) = Len(PathTo(n, s, u)[m].scopes),
         Grown(r, PathTo(n, s, u)[m].scopes)
  PROVE  /\ Context(SubSeq(n, 1, m - 1), r, SubSeq(u, 1, PathTo(n, s, u)[m].at))
         /\ /\ Meaning(n, s, u)
            /\ SameFor(r, PathTo(n, s, u)[m].scopes, u, PathTo(n, s, u)[m].at)
            => Meaning(SubSeq(n, 1, m - 1), r, SubSeq(u, 1, PathTo(n, s, u)[m].at))
<1> DEFINE p == PathTo(n, s, u)
           a == p[m].at
           o == SubSeq(n, 1, m - 1)
           v == SubSeq(u, 1, a)
           q == PathTo(o, r, v)
<1>1. n \in Seq(Statements) /\ u \in Seq(Cleanups) /\ Good(p, u)
  BY DEF Context
<1>2. /\ Len(n) \in Nat /\ Len(p) = Len(n) + 1
      /\ \A k \in 1 .. Len(n) : p[k] = n[k]
  BY <1>1, PathParts
<1>3. Len(u) \in Nat /\ a \in 0 .. Len(u)
  BY <1>2, <1>1 DEF Good, Typed
<1>4. v \in Seq(Cleanups) /\ Len(v) = a /\ \A j \in 1 .. a : v[j] = u[j]
  <2> HIDE DEF a
  <2> QED
    BY <1>1, <1>3, FrontIs
<1>5. /\ o \in Seq(Statements) /\ Len(o) = m - 1
      /\ \A k \in 1 .. m - 1 : o[k] = n[k]
  <2> DEFINE l == m - 1
  <2>1. l \in 0 .. Len(n)
    BY <1>2
  <2> HIDE DEF l
  <2>2. /\ SubSeq(n, 1, l) \in Seq(Statements) /\ Len(SubSeq(n, 1, l)) = l
        /\ \A k \in 1 .. l : SubSeq(n, 1, l)[k] = n[k]
    BY <1>1, <2>1, FrontIs
  <2> QED
    BY <2>2 DEF l
<1> HIDE DEF p, a, o, v
<1>6. /\ Len(o) \in Nat /\ Len(q) = Len(o) + 1
      /\ \A k \in 1 .. Len(o) : q[k] = o[k]
      /\ q[Len(o) + 1].at = Len(v) /\ q[Len(o) + 1].scopes = r
  BY <1>5, PathParts
<1> HIDE DEF q
<1>7. /\ Len(q) = m /\ q[m].at = a /\ q[m].scopes = r
      /\ \A k \in 1 .. m - 1 : q[k] = p[k]
  <2>1. Len(o) + 1 = m
    BY <1>2, <1>5
  <2>2. \A k \in 1 .. m - 1 : k \in 1 .. Len(o) /\ k \in 1 .. Len(n)
    BY <1>2, <1>5
  <2> QED
    BY <2>1, <2>2, <1>2, <1>4, <1>5, <1>6
<1>8. Back(p, u, q, v, m, r)
  <2>1. m \in 1 .. Len(p)
    BY <1>2
  <2>2. Len(r) = Len(p[m].scopes) /\ Grown(r, p[m].scopes)
    BY DEF p
  <2> QED
    BY <2>1, <2>2, <1>4, <1>7 DEF Back, a
<1>9. Good(q, v)
  BY <1>1, <1>8, BackGood
<1>10. Context(o, r, v)
  BY <1>4, <1>5, <1>9 DEF Context, q
<1>11. ASSUME Named(p, u), SameFor(r, p[m].scopes, u, a)
       PROVE  Named(q, v)
  BY <1>1, <1>8, <1>11, BackNamed DEF a
<1> QED
  BY <1>10, <1>11 DEF Meaning, p, a, o, v, q

(* A context in which a statement is opened is a context.                  *)
LEMMA ContextOpen ==
  ASSUME NEW n, NEW s, NEW u, Context(n, s, u),
         NEW kind \in Kinds, NEW e \in Statements,
         e.kind = kind, e.at = Len(u), e.scopes = s,
         NEW t \in Scopes, Grown(t, s),
         Len(t) = Len(s) + (IF kind = "block" THEN 1 ELSE 0),
         NEW v \in Seq(Cleanups),
         Len(v) = Len(u) + (IF kind = "using" THEN 1 ELSE 0),
         \A j \in 1 .. Len(u) : v[j] = u[j],
         kind = "using" => Has(t, v[Len(v)].name)
  PROVE  /\ Context(Append(n, e), t, v)
         /\ /\ Meaning(n, s, u) /\ SameFor(t, s, u, Len(u))
            /\ kind = "block" => \A name \in Names : t[Len(t)][name] = 0
            /\ kind = "using" => Holds(t, v[Len(v)].name, v[Len(v)].object)
            => Meaning(Append(n, e), t, v)
<1> DEFINE p == PathTo(n, s, u)
           o == Append(n, e)
           q == PathTo(o, t, v)
<1>1. n \in Seq(Statements) /\ s \in Scopes /\ u \in Seq(Cleanups) /\ Good(p, u)
  BY DEF Context
<1>2. /\ Len(n) \in Nat /\ Len(p) = Len(n) + 1
      /\ \A k \in 1 .. Len(n) : p[k] = n[k]
      /\ p[Len(n) + 1].at = Len(u) /\ p[Len(n) + 1].scopes = s
  BY <1>1, PathParts
<1>3. /\ o \in Seq(Statements) /\ Len(o) = Len(n) + 1
      /\ \A k \in 1 .. Len(n) : o[k] = n[k]
      /\ o[Len(n) + 1] = e
  BY <1>1, AppendProperties
<1> HIDE DEF p, o
<1>4. /\ Len(q) = Len(o) + 1
      /\ \A k \in 1 .. Len(o) : q[k] = o[k]
      /\ q[Len(o) + 1].at = Len(v) /\ q[Len(o) + 1].scopes = t
  BY <1>3, PathParts
<1> HIDE DEF q
<1>5. \A j \in 1 .. Len(v) : v[j] \in Cleanups
  BY ElementsOf
<1>6. Opened(p, u, q, v, kind, t)
  <2>1. \A k \in 1 .. Len(n) : k \in 1 .. Len(o)
    BY <1>2, <1>3
  <2>2. Len(n) + 1 \in 1 .. Len(o) /\ Len(p) - 1 = Len(n)
    BY <1>2, <1>3
  <2>3. \A k \in 1 .. Len(p) - 1 : q[k] = p[k]
    BY <2>1, <2>2, <1>2, <1>3, <1>4
  <2>4. q[Len(p)] = e
    BY <2>2, <1>2, <1>3, <1>4
  <2>5. Len(q) = Len(p) + 1 /\ q[Len(p) + 1].at = Len(v) /\ q[Len(p) + 1].scopes = t
    BY <1>2, <1>3, <1>4
  <2>6. p[Len(p)].at = Len(u) /\ p[Len(p)].scopes = s
    BY <1>2
  <2> QED
    BY <2>3, <2>4, <2>5, <2>6, <1>5 DEF Opened
<1>7. Good(q, v)
  BY <1>1, <1>6, OpenGood
<1>8. Context(o, t, v)
  BY <1>3, <1>7 DEF Context, q
<1>9. ASSUME Named(p, u), SameFor(t, s, u, Len(u)),
             kind = "block" => \A name \in Names : t[Len(t)][name] = 0,
             kind = "using" => Holds(t, v[Len(v)].name, v[Len(v)].object)
      PROVE  Named(q, v)
  <2>1. SameFor(t, p[Len(p)].scopes, u, Len(u))
    BY <1>2, <1>9
  <2> QED
    BY <1>1, <1>6, <1>9, <2>1, OpenNamed
<1> QED
  BY <1>8, <1>9 DEF Meaning, p, o, q

-----------------------------------------------------------------------------
(* What the steps do to the scopes.                                        *)

(* A scope of the routine is always open.                                  *)
LEMMA ContextScopes ==
  ASSUME NEW n, NEW s, NEW u, Context(n, s, u), NEW m \in 1 .. Len(n) + 1
  PROVE  /\ PathTo(n, s, u)[m].scopes \in Scopes
         /\ Len(PathTo(n, s, u)[m].scopes) \in Nat
         /\ Len(PathTo(n, s, u)[m].scopes) >= 1
         /\ Len(PathTo(n, s, u)[m].scopes) <= Len(s)
         /\ PathTo(n, s, u)[m].at \in 0 .. Len(u)
         /\ PathTo(n, s, u)[m].at <= m - 1
         /\ Len(PathTo(n, s, u)[1].scopes) = 1
         /\ PathTo(n, s, u)[1].at = 0
         /\ Len(u) \in Nat /\ Len(n) \in Nat
<1> DEFINE p == PathTo(n, s, u)
<1>1. n \in Seq(Statements) /\ Good(p, u)
  BY DEF Context
<1>2. Len(n) \in Nat /\ Len(p) = Len(n) + 1 /\ p[Len(n) + 1].scopes = s
  BY <1>1, PathParts
<1> HIDE DEF p
<1>3. m \in 1 .. Len(p) /\ 1 \in 1 .. Len(p) /\ Len(n) + 1 \in 1 .. Len(p)
      /\ m <= Len(n) + 1
  BY <1>2
<1>4. /\ \A k \in 1 .. Len(p) : p[k].at \in 0 .. Len(u) /\ p[k].scopes \in Scopes
      /\ \A k \in 1 .. Len(p) : p[k].at <= k - 1
      /\ \A k \in 1 .. Len(p) :
           Len(p[k].scopes) = 1 + Cardinality(BlocksBefore(p, k))
      /\ p[1].at = 0 /\ Len(u) \in Nat
      /\ Growing(p)
  BY <1>1 DEF Good, Typed, Counting, Scoped
<1>5. Len(p[m].scopes) <= Len(s)
  BY <1>2, <1>3, <1>4 DEF Growing, Grown
<1>6. ASSUME NEW k \in 1 .. Len(p)
      PROVE  Cardinality(BlocksBefore(p, k)) \in Nat
  <2> DEFINE l == k - 1
             B == BlocksBefore(p, k)
             M == 1 .. l
  <2>1. l \in Nat /\ B \subseteq M
    BY <1>2 DEF BlocksBefore
  <2> HIDE DEF l, B
  <2>2. IsFiniteSet(M)
    BY <2>1, FirstNumbers
  <2> HIDE DEF M
  <2>3. IsFiniteSet(B) /\ Cardinality(B) \in Nat
    BY <2>1, <2>2, FS_Subset, FS_CardinalityType
  <2> QED
    BY <2>3 DEF B
<1>7. Len(p[m].scopes) \in Nat /\ Len(p[m].scopes) >= 1
  <2>1. Len(p[m].scopes) = 1 + Cardinality(BlocksBefore(p, m))
    BY <1>3, <1>4
  <2>2. Cardinality(BlocksBefore(p, m)) \in Nat
    BY <1>3, <1>6
  <2> QED
    BY <2>1, <2>2
<1>8. Len(p[1].scopes) = 1
  <2>1. BlocksBefore(p, 1) = {}
    BY DEF BlocksBefore
  <2>2. Cardinality(BlocksBefore(p, 1)) = 0
    BY <2>1, FS_EmptySet
  <2>3. Len(p[1].scopes) = 1 + Cardinality(BlocksBefore(p, 1))
    BY <1>3, <1>4
  <2> QED
    BY <2>2, <2>3
<1> QED
  BY <1>2, <1>3, <1>4, <1>5, <1>7, <1>8 DEF p

(* The scopes of a point further out, as they are here.                    *)
LEMMA Truncated ==
  ASSUME NEW n, NEW s, NEW u, Context(n, s, u), NEW m \in 1 .. Len(n) + 1
  PROVE  LET p == PathTo(n, s, u)
             r == SubSeq(s, 1, Len(p[m].scopes))
         IN /\ r \in Scopes /\ Len(r) = Len(p[m].scopes)
            /\ Grown(r, p[m].scopes)
            /\ Meaning(n, s, u) => SameFor(r, p[m].scopes, u, p[m].at)
<1> DEFINE p == PathTo(n, s, u)
           l == Len(p[m].scopes)
           r == SubSeq(s, 1, l)
<1>1. n \in Seq(Statements) /\ s \in Scopes /\ Good(p, u)
  BY DEF Context
<1>2. Len(n) \in Nat /\ Len(p) = Len(n) + 1 /\ p[Len(n) + 1].scopes = s
  BY <1>1, PathParts
<1>3. l \in 0 .. Len(s) /\ p[m].scopes \in Scopes
  <2>1. p[m].scopes \in Scopes /\ l \in Nat /\ l <= Len(s)
    BY ContextScopes
  <2>2. Len(s) \in Nat
    BY <1>1, ScopeParts
  <2> HIDE DEF l, p
  <2> QED
    BY <2>1, <2>2
<1> HIDE DEF l
<1>4. r \in Scopes /\ Len(r) = l /\ \A i \in 1 .. l : r[i] = s[i]
  BY <1>1, <1>3, FrontIs DEF Scopes
<1> HIDE DEF p, r
<1>5. Len(n) + 1 \in 1 .. Len(p) /\ m \in 1 .. Len(p) /\ m <= Len(n) + 1
  BY <1>2
<1>6. Grown(s, p[m].scopes)
  BY <1>1, <1>2, <1>5 DEF Good, Growing
<1>7. Grown(r, p[m].scopes)
  BY <1>3, <1>4, <1>6 DEF Grown, l
<1>8. ASSUME Named(p, u)
      PROVE  SameFor(r, p[m].scopes, u, p[m].at)
  <2>1. SameFor(s, p[m].scopes, u, p[m].at)
    BY <1>2, <1>5, <1>8 DEF Named, Agreeing
  <2> QED
    BY <2>1, <1>4 DEF SameFor, l
<1> QED
  BY <1>4, <1>7, <1>8 DEF Meaning, r, l, p

(* Declaring a name in the innermost scope.                                *)
LEMMA DeclaredIs ==
  ASSUME scopes \in Scopes, Len(scopes) >= 1, NEW n \in Names, NEW x \in Objects
  PROVE  /\ Declared(n, x) \in Scopes
         /\ Len(Declared(n, x)) = Len(scopes)
         /\ Grown(Declared(n, x), scopes)
         /\ Has(Declared(n, x), n)
         /\ Holds(Declared(n, x), n, x)
         /\ \A u, a : (\A j \in 1 .. a : u[j].name # n)
                        => SameFor(Declared(n, x), scopes, u, a)
<1> DEFINE d == Declared(n, x)
           l == Len(scopes)
<1>1. l \in Nat /\ DOMAIN scopes = 1 .. l /\ l \in 1 .. l
      /\ \A k \in 1 .. l : scopes[k] \in [Names -> {0} \cup Objects]
  BY ScopeParts
<1>2. x # 0 /\ x \in {0} \cup Objects
  BY DEF Objects
<1>3. d \in Scopes /\ Len(d) = l
  <2> DEFINE T == [Names -> {0} \cup Objects]
  <2>1. [scopes[l] EXCEPT ![n] = x] \in T
    BY <1>1, <1>2
  <2>2. d = [scopes EXCEPT ![l] = [scopes[l] EXCEPT ![n] = x]]
    BY DEF Declared
  <2>3. scopes \in Seq(T)
    BY DEF Scopes
  <2> DEFINE f == [scopes[l] EXCEPT ![n] = x]
  <2> HIDE DEF T, d, f
  <2>4. [scopes EXCEPT ![l] = f] \in Seq(T) /\ Len([scopes EXCEPT ![l] = f]) = Len(scopes)
    BY <1>1, <2>1, <2>3, ExceptSeq DEF f
  <2> QED
    BY <2>2, <2>4 DEF f, T, Scopes
<1>4. \A k \in 1 .. l : \A name \in Names :
        d[k][name] = IF k = l /\ name = n THEN x ELSE scopes[k][name]
  BY <1>1 DEF Declared
<1> HIDE DEF d
<1>5. Grown(d, scopes)
  <2>1. ASSUME NEW k \in 1 .. l, NEW name \in Names, scopes[k][name] # 0
        PROVE  d[k][name] # 0
    BY <2>1, <1>2, <1>4
  <2> QED
    BY <2>1, <1>1, <1>3 DEF Grown
<1>6. Holds(d, n, x)
  <2>1. d[l][n] = x
    BY <1>1, <1>4
  <2>2. \A h \in 1 .. Len(d) : ~(h > l)
    BY <1>1, <1>3
  <2>3. l \in 1 .. Len(d)
    BY <1>1, <1>3
  <2> HIDE DEF l
  <2> QED
    BY SMTT(30), <2>1, <2>2, <2>3, <1>2 DEF Holds
<1>7. Has(d, n)
  BY <1>6 DEF Has, Holds
<1>8. ASSUME NEW u, NEW a, \A j \in 1 .. a : u[j].name # n
      PROVE  SameFor(d, scopes, u, a)
  <2> SUFFICES ASSUME NEW k \in 1 .. l, NEW j \in 1 .. a
               PROVE  d[k][u[j].name] = scopes[k][u[j].name]
    BY DEF SameFor
  <2>1. u[j].name # n
    BY <1>8
  <2> QED
    BY <2>1, <1>1 DEF d, Declared
<1> QED
  BY <1>3, <1>5, <1>6, <1>7, <1>8 DEF d

-----------------------------------------------------------------------------
(* What RELEASE is called on.                                              *)

(* The shape of the context, as TypeOK says it.                            *)
LEMMA ContextTypes ==
  ASSUME NEW n, NEW s, NEW u, Context(n, s, u)
  PROVE  Len(s) = 1 + Cardinality({i \in DOMAIN n : n[i].kind = "block"})
<1> DEFINE p == PathTo(n, s, u)
<1>1. n \in Seq(Statements) /\ Scoped(p)
  BY DEF Context, Good
<1>2. /\ Len(n) \in Nat /\ DOMAIN n = 1 .. Len(n) /\ Len(p) = Len(n) + 1
      /\ \A k \in 1 .. Len(n) : p[k] = n[k]
      /\ p[Len(n) + 1].scopes = s
  BY <1>1, PathParts
<1> HIDE DEF p
<1>3. Len(n) + 1 - 1 = Len(n) /\ Len(n) + 1 \in 1 .. Len(p)
  BY <1>2
<1>4. BlocksBefore(p, Len(n) + 1) = {i \in DOMAIN n : n[i].kind = "block"}
  BY <1>2, <1>3 DEF BlocksBefore
<1>5. Len(p[Len(n) + 1].scopes) = 1 + Cardinality(BlocksBefore(p, Len(n) + 1))
  BY <1>1, <1>3 DEF Scoped
<1> QED
  BY <1>2, <1>4, <1>5

(* Here every name of a cleanup is found, and means its object.            *)
LEMMA HereFound ==
  ASSUME PathInv
  PROVE  /\ Len(using_cleanups) \in Nat
         /\ DOMAIN using_cleanups = 1 .. Len(using_cleanups)
         /\ \A j \in 1 .. Len(using_cleanups) :
              /\ using_cleanups[j] \in Cleanups
              /\ Lookup(using_cleanups[j].name) \in Objects
              /\ NameInv => Lookup(using_cleanups[j].name) = using_cleanups[j].object
<1> DEFINE u == using_cleanups
           p == PathTo(nest, scopes, u)
           k == Len(nest) + 1
<1>1. nest \in Seq(Statements) /\ scopes \in Scopes /\ u \in Seq(Cleanups) /\ Good(p, u)
  BY DEF PathInv, Context
<1>2. Len(u) \in Nat /\ DOMAIN u = 1 .. Len(u) /\ \A j \in 1 .. Len(u) : u[j] \in Cleanups
  BY <1>1, ElementsOf
<1>3. Len(nest) \in Nat /\ Len(p) = k /\ p[k].at = Len(u) /\ p[k].scopes = scopes
  BY <1>1, PathParts
<1>4. NameInv => Named(p, u)
  BY DEF NameInv, Meaning
<1> HIDE DEF p, u
<1>5. k \in 1 .. Len(p)
  BY <1>3
<1> HIDE DEF k
<1>6. ASSUME NEW j \in 1 .. Len(u)
      PROVE  /\ u[j] \in Cleanups
             /\ Lookup(u[j].name) \in Objects
             /\ NameInv => Lookup(u[j].name) = u[j].object
  <2>1. u[j].name \in Names
    BY <1>2 DEF Cleanups
  <2>2. Has(scopes, u[j].name)
    BY <1>1, <1>3, <1>5 DEF Good, Found
  <2>3. NameInv => Holds(scopes, u[j].name, u[j].object)
    BY <1>3, <1>4, <1>5 DEF Named, Resolved
  <2> QED
    BY <2>1, <2>2, <2>3, <1>1, <1>2, LookupIs
<1> QED
  BY <1>2, <1>6 DEF u

(* The calls made for the cleanups from the a-th on.                       *)
LEMMA Emitted ==
  ASSUME PathInv, NEW a \in 0 .. Len(using_cleanups), EmitFrom(a)
  PROVE  /\ released' \in Seq(Objects)
         /\ Len(released) \in Nat /\ Len(using_cleanups) - a \in Nat
         /\ Len(released') = Len(released) + (Len(using_cleanups) - a)
         /\ \A i \in 1 .. Len(released) : released'[i] = released[i]
         /\ NameInv => \A i \in 1 .. Len(using_cleanups) - a :
              released'[Len(released) + i]
                = using_cleanups[Len(using_cleanups) - i + 1].object
<1> DEFINE u == using_cleanups
           c == Len(u) - a
           f == SubSeq(u, a + 1, Len(u))
           g == Reverse(f)
           h == Receivers(g)
<1>1. /\ Len(u) \in Nat /\ a \in Nat /\ c \in Nat /\ c <= Len(u)
      /\ \A j \in 1 .. Len(u) :
           /\ u[j] \in Cleanups
           /\ Lookup(u[j].name) \in Objects
           /\ NameInv => Lookup(u[j].name) = u[j].object
  BY SMTT(30), HereFound
<1>2. Len(f) = c /\ \A i \in 1 .. c : f[i] = u[a + i]
  <2> DEFINE b == a + 1
             n == Len(u)
  <2>1. b \in Int /\ n \in Int /\ \A i \in b .. n : u[i] \in Cleanups
    BY <1>1
  <2>2. /\ Len(SubSeq(u, b, n)) = IF b <= n THEN n - b + 1 ELSE 0
        /\ \A i \in 1 .. n - b + 1 : SubSeq(u, b, n)[i] = u[b + i - 1]
    <3> HIDE DEF b, n, u
    <3> QED
      BY <2>1, SubSeqProperties
  <2>3. (IF b <= n THEN n - b + 1 ELSE 0) = c /\ n - b + 1 = c
    BY <1>1
  <2>4. \A i \in 1 .. c : b + i - 1 = a + i
    BY <1>1
  <2> QED
    BY <2>2, <2>3, <2>4
<1>3. DOMAIN g = 1 .. c /\ \A i \in 1 .. c : g[i] = u[Len(u) - i + 1]
  <2> HIDE DEF f
  <2>1. g = [i \in 1 .. c |-> f[c - i + 1]]
    BY <1>2 DEF Reverse
  <2>2. \A i \in 1 .. c : c - i + 1 \in 1 .. c /\ a + (c - i + 1) = Len(u) - i + 1
    BY <1>1
  <2> QED
    BY <2>1, <2>2, <1>2
<1> HIDE DEF g, f
<1>4. h = [i \in 1 .. c |-> Lookup(u[Len(u) - i + 1].name)]
  BY <1>3 DEF Receivers
<1>5. \A i \in 1 .. c : Len(u) - i + 1 \in 1 .. Len(u)
  BY <1>1
<1> HIDE DEF h
<1>6. h \in Seq(Objects) /\ Len(h) = c
  <2>1. h \in [1 .. c -> Objects]
    BY <1>1, <1>4, <1>5
  <2> HIDE DEF c
  <2> QED
    BY <2>1, <1>1
<1>7. released \in Seq(Objects) /\ released' = released \o h
  BY DEF PathInv, TypeOK, EmitFrom, h, g, f
<1>8. /\ released' \in Seq(Objects) /\ Len(released) \in Nat
      /\ Len(released') = Len(released) + c
      /\ \A i \in 1 .. Len(released) + c :
           released'[i] = IF i <= Len(released) THEN released[i]
                          ELSE h[i - Len(released)]
  <2>1. /\ released \o h \in Seq(Objects)
        /\ Len(released \o h) = Len(released) + Len(h)
        /\ \A i \in 1 .. Len(released) + Len(h) :
             (released \o h)[i] = IF i <= Len(released) THEN released[i]
                                  ELSE h[i - Len(released)]
    BY <1>6, <1>7, ConcatProperties
  <2>2. Len(released) \in Nat
    BY <1>7, LenProperties
  <2> QED
    BY <2>1, <2>2, <1>6, <1>7
<1>9. \A i \in 1 .. Len(released) : released'[i] = released[i]
  BY <1>1, <1>8
<1>10. ASSUME NameInv, NEW i \in 1 .. c
       PROVE  released'[Len(released) + i] = u[Len(u) - i + 1].object
  <2>1. /\ Len(released) + i \in 1 .. Len(released) + c
        /\ ~(Len(released) + i <= Len(released))
        /\ Len(released) + i - Len(released) = i
    BY <1>1, <1>8
  <2>2. released'[Len(released) + i] = h[i]
    BY <2>1, <1>8
  <2>3. h[i] = Lookup(u[Len(u) - i + 1].name)
    BY <1>4
  <2> QED
    BY <2>2, <2>3, <1>1, <1>5, <1>10
<1> QED
  BY <1>1, <1>8, <1>9, <1>10

(* A transfer that calls RELEASE for the cleanups from the a-th on, and    *)
(* drops them.                                                             *)
Emission(a) ==
  /\ a \in 0 .. Len(using_cleanups)
  /\ EmitFrom(a)
  /\ using_cleanups' = SubSeq(using_cleanups, 1, a)
  /\ owned' = owned /\ skipped' = skipped

(* The objects of the cleanups are in Held, and differ.                    *)
LEMMA HeldParts ==
  ASSUME PathInv
  PROVE  /\ \A x : x \in Held <=> \E j \in 1 .. Len(using_cleanups) :
                                     using_cleanups[j].object = x
         /\ \A j \in 1 .. Len(using_cleanups) : using_cleanups[j].object \in Nat
         /\ Younger(using_cleanups) =>
              \A i, j \in 1 .. Len(using_cleanups) :
                using_cleanups[i].object = using_cleanups[j].object => i = j
<1>1. /\ Len(using_cleanups) \in Nat
      /\ DOMAIN using_cleanups = 1 .. Len(using_cleanups)
      /\ \A j \in 1 .. Len(using_cleanups) : using_cleanups[j] \in Cleanups
  BY HereFound
<1>2. \A x : x \in Held <=> \E j \in 1 .. Len(using_cleanups) :
                               using_cleanups[j].object = x
  BY <1>1 DEF Held
<1>3. \A j \in 1 .. Len(using_cleanups) : using_cleanups[j].object \in Nat
  BY <1>1 DEF Cleanups, Objects
<1>4. ASSUME Younger(using_cleanups),
             NEW i \in 1 .. Len(using_cleanups), NEW j \in 1 .. Len(using_cleanups),
             using_cleanups[i].object = using_cleanups[j].object
      PROVE  i = j
  <2>1. CASE i < j
    BY <2>1, <1>3, <1>4 DEF Younger
  <2>2. CASE j < i
    BY <2>2, <1>3, <1>4 DEF Younger
  <2> QED
    BY <2>1, <2>2, <1>1
<1> QED
  BY <1>2, <1>3, <1>4

(* It releases just the objects that are no longer held.                   *)
LEMMA EmissionReleases ==
  ASSUME PathInv, NameInv, ReleaseInv, NEW a, Emission(a)
  PROVE  ReleaseInv'
<1> DEFINE u == using_cleanups
           n == Len(u)
           c == n - a
           L == Len(released)
<1>1. a \in 0 .. n /\ EmitFrom(a) /\ u' = SubSeq(u, 1, a) /\ Live' = Live
      /\ owned' = owned /\ skipped' = skipped
  BY DEF Emission, Live
<1>2. /\ released' \in Seq(Objects) /\ released \in Seq(Objects)
      /\ L \in Nat /\ c \in Nat /\ n \in Nat /\ a \in Nat /\ a <= n /\ c = n - a
      /\ Len(released') = L + c
      /\ \A i \in 1 .. L : released'[i] = released[i]
      /\ \A i \in 1 .. c : released'[L + i] = u[n - i + 1].object
  BY <1>1, Emitted, HereFound DEF PathInv, TypeOK
<1>3. /\ \A x : x \in Held <=> \E j \in 1 .. n : u[j].object = x
      /\ \A i, j \in 1 .. n : u[i].object = u[j].object => i = j
      /\ \A j \in 1 .. n : u[j].object \in Live
  BY HeldParts DEF NameInv, ReleaseInv
<1>4. ToSet(released) = Live \ Held /\ Once(released)
  BY DEF ReleaseInv
<1>5. \A x : x \in Held' <=> \E j \in 1 .. a : u[j].object = x
  <2>1. u \in Seq(Cleanups)
    BY DEF PathInv, Context
  <2>2. u' \in Seq(Cleanups) /\ Len(u') = a /\ \A j \in 1 .. a : u'[j] = u[j]
    BY <1>1, <2>1, FrontIs
  <2>3. DOMAIN u' = 1 .. a
    BY <2>2, ElementsOf
  <2> QED
    BY <2>2, <2>3 DEF Held
<1> HIDE DEF u, n, c, L
<1>6. ASSUME NEW k \in 1 .. L + c
      PROVE  \/ k \in 1 .. L /\ released'[k] = released[k]
             \/ /\ ~(k <= L) /\ k - L \in 1 .. c /\ n - (k - L) + 1 \in a + 1 .. n
                /\ released'[k] = u[n - (k - L) + 1].object
  <2>1. CASE k <= L
    BY <2>1, <1>2
  <2>2. CASE ~(k <= L)
    <3>1. k - L \in 1 .. c /\ L + (k - L) = k /\ n - (k - L) + 1 \in a + 1 .. n
      BY <2>2, <1>2
    <3> QED
      BY <2>2, <3>1, <1>2
  <2> QED
    BY <2>1, <2>2
<1>7. \A k \in 1 .. L : released[k] \in Live /\ released[k] \notin Held
  BY <1>2, <1>4, ElementIff DEF L
<1>8. a + 1 .. n \subseteq 1 .. n
  BY <1>2
<1>9. Once(released')
  <2> SUFFICES ASSUME NEW k \in 1 .. L + c, NEW l \in 1 .. L + c,
                      released'[k] = released'[l]
               PROVE  k = l
    BY <1>2 DEF Once
  <2>1. CASE k <= L /\ l <= L
    <3>1. k \in 1 .. L /\ l \in 1 .. L /\ released[k] = released[l]
      BY <2>1, <1>6
    <3> QED
      BY <3>1, <1>4 DEF Once, L
  <2>2. CASE k <= L /\ ~(l <= L)
    <3>1. k \in 1 .. L /\ released'[k] = released[k]
      BY <2>2, <1>6
    <3>2. released'[l] \in Held
      BY <2>2, <1>3, <1>6, <1>8
    <3> QED
      BY <3>1, <3>2, <1>7
  <2>3. CASE ~(k <= L) /\ l <= L
    <3>1. l \in 1 .. L /\ released'[l] = released[l]
      BY <2>3, <1>6
    <3>2. released'[k] \in Held
      BY <2>3, <1>3, <1>6, <1>8
    <3> QED
      BY <3>1, <3>2, <1>7
  <2>4. CASE ~(k <= L) /\ ~(l <= L)
    <3>1. n - (k - L) + 1 = n - (l - L) + 1
      BY <2>4, <1>3, <1>6, <1>8
    <3> QED
      BY <3>1, <1>2
  <2> QED
    BY <2>1, <2>2, <2>3, <2>4
<1>10. ASSUME NEW x
       PROVE  x \in ToSet(released') <=> x \in Live /\ x \notin Held'
  <2>1. x \in ToSet(released') <=> \E k \in 1 .. L + c : released'[k] = x
    BY <1>2, ElementIff
  <2>2. ASSUME NEW k \in 1 .. L + c, released'[k] = x
        PROVE  x \in Live /\ x \notin Held'
    <3>1. CASE k <= L
      <4>1. x \in Live /\ x \notin Held
        BY <2>2, <3>1, <1>6, <1>7
      <4>2. \A j \in 1 .. a : j \in 1 .. n
        BY <1>2
      <4> QED
        BY <4>1, <4>2, <1>3, <1>5
    <3>2. CASE ~(k <= L)
      <4> DEFINE j == n - (k - L) + 1
      <4>1. j \in a + 1 .. n /\ x = u[j].object
        BY <2>2, <3>2, <1>6
      <4> HIDE DEF j
      <4>2. \A i \in 1 .. a : i \in 1 .. n /\ i # j
        BY <4>1, <1>2
      <4> QED
        BY <4>1, <4>2, <1>3, <1>5, <1>8
    <3> QED
      BY <3>1, <3>2
  <2>3. ASSUME x \in Live, x \notin Held'
        PROVE  \E k \in 1 .. L + c : released'[k] = x
    <3>1. CASE x \notin Held
      <4>1. x \in ToSet(released)
        BY <2>3, <3>1, <1>4
      <4>2. PICK k \in 1 .. L : released[k] = x
        BY <4>1, <1>2, ElementIff DEF L
      <4>3. k \in 1 .. L + c
        BY <1>2
      <4> QED
        BY <4>2, <4>3, <1>2
    <3>2. CASE x \in Held
      <4>1. PICK j \in 1 .. n : u[j].object = x
        BY <3>2, <1>3
      <4>2. j \notin 1 .. a
        BY <2>3, <4>1, <1>5
      <4>3. n - j + 1 \in 1 .. c /\ n - (n - j + 1) + 1 = j
        BY SMTT(30), <4>2, <1>2
      <4>4. released'[L + (n - j + 1)] = x
        BY <4>1, <4>3, <1>2
      <4>5. L + (n - j + 1) \in 1 .. L + c
        BY <4>3, <1>2
      <4> QED
        BY <4>4, <4>5
    <3> QED
      BY <3>1, <3>2
  <2> QED
    BY <2>1, <2>2, <2>3
<1>11. Held' \subseteq Live' /\ skipped' \subseteq owned'
  <2>1. \A j \in 1 .. a : j \in 1 .. n
    BY <1>2
  <2>2. skipped \subseteq owned
    BY DEF ReleaseInv
  <2> QED
    BY <2>1, <2>2, <1>1, <1>3, <1>5
<1>12. ToSet(released') = Live' \ Held'
  BY <1>1, <1>10
<1> QED
  BY <1>9, <1>11, <1>12 DEF ReleaseInv

(* It calls RELEASE on the youngest object first.                          *)
LEMMA EmissionFalls ==
  ASSUME PathInv, NameInv, NEW a, Emission(a)
  PROVE  \A i, j \in Len(released) + 1 .. Len(released') :
           i < j => released'[i] > released'[j]
<1> DEFINE u == using_cleanups
           n == Len(u)
           c == n - a
           L == Len(released)
<1>1. a \in 0 .. n /\ EmitFrom(a)
  BY DEF Emission
<1>2. /\ L \in Nat /\ c \in Nat /\ n \in Nat /\ a \in Nat /\ c = n - a
      /\ Len(released') = L + c
      /\ \A i \in 1 .. c : released'[L + i] = u[n - i + 1].object
  BY <1>1, Emitted, HereFound
<1>3. /\ \A i, j \in 1 .. n : i < j => u[i].object < u[j].object
      /\ \A i \in 1 .. n : u[i].object \in Nat
  BY HeldParts DEF NameInv, Younger
<1> HIDE DEF u, n, c, L
<1>4. ASSUME NEW i \in L + 1 .. L + c, NEW j \in L + 1 .. L + c, i < j
      PROVE  released'[i] > released'[j]
  <2> DEFINE k == i - L
             l == j - L
  <2>1. k \in 1 .. c /\ l \in 1 .. c /\ k < l /\ L + k = i /\ L + l = j
    BY <1>2, <1>4
  <2> HIDE DEF k, l
  <2>2. released'[i] = u[n - k + 1].object /\ released'[j] = u[n - l + 1].object
    BY <2>1, <1>2
  <2>3. n - k + 1 \in 1 .. n /\ n - l + 1 \in 1 .. n /\ n - l + 1 < n - k + 1
    BY <2>1, <1>2
  <2> QED
    BY <2>2, <2>3, <1>3
<1> QED
  BY <1>2, <1>4 DEF L

-----------------------------------------------------------------------------
(* The steps keep the invariant.                                           *)

LEMMA IInvInit == Init => IInv
<1> SUFFICES ASSUME Init
             PROVE  IInv
  OBVIOUS
<1> DEFINE p == PathTo(nest, scopes, using_cleanups)
<1>1. /\ nest = <<>> /\ using_cleanups = <<>> /\ scopes = <<EmptyScope>>
      /\ bound = 0 /\ owned = {} /\ released = <<>> /\ done = FALSE
  BY DEF Init
<1>2. /\ nest \in Seq(Statements) /\ using_cleanups \in Seq(Cleanups)
      /\ released \in Seq(Objects)
      /\ Len(nest) = 0 /\ Len(using_cleanups) = 0
  BY <1>1
<1>3. scopes \in Scopes /\ Len(scopes) = 1
  <2>1. EmptyScope \in [Names -> {0} \cup Objects]
    BY DEF EmptyScope
  <2> QED
    BY <2>1, <1>1 DEF Scopes
<1>4. Len(p) = 1 /\ p[1].at = 0 /\ p[1].scopes = scopes
  <2>1. /\ Len(p) = Len(nest) + 1
        /\ p[Len(nest) + 1].at = Len(using_cleanups)
        /\ p[Len(nest) + 1].scopes = scopes
    <3>1. nest \in Seq(Statements)
      BY <1>2
    <3> QED
      BY <3>1, PathParts
  <2>2. Len(nest) + 1 = 1
    BY <1>2
  <2> HIDE DEF p
  <2> QED
    BY <2>1, <2>2, <1>2
<1> HIDE DEF p
<1>5. \A k \in 1 .. Len(p) : k = 1
  BY <1>4
<1>6. Typed(p, using_cleanups)
  BY <1>2, <1>3, <1>4, <1>5 DEF Typed
<1>7. Scoped(p)
  <2>1. BlocksBefore(p, 1) = {}
    BY DEF BlocksBefore
  <2>2. Cardinality(BlocksBefore(p, 1)) = 0
    BY <2>1, FS_EmptySet
  <2>3. Len(p[1].scopes) = 1 + Cardinality(BlocksBefore(p, 1))
    BY <2>2, <1>3, <1>4
  <2> QED
    BY <2>3, <1>5 DEF Scoped
<1>8. Counting(p)
  BY <1>4, <1>5 DEF Counting
<1>9. Growing(p)
  BY <1>3, <1>4, <1>5, ScopeParts DEF Growing, Grown
<1>10. Found(p, using_cleanups)
  BY <1>4, <1>5 DEF Found
<1>11. Context(nest, scopes, using_cleanups)
  BY <1>2, <1>3, <1>6, <1>7, <1>8, <1>9, <1>10 DEF Context, Good, p
<1>12. TypeOK
  <2>0. shadowed \in BOOLEAN /\ skipped \subseteq Objects
    BY DEF Init
  <2>1. bound \in 0 .. MaxObjects /\ owned \subseteq 1 .. bound /\ done \in BOOLEAN
    <3>1. bound = 0 /\ owned = {} /\ done = FALSE /\ MaxObjects \in Nat
      BY <1>1, UsingAssumption
    <3>2. bound \in 0 .. MaxObjects /\ owned \subseteq 1 .. bound
      BY <3>1
    <3>3. done \in BOOLEAN
      BY <3>1
    <3> QED
      BY <3>2, <3>3
  <2>2. Len(scopes) = 1 + Cardinality({i \in DOMAIN nest : nest[i].kind = "block"})
    BY <1>11, ContextTypes
  <2> QED
    BY <2>0, <2>1, <2>2, <1>2, <1>3 DEF TypeOK
<1>13. Meaning(nest, scopes, using_cleanups)
  <2>1. Agreeing(p, using_cleanups)
    BY <1>4, <1>5 DEF Agreeing, SameFor
  <2>2. Resolved(p, using_cleanups)
    BY <1>4, <1>5 DEF Resolved
  <2> QED
    BY <2>1, <2>2 DEF Meaning, Named, p
<1>14. Younger(using_cleanups) /\ Owning
  BY <1>1, <1>2 DEF Younger, Owning, Held
<1> QED
  BY <1>11, <1>12, <1>13, <1>14 DEF IInv, PathInv, NameInv

(* Dropping cleanups from the inner end.                                   *)
LEMMA Dropped ==
  ASSUME IInv, NEW a \in 0 .. Len(using_cleanups),
         using_cleanups' = SubSeq(using_cleanups, 1, a), owned' = owned
  PROVE  ~shadowed => Younger(using_cleanups') /\ Owning'
<1>1. using_cleanups \in Seq(Cleanups) /\ Len(using_cleanups) \in Nat
  <2>1. using_cleanups \in Seq(Cleanups)
    BY DEF IInv, PathInv, Context
  <2> QED
    BY <2>1, ElementsOf
<1>2. ASSUME ~shadowed
      PROVE  Younger(using_cleanups') /\ Owning'
  <2>1. /\ Len(using_cleanups') = a
        /\ \A j \in 1 .. a : using_cleanups'[j] = using_cleanups[j]
        /\ using_cleanups' \in Seq(Cleanups)
    BY <1>1, FrontIs
  <2>2. \A j \in 1 .. a : j \in 1 .. Len(using_cleanups)
    BY <1>1
  <2>3. Younger(using_cleanups')
    BY <2>1, <2>2, <1>2 DEF IInv, NameInv, Younger
  <2>4. \A j \in 1 .. Len(using_cleanups) : using_cleanups[j].object \in owned
    BY <1>2, HeldParts DEF IInv, NameInv, Owning
  <2>5. DOMAIN using_cleanups' = 1 .. a
    BY <2>1, ElementsOf
  <2>6. Owning'
    BY <2>1, <2>2, <2>4, <2>5 DEF Owning, Held
  <2> QED
    BY <2>3, <2>6
<1> QED
  BY <1>2

(* A step that goes back to the m-th point of the path.                    *)
LEMMA StepBack ==
  ASSUME IInv, NEW m \in 1 .. Len(nest) + 1, NEW a,
         a = PathTo(nest, scopes, using_cleanups)[m].at,
         nest' = SubSeq(nest, 1, m - 1),
         using_cleanups' = SubSeq(using_cleanups, 1, a),
         scopes' \in Scopes,
         Len(scopes') = Len(PathTo(nest, scopes, using_cleanups)[m].scopes),
         Grown(scopes', PathTo(nest, scopes, using_cleanups)[m].scopes),
         ~shadowed' =>
           SameFor(scopes', PathTo(nest, scopes, using_cleanups)[m].scopes,
                   using_cleanups, a),
         bound' \in bound .. MaxObjects, owned' = owned,
         released' \in Seq(Objects), done' \in BOOLEAN, Notes
  PROVE  IInv'
<1>1. /\ Context(nest, scopes, using_cleanups)
      /\ nest \in Seq(Statements) /\ using_cleanups \in Seq(Cleanups)
      /\ bound \in Nat /\ MaxObjects \in Nat /\ owned \subseteq 1 .. bound
  BY UsingAssumption DEF IInv, PathInv, Context, TypeOK
<1>2. a \in 0 .. Len(using_cleanups) /\ Len(using_cleanups) \in Nat
  BY <1>1, ContextScopes
<1>3. /\ Context(nest', scopes', using_cleanups')
      /\ ~shadowed' => Meaning(nest', scopes', using_cleanups')
  <2>1. ~shadowed' => Meaning(nest, scopes, using_cleanups)
    BY DEF IInv, NameInv, Notes
  <2> QED
    BY <1>1, <2>1, ContextBack
<1>4. TypeOK'
  <2>1. bound' \in 0 .. MaxObjects /\ owned' \subseteq 1 .. bound'
    BY <1>1
  <2>2. Len(scopes') = 1 + Cardinality({i \in DOMAIN nest' : nest'[i].kind = "block"})
    BY <1>3, ContextTypes
  <2>3. nest' \in Seq(Statements) /\ using_cleanups' \in Seq(Cleanups)
    BY <1>3 DEF Context
  <2> QED
    BY <2>1, <2>2, <2>3 DEF TypeOK, Notes
<1>5. ~shadowed' => Younger(using_cleanups') /\ Owning'
  BY <1>2, Dropped DEF Notes
<1> QED
  BY <1>3, <1>4, <1>5 DEF IInv, PathInv, NameInv

(* What the entry of an open statement says of the cleanups.               *)
LEMMA EntryParts ==
  ASSUME IInv, NEW i \in DOMAIN nest
  PROVE  /\ Len(nest) \in Nat /\ i \in 1 .. Len(nest)
         /\ PathTo(nest, scopes, using_cleanups)[i] = nest[i]
         /\ nest[i] \in Statements
         /\ Len(using_cleanups) \in Nat
         /\ nest[i].at \in 0 .. Len(using_cleanups)
         /\ (\A k \in i .. Len(nest) : ~IsUsing(nest[k]))
              => nest[i].at = Len(using_cleanups)
         /\ IsUsing(nest[i]) /\ i = Len(nest) => nest[i].at = Len(using_cleanups) - 1
<1> DEFINE p == PathTo(nest, scopes, using_cleanups)
<1>1. nest \in Seq(Statements) /\ Good(p, using_cleanups)
  BY DEF IInv, PathInv, Context
<1>2. /\ Len(nest) \in Nat /\ DOMAIN nest = 1 .. Len(nest) /\ Len(p) = Len(nest) + 1
      /\ \A k \in 1 .. Len(nest) : p[k] = nest[k] /\ nest[k] \in Statements
      /\ p[Len(nest) + 1].at = Len(using_cleanups)
  BY <1>1, PathParts
<1> HIDE DEF p
<1>3. /\ i \in 1 .. Len(nest) /\ i \in 1 .. Len(p) /\ Len(nest) + 1 \in 1 .. Len(p)
      /\ i <= Len(nest) + 1 /\ Len(nest) + 1 - 1 = Len(nest)
  BY <1>2
<1>4. Len(using_cleanups) \in Nat /\ p[i].at \in 0 .. Len(using_cleanups)
  BY <1>1, <1>3 DEF Good, Typed
<1>5. ASSUME \A k \in i .. Len(nest) : ~IsUsing(nest[k])
      PROVE  nest[i].at = Len(using_cleanups)
  <2>1. \A k \in i .. Len(nest) : ~IsUsing(p[k])
    BY <1>2, <1>3, <1>5
  <2>2. \A k \in i .. Len(nest) + 1 - 1 : ~IsUsing(p[k])
    BY <2>1, <1>3
  <2> DEFINE e == Len(nest) + 1
  <2>3. e \in 1 .. Len(p) /\ i \in 1 .. Len(p) /\ i <= e
        /\ \A k \in i .. e - 1 : ~IsUsing(p[k])
    BY <2>2, <1>3
  <2>4. p[e].at = Len(using_cleanups)
    BY <1>2
  <2> HIDE DEF e
  <2>5. \A j, k \in 1 .. Len(p) : j <= k =>
          ((\A l \in j .. k - 1 : ~IsUsing(p[l])) => p[j].at = p[k].at)
    BY <1>1 DEF Good, Counting
  <2>6. p[i].at = p[e].at
    BY <2>3, <2>5
  <2> QED
    BY <2>4, <2>6, <1>2, <1>3
<1>6. ASSUME IsUsing(nest[i]), i = Len(nest)
      PROVE  nest[i].at = Len(using_cleanups) - 1
  <2>1. i \in 1 .. Len(p) - 1 /\ IsUsing(p[i])
    BY <1>2, <1>3, <1>6
  <2>2. p[i + 1].at = p[i].at + 1
    BY <2>1, <1>1 DEF Good, Counting
  <2> QED
    BY <2>2, <1>2, <1>3, <1>4, <1>6
<1> QED
  BY <1>2, <1>3, <1>4, <1>5, <1>6 DEF p

(* Leaving the i-th statement keeps the invariant.                         *)
LEMMA CloseKeeps ==
  ASSUME IInv, NEW i \in DOMAIN nest, Close(i),
         bound' = bound, owned' = owned,
         released' \in Seq(Objects), done' \in BOOLEAN, Notes
  PROVE  IInv'
<1> DEFINE p == PathTo(nest, scopes, using_cleanups)
<1>1. /\ Context(nest, scopes, using_cleanups)
      /\ ~shadowed => Meaning(nest, scopes, using_cleanups)
      /\ bound \in 0 .. MaxObjects /\ MaxObjects \in Nat
  BY UsingAssumption DEF IInv, PathInv, NameInv, TypeOK
<1>2. i \in 1 .. Len(nest) + 1 /\ p[i] = nest[i]
  BY EntryParts
<1>3. /\ nest' = SubSeq(nest, 1, i - 1)
      /\ using_cleanups' = SubSeq(using_cleanups, 1, p[i].at)
      /\ scopes' = SubSeq(scopes, 1, Len(p[i].scopes))
  BY <1>2 DEF Close
<1>4. /\ scopes' \in Scopes /\ Len(scopes') = Len(p[i].scopes)
      /\ Grown(scopes', p[i].scopes)
      /\ ~shadowed' => SameFor(scopes', p[i].scopes, using_cleanups, p[i].at)
  <2>1. scopes' =
          SubSeq(scopes, 1, Len(PathTo(nest, scopes, using_cleanups)[i].scopes))
    BY <1>3
  <2>2. /\ scopes' \in Scopes
        /\ Len(scopes') = Len(PathTo(nest, scopes, using_cleanups)[i].scopes)
        /\ Grown(scopes', PathTo(nest, scopes, using_cleanups)[i].scopes)
        /\ Meaning(nest, scopes, using_cleanups) =>
             SameFor(scopes', PathTo(nest, scopes, using_cleanups)[i].scopes,
                     using_cleanups, PathTo(nest, scopes, using_cleanups)[i].at)
    <3>1. Context(nest, scopes, using_cleanups) /\ i \in 1 .. Len(nest) + 1
      BY <1>1, <1>2
    <3> HIDE DEF p
    <3> QED
      BY <3>1, <2>1, Truncated
  <2> QED
    BY <2>2, <1>1 DEF Notes
<1>5. bound' \in bound .. MaxObjects
  BY <1>1
<1> QED
  BY <1>2, <1>3, <1>4, <1>5, StepBack

(* The parts the invariant is put together from.                           *)
LEMMA IInvAgain ==
  ASSUME Context(nest', scopes', using_cleanups'),
         bound' \in 0 .. MaxObjects, owned' \subseteq 1 .. bound',
         released' \in Seq(Objects), done' \in BOOLEAN, Notes,
         ~shadowed' => /\ Meaning(nest', scopes', using_cleanups')
                       /\ Younger(using_cleanups') /\ Owning'
  PROVE  IInv'
<1>1. Len(scopes') = 1 + Cardinality({i \in DOMAIN nest' : nest'[i].kind = "block"})
  BY ContextTypes
<1>2. nest' \in Seq(Statements) /\ scopes' \in Scopes /\ using_cleanups' \in Seq(Cleanups)
  BY DEF Context
<1>3. TypeOK'
  BY <1>1, <1>2 DEF TypeOK, Notes
<1> QED
  BY <1>3 DEF IInv, PathInv, NameInv

(* What the invariant says of the context.                                 *)
LEMMA ContextHere ==
  ASSUME IInv
  PROVE  /\ Context(nest, scopes, using_cleanups)
         /\ nest \in Seq(Statements) /\ scopes \in Scopes
         /\ using_cleanups \in Seq(Cleanups)
         /\ Len(nest) \in Nat /\ Len(scopes) \in Nat /\ Len(scopes) >= 1
         /\ Len(using_cleanups) \in Nat /\ Len(using_cleanups) <= Len(nest)
         /\ bound \in Nat /\ bound <= MaxObjects /\ MaxObjects \in Nat
         /\ MaxDepth \in Nat
         /\ owned \subseteq 1 .. bound /\ released \in Seq(Objects)
         /\ shadowed \in BOOLEAN /\ skipped \subseteq Objects
         /\ ~shadowed => /\ Meaning(nest, scopes, using_cleanups)
                         /\ Younger(using_cleanups) /\ Owning
<1> DEFINE p == PathTo(nest, scopes, using_cleanups)
           m == Len(nest) + 1
<1>1. /\ Context(nest, scopes, using_cleanups) /\ TypeOK
      /\ ~shadowed => /\ Meaning(nest, scopes, using_cleanups)
                       /\ Younger(using_cleanups) /\ Owning
  BY DEF IInv, PathInv, NameInv
<1>2. nest \in Seq(Statements) /\ scopes \in Scopes /\ using_cleanups \in Seq(Cleanups)
  BY <1>1 DEF Context
<1>3. Len(nest) \in Nat /\ p[m].scopes = scopes /\ p[m].at = Len(using_cleanups)
  BY <1>2, PathParts
<1>4. m \in 1 .. Len(nest) + 1 /\ m - 1 = Len(nest)
  BY <1>3
<1> HIDE DEF m
<1>5. /\ Len(p[m].scopes) \in Nat /\ Len(p[m].scopes) >= 1 /\ p[m].at <= m - 1
      /\ Len(using_cleanups) \in Nat
  BY <1>1, <1>4, ContextScopes
<1> HIDE DEF p
<1>6. bound \in Nat /\ bound <= MaxObjects /\ MaxObjects \in Nat /\ MaxDepth \in Nat
      /\ owned \subseteq 1 .. bound /\ released \in Seq(Objects)
      /\ shadowed \in BOOLEAN /\ skipped \subseteq Objects
  BY <1>1, UsingAssumption DEF TypeOK
<1> QED
  BY <1>1, <1>2, <1>3, <1>4, <1>5, <1>6

(* The history when nothing is noted.                                      *)
LEMMA NothingNoted ==
  ASSUME IInv, shadowed' = shadowed, skipped' = skipped
  PROVE  Notes
  BY ContextHere DEF Notes

(* Opening a statement keeps the context.                                  *)
LEMMA StepOpen ==
  ASSUME IInv, Notes, NEW kind \in Kinds, Open(kind),
         scopes' \in Scopes, Grown(scopes', scopes),
         Len(scopes') = Len(scopes) + (IF kind = "block" THEN 1 ELSE 0),
         using_cleanups' \in Seq(Cleanups),
         Len(using_cleanups') = Len(using_cleanups) + (IF kind = "using" THEN 1 ELSE 0),
         \A j \in 1 .. Len(using_cleanups) : using_cleanups'[j] = using_cleanups[j],
         kind = "using" => Has(scopes', using_cleanups'[Len(using_cleanups')].name)
  PROVE  /\ Context(nest', scopes', using_cleanups')
         /\ /\ ~shadowed'
            /\ SameFor(scopes', scopes, using_cleanups, Len(using_cleanups))
            /\ kind = "block" => \A name \in Names : scopes'[Len(scopes')][name] = 0
            /\ kind = "using" =>
                 Holds(scopes', using_cleanups'[Len(using_cleanups')].name,
                       using_cleanups'[Len(using_cleanups')].object)
            => Meaning(nest', scopes', using_cleanups')
<1> DEFINE e == [kind |-> kind, at |-> Len(using_cleanups), scopes |-> scopes]
<1>1. /\ nest' = Append(nest, e) /\ Len(nest) < MaxDepth
      /\ e.kind = kind /\ e.at = Len(using_cleanups) /\ e.scopes = scopes
  BY DEF Open
<1>2. /\ Context(nest, scopes, using_cleanups)
      /\ ~shadowed => Meaning(nest, scopes, using_cleanups)
      /\ Len(using_cleanups) \in 0 .. MaxDepth /\ scopes \in Scopes
  BY <1>1, ContextHere
<1>3. e \in Statements
  BY <1>2 DEF Statements
<1> HIDE DEF e
<1>4. /\ Context(Append(nest, e), scopes', using_cleanups')
      /\ /\ Meaning(nest, scopes, using_cleanups)
         /\ SameFor(scopes', scopes, using_cleanups, Len(using_cleanups))
         /\ kind = "block" => \A name \in Names : scopes'[Len(scopes')][name] = 0
         /\ kind = "using" =>
              Holds(scopes', using_cleanups'[Len(using_cleanups')].name,
                    using_cleanups'[Len(using_cleanups')].object)
         => Meaning(Append(nest, e), scopes', using_cleanups')
  BY <1>1, <1>2, <1>3, ContextOpen
<1> QED
  BY <1>1, <1>2, <1>4 DEF Notes

LEMMA EnterKeeps ==
  ASSUME IInv, Enter
  PROVE  IInv'
<1>1. PICK kind \in Kinds \ {"using"} :
        /\ Open(kind)
        /\ scopes' = IF kind = "block" THEN Append(scopes, EmptyScope) ELSE scopes
  BY DEF Enter
<1>2. UNCHANGED <<using_cleanups, bound, owned, released, done, shadowed, skipped>>
  BY <1>1 DEF Enter, Open
<1>3. /\ scopes \in Scopes /\ using_cleanups \in Seq(Cleanups)
      /\ Len(using_cleanups) \in Nat /\ Len(scopes) \in Nat
      /\ bound \in 0 .. MaxObjects /\ owned \subseteq 1 .. bound
      /\ released \in Seq(Objects)
      /\ ~shadowed => Younger(using_cleanups) /\ Owning
  BY ContextHere
<1>4. /\ scopes' \in Scopes /\ Grown(scopes', scopes)
      /\ Len(scopes') = Len(scopes) + (IF kind = "block" THEN 1 ELSE 0)
      /\ SameFor(scopes', scopes, using_cleanups, Len(using_cleanups))
      /\ kind = "block" => \A name \in Names : scopes'[Len(scopes')][name] = 0
  <2>1. CASE kind = "block"
    <3> DEFINE T == [Names -> {0} \cup Objects]
    <3>1. EmptyScope \in T /\ scopes \in Seq(T)
      BY <1>3 DEF EmptyScope, Scopes
    <3>2. scopes' = Append(scopes, EmptyScope)
      BY <1>1, <2>1
    <3> HIDE DEF T
    <3>3. /\ scopes' \in Seq(T) /\ Len(scopes') = Len(scopes) + 1
          /\ \A i \in 1 .. Len(scopes) : scopes'[i] = scopes[i]
          /\ scopes'[Len(scopes) + 1] = EmptyScope
      BY <3>1, <3>2, AppendProperties
    <3>4. scopes' \in Scopes
      BY <3>3 DEF Scopes, T
    <3>5. Grown(scopes', scopes)
      BY <3>3, <1>3 DEF Grown
    <3>6. SameFor(scopes', scopes, using_cleanups, Len(using_cleanups))
      BY <3>3 DEF SameFor
    <3>7. \A name \in Names : scopes'[Len(scopes')][name] = 0
      BY <3>3 DEF EmptyScope
    <3> QED
      BY <2>1, <3>3, <3>4, <3>5, <3>6, <3>7
  <2>2. CASE kind # "block"
    <3>1. scopes' = scopes
      BY <1>1, <2>2
    <3> QED
      BY <2>2, <3>1, <1>3 DEF Grown, SameFor
  <2> QED
    BY <2>1, <2>2
<1>5. /\ Context(nest', scopes', using_cleanups')
      /\ ~shadowed' => Meaning(nest', scopes', using_cleanups')
  <2>1. /\ using_cleanups' \in Seq(Cleanups) /\ kind # "using"
        /\ Len(using_cleanups') = Len(using_cleanups) + (IF kind = "using" THEN 1 ELSE 0)
        /\ \A j \in 1 .. Len(using_cleanups) : using_cleanups'[j] = using_cleanups[j]
    BY <1>2, <1>3
  <2>2. Notes
    BY <1>2, NothingNoted
  <2> QED
    BY <2>1, <2>2, <1>1, <1>4, StepOpen
<1>6. ~shadowed' => Younger(using_cleanups') /\ Owning'
  BY <1>2, <1>3 DEF Owning, Held
<1>7. done' \in BOOLEAN /\ Notes
  BY <1>2, NothingNoted DEF IInv, PathInv, TypeOK
<1> QED
  BY <1>2, <1>3, <1>5, <1>6, <1>7, IInvAgain

(* What a binding does.                                                    *)
LEMMA Bound ==
  ASSUME IInv, NEW n \in Names, Bind(n)
  PROVE  /\ bound \in Nat /\ bound' = bound + 1 /\ bound + 1 \in Objects
         /\ bound' \in bound .. MaxObjects
         /\ scopes' \in Scopes /\ Len(scopes') = Len(scopes)
         /\ Grown(scopes', scopes)
         /\ Has(scopes', n) /\ Holds(scopes', n, bound + 1)
         /\ (shadowed => shadowed') /\ shadowed' \in BOOLEAN
         /\ ~shadowed' =>
              SameFor(scopes', scopes, using_cleanups, Len(using_cleanups))
<1>1. /\ scopes \in Scopes /\ Len(scopes) >= 1
      /\ bound \in Nat /\ bound <= MaxObjects /\ MaxObjects \in Nat
      /\ using_cleanups \in Seq(Cleanups)
  BY ContextHere
<1>2. /\ bound < MaxObjects /\ bound' = bound + 1
      /\ scopes' = Declared(n, bound + 1)
      /\ (shadowed => shadowed') /\ shadowed' \in BOOLEAN
      /\ ~shadowed' => \A j \in DOMAIN using_cleanups : using_cleanups[j].name # n
  BY ContextHere DEF Bind
<1>3. bound + 1 \in Objects /\ bound' \in bound .. MaxObjects
  BY <1>1, <1>2 DEF Objects
<1>4. DOMAIN using_cleanups = 1 .. Len(using_cleanups)
  BY <1>1, ElementsOf
<1>5. /\ scopes' \in Scopes /\ Len(scopes') = Len(scopes)
      /\ Grown(scopes', scopes)
      /\ Has(scopes', n) /\ Holds(scopes', n, bound + 1)
  BY <1>1, <1>2, <1>3, DeclaredIs
<1>6. ASSUME ~shadowed'
      PROVE  SameFor(scopes', scopes, using_cleanups, Len(using_cleanups))
  <2>1. \A j \in 1 .. Len(using_cleanups) : using_cleanups[j].name # n
    BY <1>2, <1>4, <1>6
  <2>2. SameFor(Declared(n, bound + 1), scopes, using_cleanups, Len(using_cleanups))
    BY <1>1, <1>3, <2>1, DeclaredIs
  <2> QED
    BY <1>2, <2>2
<1> QED
  BY <1>1, <1>2, <1>3, <1>5, <1>6

LEMMA LetKeeps ==
  ASSUME IInv, Let
  PROVE  IInv'
<1>1. PICK n \in Names : Bind(n)
  BY DEF Let
<1>2. UNCHANGED <<nest, using_cleanups, owned, released, done, skipped>>
  BY DEF Let
<1> DEFINE p == PathTo(nest, scopes, using_cleanups)
           m == Len(nest) + 1
<1>3. /\ nest \in Seq(Statements) /\ using_cleanups \in Seq(Cleanups)
      /\ Len(nest) \in Nat /\ released \in Seq(Objects)
  BY ContextHere
<1>4. p[m].at = Len(using_cleanups) /\ p[m].scopes = scopes
  BY <1>3, PathParts
<1>5. m \in 1 .. Len(nest) + 1 /\ m - 1 = Len(nest)
  BY <1>3
<1>6. /\ nest' = SubSeq(nest, 1, Len(nest))
      /\ using_cleanups' = SubSeq(using_cleanups, 1, Len(using_cleanups))
  BY <1>2, <1>3, SubSeqFull
<1>7. /\ done' \in BOOLEAN /\ released' \in Seq(Objects) /\ owned' = owned
      /\ Notes
  <2>1. Notes
    BY <1>1, <1>2, Bound, ContextHere DEF Notes
  <2> QED
    BY <1>2, <2>1 DEF IInv, PathInv, TypeOK
<1> HIDE DEF m
<1>8. /\ nest' = SubSeq(nest, 1, m - 1)
      /\ using_cleanups' = SubSeq(using_cleanups, 1, p[m].at)
  BY <1>4, <1>5, <1>6
<1>9. /\ bound' \in bound .. MaxObjects
      /\ scopes' \in Scopes /\ Len(scopes') = Len(p[m].scopes)
      /\ Grown(scopes', p[m].scopes)
      /\ ~shadowed' => SameFor(scopes', p[m].scopes, using_cleanups, p[m].at)
  BY <1>1, <1>4, Bound
<1> QED
  BY <1>5, <1>7, <1>8, <1>9, StepBack

LEMMA EnterUsingKeeps ==
  ASSUME IInv, EnterUsing
  PROVE  IInv'
<1>1. PICK n \in Names :
        /\ Bind(n) /\ Open("using")
        /\ using_cleanups' =
             Append(using_cleanups, [name |-> n, object |-> bound + 1])
  BY DEF EnterUsing
<1> DEFINE c == [name |-> n, object |-> bound + 1]
<1>2. /\ scopes \in Scopes /\ using_cleanups \in Seq(Cleanups)
      /\ Len(using_cleanups) \in Nat
      /\ bound \in Nat /\ MaxObjects \in Nat /\ owned \subseteq 1 .. bound
      /\ released \in Seq(Objects)
      /\ ~shadowed => Younger(using_cleanups) /\ Owning
  BY ContextHere
<1>3. /\ bound' = bound + 1 /\ bound + 1 \in Objects
      /\ bound' \in bound .. MaxObjects
      /\ scopes' \in Scopes /\ Len(scopes') = Len(scopes)
      /\ Grown(scopes', scopes)
      /\ Has(scopes', n) /\ Holds(scopes', n, bound + 1)
      /\ (shadowed => shadowed') /\ shadowed' \in BOOLEAN
      /\ ~shadowed' =>
           SameFor(scopes', scopes, using_cleanups, Len(using_cleanups))
  BY <1>1, Bound
<1>4. c \in Cleanups /\ c.name = n /\ c.object = bound + 1
  BY <1>3 DEF Cleanups
<1>5. /\ owned' = owned \cup {bound + 1}
      /\ released' = released /\ done' = done /\ skipped' = skipped
  BY <1>1 DEF EnterUsing, Open
<1>6. using_cleanups' = Append(using_cleanups, c)
  BY <1>1
<1> HIDE DEF c
<1>7. /\ using_cleanups' \in Seq(Cleanups)
      /\ Len(using_cleanups') = Len(using_cleanups) + 1
      /\ \A j \in 1 .. Len(using_cleanups) : using_cleanups'[j] = using_cleanups[j]
      /\ using_cleanups'[Len(using_cleanups) + 1] = c
  BY SMTT(30), <1>2, <1>4, <1>6, AppendProperties
<1>n. Notes
  BY <1>3, <1>5, ContextHere DEF Notes
<1>8. /\ Context(nest', scopes', using_cleanups')
      /\ ~shadowed' => Meaning(nest', scopes', using_cleanups')
  <2> DEFINE kind == "using"
  <2>1. /\ kind \in Kinds /\ Open(kind) /\ kind # "block"
    BY <1>1 DEF Kinds
  <2>2. /\ Len(scopes') = Len(scopes) + (IF kind = "block" THEN 1 ELSE 0)
        /\ Len(using_cleanups') = Len(using_cleanups) + (IF kind = "using" THEN 1 ELSE 0)
        /\ Has(scopes', using_cleanups'[Len(using_cleanups')].name)
        /\ Holds(scopes', using_cleanups'[Len(using_cleanups')].name,
                 using_cleanups'[Len(using_cleanups')].object)
    <3>1. Len(scopes) \in Nat
      BY <1>2, ScopeParts
    <3>2. using_cleanups'[Len(using_cleanups')] = c
      BY <1>7
    <3> QED
      BY <3>1, <3>2, <1>3, <1>4, <1>7
  <2> HIDE DEF kind
  <2> QED
    BY <2>1, <2>2, <1>n, <1>3, <1>7, StepOpen
<1>9. ASSUME ~shadowed'
      PROVE  Younger(using_cleanups') /\ Owning'
  <2>1. Younger(using_cleanups) /\ Held \subseteq owned
    BY <1>2, <1>3, <1>9 DEF Owning
  <2>2. /\ \A x : x \in Held <=> \E j \in 1 .. Len(using_cleanups) :
                                   using_cleanups[j].object = x
        /\ \A j \in 1 .. Len(using_cleanups) : using_cleanups[j].object \in Nat
    BY HeldParts DEF IInv
  <2>3. \A j \in 1 .. Len(using_cleanups) :
          using_cleanups[j].object \in owned /\ using_cleanups[j].object <= bound
    BY <2>1, <2>2, <1>2
  <2>4. \A j \in 1 .. Len(using_cleanups') :
          j \in 1 .. Len(using_cleanups) \/ j = Len(using_cleanups) + 1
    BY <1>2, <1>7
  <2>5. Younger(using_cleanups')
    <3> SUFFICES ASSUME NEW i \in 1 .. Len(using_cleanups'),
                        NEW j \in 1 .. Len(using_cleanups'), i < j
                 PROVE  using_cleanups'[i].object < using_cleanups'[j].object
      BY DEF Younger
    <3>1. i \in 1 .. Len(using_cleanups)
      BY <1>2, <1>7
    <3>2. CASE j \in 1 .. Len(using_cleanups)
      BY <3>1, <3>2, <2>1, <1>7 DEF Younger
    <3>3. CASE j = Len(using_cleanups) + 1
      <4>1. using_cleanups'[j].object = bound + 1
        BY <3>3, <1>4, <1>7
      <4>2. using_cleanups'[i].object = using_cleanups[i].object
        BY <3>1, <1>7
      <4> QED
        BY <3>1, <4>1, <4>2, <2>2, <2>3, <1>2
    <3> QED
      BY <3>2, <3>3, <2>4
  <2>6. \A j \in 1 .. Len(using_cleanups') : using_cleanups'[j].object \in owned'
    <3> TAKE j \in 1 .. Len(using_cleanups')
    <3>1. CASE j \in 1 .. Len(using_cleanups)
      BY <3>1, <2>3, <1>5, <1>7
    <3>2. CASE j = Len(using_cleanups) + 1
      BY <3>2, <1>4, <1>5, <1>7
    <3> QED
      BY <3>1, <3>2, <2>4
  <2>7. DOMAIN using_cleanups' = 1 .. Len(using_cleanups')
    BY <1>7, ElementsOf
  <2> QED
    BY <2>5, <2>6, <2>7 DEF Owning, Held
<1>10. /\ bound' \in 0 .. MaxObjects /\ owned' \subseteq 1 .. bound'
       /\ released' \in Seq(Objects) /\ done' \in BOOLEAN
  <2>1. bound' \in 0 .. MaxObjects
    BY <1>2, <1>3
  <2>2. owned' \subseteq 1 .. bound'
    BY <1>2, <1>3, <1>5
  <2>3. done' \in BOOLEAN
    BY <1>5 DEF IInv, PathInv, TypeOK
  <2> QED
    BY <2>1, <2>2, <2>3, <1>2, <1>5
<1> QED
  BY <1>n, <1>8, <1>9, <1>10, IInvAgain

(* Going on with the next round of a loop.                                 *)
LEMMA LoopKeeps ==
  ASSUME IInv, NEW i \in DOMAIN nest,
         nest[i].kind = "loop",
         nest' = SubSeq(nest, 1, i),
         using_cleanups' = SubSeq(using_cleanups, 1, nest[i].at),
         scopes' = nest[i].scopes,
         bound' = bound, owned' = owned,
         released' \in Seq(Objects), done' \in BOOLEAN, Notes
  PROVE  IInv'
<1> DEFINE p == PathTo(nest, scopes, using_cleanups)
           n == SubSeq(nest, 1, i - 1)
           e == nest[i]
           v == SubSeq(using_cleanups, 1, e.at)
<1>1. /\ Context(nest, scopes, using_cleanups) /\ nest \in Seq(Statements)
      /\ using_cleanups \in Seq(Cleanups)
      /\ ~shadowed => Meaning(nest, scopes, using_cleanups)
      /\ bound \in Nat /\ bound <= MaxObjects /\ MaxObjects \in Nat
      /\ owned \subseteq 1 .. bound
  BY ContextHere
<1>2. /\ Len(nest) \in Nat /\ i \in 1 .. Len(nest) /\ p[i] = e /\ e \in Statements
      /\ Len(using_cleanups) \in Nat /\ e.at \in 0 .. Len(using_cleanups)
  BY EntryParts
<1>3. e.kind = "loop" /\ using_cleanups' = v /\ scopes' = e.scopes
  OBVIOUS
<1>4. e.scopes \in Scopes /\ e.kind \in Kinds
  BY <1>2 DEF Statements
<1>5. nest' = Append(n, e)
  <2>1. 1 \in 1 .. Len(nest) /\ i \in 1 .. Len(nest) /\ i - 1 \in 0 .. Len(nest)
    BY <1>2
  <2>2. SubSeq(nest, 1, i) = n \o <<e>>
    BY <2>1, <1>1, SubSeqRecursiveSecond
  <2>3. n \in Seq(Statements)
    BY <2>1, <1>1, FrontIs
  <2> HIDE DEF n, e
  <2>4. Append(n, e) = n \o <<e>>
    BY <2>3, <1>2, AppendIsConcat
  <2> QED
    BY <2>2, <2>4
<1>6. v \in Seq(Cleanups) /\ Len(v) = e.at
  <2> DEFINE a == e.at
  <2>1. a \in 0 .. Len(using_cleanups)
    BY <1>2
  <2> HIDE DEF a
  <2>2. SubSeq(using_cleanups, 1, a) \in Seq(Cleanups) /\ Len(SubSeq(using_cleanups, 1, a)) = a
    BY <1>1, <2>1, FrontIs
  <2> QED
    BY <2>2 DEF a
<1>7. Grown(e.scopes, e.scopes) /\ SameFor(e.scopes, e.scopes, using_cleanups, e.at)
  BY <1>4, ScopeParts DEF Grown, SameFor
<1> HIDE DEF e
<1>8. /\ Context(n, e.scopes, v)
      /\ ~shadowed => Meaning(n, e.scopes, v)
  <2>1. i \in 1 .. Len(nest) + 1
    BY <1>2
  <2>2. /\ Len(e.scopes) = Len(p[i].scopes) /\ Grown(e.scopes, p[i].scopes)
        /\ SameFor(e.scopes, p[i].scopes, using_cleanups, p[i].at)
        /\ v = SubSeq(using_cleanups, 1, p[i].at)
    BY <1>2, <1>7
  <2> HIDE DEF v
  <2>3. /\ Context(n, e.scopes, SubSeq(using_cleanups, 1, p[i].at))
        /\ ~shadowed => Meaning(n, e.scopes, SubSeq(using_cleanups, 1, p[i].at))
    BY <2>1, <2>2, <1>1, <1>4, ContextBack
  <2> QED
    BY <2>2, <2>3
<1> HIDE DEF p, n, v
<1>9. /\ Context(Append(n, e), e.scopes, v)
      /\ ~shadowed => Meaning(Append(n, e), e.scopes, v)
  <2> DEFINE kind == "loop"
  <2>1. /\ kind \in Kinds /\ kind # "block" /\ kind # "using" /\ e.kind = kind
    BY <1>3 DEF Kinds
  <2>2. SameFor(e.scopes, e.scopes, v, Len(v))
    BY DEF SameFor
  <2>3. /\ Len(e.scopes) = Len(e.scopes) + (IF kind = "block" THEN 1 ELSE 0)
        /\ Len(v) = Len(v) + (IF kind = "using" THEN 1 ELSE 0)
        /\ \A j \in 1 .. Len(v) : v[j] = v[j]
    BY <2>1, <1>4, <1>6, <1>2, ScopeParts
  <2> HIDE DEF kind
  <2>4. /\ Context(Append(n, e), e.scopes, v)
        /\ /\ Meaning(n, e.scopes, v) /\ SameFor(e.scopes, e.scopes, v, Len(v))
           /\ kind = "block" => \A name \in Names : e.scopes[Len(e.scopes)][name] = 0
           /\ kind = "using" => Holds(e.scopes, v[Len(v)].name, v[Len(v)].object)
           => Meaning(Append(n, e), e.scopes, v)
    BY <2>1, <2>3, <1>2, <1>4, <1>6, <1>7, <1>8, ContextOpen
  <2> QED
    BY <2>1, <2>2, <2>4, <1>8
<1>10. ~shadowed' => Younger(using_cleanups') /\ Owning'
  BY <1>2, Dropped DEF e, Notes
<1>11. bound' \in 0 .. MaxObjects /\ owned' \subseteq 1 .. bound'
  BY <1>1
<1>12. /\ Context(nest', scopes', using_cleanups')
       /\ ~shadowed' => /\ Meaning(nest', scopes', using_cleanups')
                        /\ Younger(using_cleanups') /\ Owning'
  BY <1>3, <1>5, <1>9, <1>10 DEF Notes
<1> QED
  BY <1>11, <1>12, IInvAgain

-----------------------------------------------------------------------------
(* The steps.  Each one keeps the invariant, and calls RELEASE for the     *)
(* cleanups it drops, notes that it skips them, leaves them all, or adds   *)
(* one.                                                                    *)

Calls == \E a : Emission(a)

Silent ==
  /\ released' = released /\ using_cleanups' = using_cleanups
  /\ owned' = owned /\ skipped' = skipped

Skipping ==
  /\ released' = released /\ owned' = owned
  /\ \E a \in 0 .. Len(using_cleanups) :
       /\ using_cleanups' = SubSeq(using_cleanups, 1, a)
       /\ skipped' = skipped \cup
            {using_cleanups[j].object : j \in a + 1 .. Len(using_cleanups)}

LEMMA ReturnKeeps ==
  ASSUME IInv, ReturnFromRoutine
  PROVE  IInv' /\ Calls
<1> DEFINE p == PathTo(nest, scopes, using_cleanups)
<1>1. /\ Context(nest, scopes, using_cleanups) /\ nest \in Seq(Statements)
      /\ ~shadowed => Meaning(nest, scopes, using_cleanups)
      /\ using_cleanups \in Seq(Cleanups)
      /\ Len(nest) \in Nat /\ Len(using_cleanups) \in Nat
      /\ bound \in Nat /\ bound <= MaxObjects /\ MaxObjects \in Nat
  BY ContextHere
<1>2. /\ EmitFrom(0) /\ nest' = <<>> /\ using_cleanups' = <<>>
      /\ scopes' = SubSeq(scopes, 1, 1)
      /\ bound' = bound /\ owned' = owned /\ skipped' = skipped
      /\ shadowed' = shadowed
  BY DEF ReturnFromRoutine
<1>3. done' \in BOOLEAN /\ Notes
  BY <1>2, NothingNoted DEF ReturnFromRoutine
<1>4. 0 \in 0 .. Len(using_cleanups) /\ 1 \in 1 .. Len(nest) + 1
  BY <1>1
<1>5. released' \in Seq(Objects)
  BY <1>2, <1>4, Emitted DEF IInv
<1>6. Len(p[1].scopes) = 1 /\ p[1].at = 0
  BY <1>1, <1>4, ContextScopes
<1>7. nest' = SubSeq(nest, 1, 1 - 1) /\ using_cleanups' = SubSeq(using_cleanups, 1, 0)
  BY <1>2, SubSeqEmpty
<1>8. /\ scopes' \in Scopes /\ Len(scopes') = Len(p[1].scopes)
      /\ Grown(scopes', p[1].scopes)
      /\ ~shadowed' => SameFor(scopes', p[1].scopes, using_cleanups, p[1].at)
  <2>1. scopes' = SubSeq(scopes, 1, Len(p[1].scopes))
    BY <1>2, <1>6
  <2> DEFINE m == 1
  <2>2. m \in 1 .. Len(nest) + 1 /\ scopes' = SubSeq(scopes, 1, Len(p[m].scopes))
    BY <2>1, <1>4
  <2> HIDE DEF m, p
  <2>3. /\ scopes' \in Scopes /\ Len(scopes') = Len(p[m].scopes)
        /\ Grown(scopes', p[m].scopes)
        /\ Meaning(nest, scopes, using_cleanups) =>
             SameFor(scopes', p[m].scopes, using_cleanups, p[m].at)
    BY <2>2, <1>1, Truncated DEF p
  <2> QED
    BY <2>3, <1>1, <1>2 DEF m
<1>9. bound' \in bound .. MaxObjects
  BY <1>1, <1>2
<1>10. IInv'
  BY <1>2, <1>3, <1>4, <1>5, <1>6, <1>7, <1>8, <1>9, StepBack
<1>11. Emission(0)
  BY <1>2, <1>4, <1>7 DEF Emission
<1> QED
  BY <1>10, <1>11 DEF Calls

LEMMA FallThroughKeeps ==
  ASSUME IInv, FallThrough
  PROVE  IInv' /\ (Calls \/ Silent)
<1> DEFINE i == Len(nest)
<1>1. /\ nest # <<>> /\ Close(i) /\ bound' = bound /\ owned' = owned /\ done' = done
      /\ shadowed' = shadowed /\ skipped' = skipped
      /\ IF IsUsing(Last(nest)) THEN EmitFrom(Len(using_cleanups) - 1)
                                ELSE released' = released
  BY DEF FallThrough
<1>2. /\ nest \in Seq(Statements) /\ using_cleanups \in Seq(Cleanups)
      /\ released \in Seq(Objects)
  BY ContextHere
<1>3. i \in DOMAIN nest /\ Last(nest) = nest[i]
  <2>1. Len(nest) \in Nat /\ DOMAIN nest = 1 .. Len(nest) /\ Len(nest) # 0
    BY <1>1, <1>2, ElementsOf, EmptySeq
  <2> QED
    BY <2>1 DEF Last
<1>4. /\ Len(using_cleanups) \in Nat /\ i \in 1 .. Len(nest)
      /\ nest[i].at \in 0 .. Len(using_cleanups)
      /\ (\A k \in i .. Len(nest) : ~IsUsing(nest[k]))
           => nest[i].at = Len(using_cleanups)
      /\ IsUsing(nest[i]) => nest[i].at = Len(using_cleanups) - 1
  BY <1>3, EntryParts
<1>5. using_cleanups' = SubSeq(using_cleanups, 1, nest[i].at)
  BY <1>1 DEF Close
<1>6. done' \in BOOLEAN /\ Notes
  BY <1>1, NothingNoted DEF IInv, PathInv, TypeOK
<1>7. CASE IsUsing(nest[i])
  <2>1. EmitFrom(nest[i].at)
    BY <1>1, <1>3, <1>4, <1>7
  <2>2. released' \in Seq(Objects)
    BY <2>1, <1>4, Emitted DEF IInv
  <2>3. Emission(nest[i].at)
    BY <2>1, <1>1, <1>4, <1>5 DEF Emission
  <2>4. IInv'
    BY <2>2, <1>1, <1>3, <1>6, CloseKeeps
  <2> QED
    BY <2>3, <2>4 DEF Calls
<1>8. CASE ~IsUsing(nest[i])
  <2>1. released' = released
    BY <1>1, <1>3, <1>8
  <2>2. IInv'
    BY <2>1, <1>1, <1>2, <1>3, <1>6, CloseKeeps
  <2>3. \A k \in i .. Len(nest) : ~IsUsing(nest[k])
    BY <1>4, <1>8
  <2>4. using_cleanups' = using_cleanups
    BY <2>3, <1>2, <1>4, <1>5, SubSeqFull
  <2> QED
    BY <2>1, <2>2, <2>4, <1>1 DEF Silent
<1> QED
  BY <1>7, <1>8

LEMMA BreakKeeps ==
  ASSUME IInv, Break
  PROVE  IInv' /\ Calls
<1>1. PICK i \in DOMAIN nest : EmitFrom(nest[i].at) /\ Close(i)
  BY DEF Break
<1>2. bound' = bound /\ owned' = owned /\ skipped' = skipped /\ shadowed' = shadowed
  BY DEF Break
<1>3. done' \in BOOLEAN /\ Notes
  BY <1>2, NothingNoted DEF Break, IInv, PathInv, TypeOK
<1>4. nest[i].at \in 0 .. Len(using_cleanups)
  BY EntryParts
<1>5. released' \in Seq(Objects)
  BY <1>1, <1>4, Emitted DEF IInv
<1>6. Emission(nest[i].at)
  BY <1>1, <1>2, <1>4 DEF Emission, Close
<1>7. IInv'
  BY <1>1, <1>2, <1>3, <1>5, CloseKeeps
<1> QED
  BY <1>6, <1>7 DEF Calls

LEMMA NextRoundKeeps ==
  ASSUME IInv, Loop
  PROVE  IInv' /\ Calls
<1>1. PICK i \in DOMAIN nest :
        /\ nest[i].kind = "loop"
        /\ EmitFrom(nest[i].at)
        /\ nest' = SubSeq(nest, 1, i)
        /\ using_cleanups' = SubSeq(using_cleanups, 1, nest[i].at)
        /\ scopes' = nest[i].scopes
  BY DEF Loop
<1>2. bound' = bound /\ owned' = owned /\ skipped' = skipped /\ shadowed' = shadowed
  BY DEF Loop
<1>3. done' \in BOOLEAN /\ Notes
  BY <1>2, NothingNoted DEF Loop, IInv, PathInv, TypeOK
<1>4. nest[i].at \in 0 .. Len(using_cleanups)
  BY EntryParts
<1>5. released' \in Seq(Objects)
  BY <1>1, <1>4, Emitted DEF IInv
<1>6. Emission(nest[i].at)
  BY <1>1, <1>2, <1>4 DEF Emission
<1>7. IInv'
  BY <1>1, <1>2, <1>3, <1>5, LoopKeeps
<1> QED
  BY <1>6, <1>7 DEF Calls

(* Leaving the i-th statement with no call skips the cleanups inside.      *)
LEMMA CloseSkips ==
  ASSUME IInv, NEW i \in DOMAIN nest, Close(i), Skip(i),
         bound' = bound, owned' = owned, released' = released, done' = done,
         shadowed' = shadowed
  PROVE  IInv' /\ Skipping
<1>1. released' \in Seq(Objects) /\ Len(using_cleanups) \in Nat
  BY ContextHere
<1>2. nest[i].at \in 0 .. Len(using_cleanups)
  BY EntryParts
<1>3. skipped' \subseteq Objects
  <2>1. \A j \in 1 .. Len(using_cleanups) : using_cleanups[j] \in Cleanups
    BY HereFound DEF IInv
  <2>2. \A j \in nest[i].at + 1 .. Len(using_cleanups) : j \in 1 .. Len(using_cleanups)
    BY <1>1, <1>2
  <2>3. \A j \in nest[i].at + 1 .. Len(using_cleanups) :
          using_cleanups[j].object \in Objects
    BY <2>1, <2>2 DEF Cleanups
  <2>4. skipped \subseteq Objects
    BY ContextHere
  <2> QED
    BY <2>3, <2>4 DEF Skip
<1>4. done' \in BOOLEAN /\ Notes
  BY <1>3, ContextHere DEF IInv, PathInv, TypeOK, Notes
<1>5. IInv'
  BY <1>1, <1>4, CloseKeeps
<1>6. Skipping
  BY <1>2 DEF Skipping, Close, Skip
<1> QED
  BY <1>5, <1>6

LEMMA GotoKeeps ==
  ASSUME IInv, Goto
  PROVE  IInv' /\ Skipping
<1>1. PICK i \in DOMAIN nest : Close(i) /\ Skip(i)
  BY DEF Goto
<1>2. /\ bound' = bound /\ owned' = owned /\ released' = released /\ done' = done
      /\ shadowed' = shadowed
  BY DEF Goto
<1> QED
  BY <1>1, <1>2, CloseSkips

LEMMA ResultisKeeps ==
  ASSUME IInv, Resultis
  PROVE  IInv' /\ (Calls \/ Skipping)
<1>1. CASE ReturnFromRoutine
  BY <1>1, ReturnKeeps
<1>2. CASE /\ Valofs # {}
           /\ Close(Max(Valofs)) /\ Skip(Max(Valofs))
           /\ UNCHANGED <<bound, owned, released, done, shadowed>>
  <2> DEFINE i == Max(Valofs)
             V == Valofs
             b == Len(nest)
  <2>1. /\ Len(nest) \in Nat /\ DOMAIN nest = 1 .. Len(nest)
    <3>1. nest \in Seq(Statements)
      BY ContextHere
    <3> QED
      BY <3>1, ElementsOf
  <2>2. V \in SUBSET Nat /\ V # {} /\ b \in Nat /\ \A n \in V : n <= b
    BY <2>1, <1>2 DEF Valofs
  <2> HIDE DEF V, b
  <2>3. Max(V) \in V
    BY <2>2, MaxIsGreatest
  <2>4. i \in DOMAIN nest
    BY <2>3 DEF V, Valofs
  <2>5. /\ Close(i) /\ Skip(i) /\ bound' = bound /\ owned' = owned
        /\ released' = released /\ done' = done /\ shadowed' = shadowed
    BY <1>2
  <2> HIDE DEF i
  <2> QED
    BY <2>4, <2>5, CloseSkips
<1> QED
  BY <1>1, <1>2 DEF Resultis

LEMMA Steps ==
  ASSUME IInv, [Next]_vars
  PROVE  /\ IInv'
         /\ Calls \/ released' = released
         /\ Calls \/ Silent \/ Skipping \/ EnterUsing
         /\ shadowed => shadowed'
<1>0. shadowed => shadowed'
  BY DEF Next, vars, Enter, Let, EnterUsing, Bind, FallThrough, Break, Loop, Goto,
         ReturnFromRoutine, Resultis
<1>1. CASE Enter
  <2>1. Silent
    BY <1>1 DEF Enter, Open, Silent
  <2> QED
    BY <1>0, <1>1, <2>1, EnterKeeps DEF Silent
<1>2. CASE Let
  <2>1. Silent
    BY <1>2 DEF Let, Silent
  <2> QED
    BY <1>0, <1>2, <2>1, LetKeeps DEF Silent
<1>3. CASE EnterUsing
  <2>1. released' = released
    BY <1>3 DEF EnterUsing, Open
  <2> QED
    BY <1>0, <1>3, <2>1, EnterUsingKeeps
<1>4. CASE FallThrough
  BY <1>0, <1>4, FallThroughKeeps DEF Silent
<1>5. CASE Break
  BY <1>0, <1>5, BreakKeeps
<1>6. CASE Loop
  BY <1>0, <1>6, NextRoundKeeps
<1>7. CASE Goto
  BY <1>0, <1>7, GotoKeeps DEF Skipping
<1>8. CASE ReturnFromRoutine
  BY <1>0, <1>8, ReturnKeeps
<1>9. CASE Resultis
  BY <1>0, <1>9, ResultisKeeps DEF Skipping
<1>10. CASE UNCHANGED vars
  <2>1. /\ nest' = nest /\ scopes' = scopes /\ using_cleanups' = using_cleanups
        /\ bound' = bound /\ owned' = owned /\ released' = released /\ done' = done
        /\ shadowed' = shadowed /\ skipped' = skipped
    BY <1>10 DEF vars
  <2>2. Silent
    BY <2>1 DEF Silent
  <2>3. /\ Context(nest', scopes', using_cleanups')
        /\ ~shadowed' => /\ Meaning(nest', scopes', using_cleanups')
                         /\ Younger(using_cleanups') /\ Owning'
    <3>1. ~shadowed' => Owning'
      BY <2>1, ContextHere DEF Owning, Held
    <3> QED
      BY <2>1, <3>1, ContextHere
  <2>4. /\ bound' \in 0 .. MaxObjects /\ owned' \subseteq 1 .. bound'
        /\ released' \in Seq(Objects)
    BY <2>1 DEF IInv, PathInv, TypeOK
  <2>5. done' \in BOOLEAN /\ Notes
    BY <2>1, NothingNoted DEF IInv, PathInv, TypeOK
  <2>6. IInv'
    BY <2>3, <2>4, <2>5, IInvAgain
  <2> QED
    BY <1>0, <2>2, <2>6 DEF Silent
<1> QED
  BY <1>0, <1>1, <1>2, <1>3, <1>4, <1>5, <1>6, <1>7, <1>8, <1>9, <1>10 DEF Next

(* Entering a USING: its object is new.                                    *)
LEMMA EnteringReleases ==
  ASSUME IInv, NameInv, ReleaseInv, EnterUsing
  PROVE  ReleaseInv'
<1> DEFINE x == bound + 1
<1>1. PICK n \in Names :
        using_cleanups' = Append(using_cleanups, [name |-> n, object |-> x])
  BY DEF EnterUsing
<1>2. /\ owned' = owned \cup {x} /\ released' = released /\ skipped' = skipped
  BY DEF EnterUsing, Open
<1> DEFINE c == [name |-> n, object |-> x]
<1>3. /\ using_cleanups \in Seq(Cleanups) /\ Len(using_cleanups) \in Nat
      /\ x \in Objects /\ x \notin owned
  <2>1. /\ using_cleanups \in Seq(Cleanups) /\ Len(using_cleanups) \in Nat
        /\ bound \in Nat /\ owned \subseteq 1 .. bound
    BY ContextHere
  <2>2. PICK m \in Names : Bind(m)
    BY DEF EnterUsing
  <2>3. x \in Objects
    BY <2>2, Bound
  <2> QED
    BY <2>1, <2>3
<1>4. c \in Cleanups /\ c.object = x
  BY <1>3 DEF Cleanups
<1> HIDE DEF c, x
<1>5. /\ using_cleanups' \in Seq(Cleanups)
      /\ Len(using_cleanups') = Len(using_cleanups) + 1
      /\ \A j \in 1 .. Len(using_cleanups) : using_cleanups'[j] = using_cleanups[j]
      /\ using_cleanups'[Len(using_cleanups) + 1] = c
  BY <1>1, <1>3, <1>4, AppendProperties DEF c
<1>6. /\ DOMAIN using_cleanups = 1 .. Len(using_cleanups)
      /\ DOMAIN using_cleanups' = 1 .. Len(using_cleanups) + 1
  BY <1>3, <1>5, ElementsOf
<1>7. \A j \in 1 .. Len(using_cleanups) + 1 :
        j \in 1 .. Len(using_cleanups) \/ j = Len(using_cleanups) + 1
  BY <1>3
<1>8. /\ \A j \in 1 .. Len(using_cleanups) : j \in 1 .. Len(using_cleanups) + 1
      /\ Len(using_cleanups) + 1 \in 1 .. Len(using_cleanups) + 1
  BY <1>3
<1>9. ASSUME NEW y
      PROVE  y \in Held' <=> y \in Held \/ y = x
  <2>1. y \in Held' <=>
          \E j \in 1 .. Len(using_cleanups) + 1 : using_cleanups'[j].object = y
    BY <1>6 DEF Held
  <2>2. y \in Held <=>
          \E j \in 1 .. Len(using_cleanups) : using_cleanups[j].object = y
    BY <1>6 DEF Held
  <2> QED
    BY <2>1, <2>2, <1>4, <1>5, <1>7, <1>8
<1>10. skipped \subseteq owned /\ Held \subseteq Live
  BY DEF ReleaseInv
<1>11. Live' = Live \cup {x} /\ x \notin Live /\ skipped' \subseteq owned'
  BY <1>2, <1>3, <1>10 DEF Live
<1>12. Live' \ Held' = Live \ Held /\ Held' \subseteq Live'
  BY <1>9, <1>10, <1>11
<1> QED
  BY <1>2, <1>11, <1>12 DEF ReleaseInv

(* Skipping cleanups: their objects are no longer held nor to be released. *)
LEMMA SkippingReleases ==
  ASSUME PathInv, NameInv, ReleaseInv, Skipping
  PROVE  ReleaseInv'
<1> DEFINE u == using_cleanups
           n == Len(u)
<1>1. PICK a \in 0 .. n :
        /\ u' = SubSeq(u, 1, a)
        /\ skipped' = skipped \cup {u[j].object : j \in a + 1 .. n}
  BY DEF Skipping
<1>2. released' = released /\ owned' = owned
  BY DEF Skipping
<1>3. u \in Seq(Cleanups) /\ n \in Nat
  BY HereFound DEF PathInv, Context
<1>4. /\ \A x : x \in Held <=> \E j \in 1 .. n : u[j].object = x
      /\ \A i, j \in 1 .. n : u[i].object = u[j].object => i = j
      /\ Held \subseteq Live /\ skipped \subseteq owned
      /\ ToSet(released) = Live \ Held /\ Once(released)
  BY HeldParts DEF NameInv, ReleaseInv
<1>5. \A x : x \in Held' <=> \E j \in 1 .. a : u[j].object = x
  <2>1. u' \in Seq(Cleanups) /\ Len(u') = a /\ \A j \in 1 .. a : u'[j] = u[j]
    BY <1>1, <1>3, FrontIs
  <2>2. DOMAIN u' = 1 .. a
    BY <2>1, ElementsOf
  <2> QED
    BY <2>1, <2>2 DEF Held
<1>6. /\ \A j \in 1 .. n : j \in 1 .. a \/ j \in a + 1 .. n
      /\ \A j \in 1 .. a : j \in 1 .. n /\ j \notin a + 1 .. n
      /\ \A j \in a + 1 .. n : j \in 1 .. n
  BY <1>1, <1>3
<1> HIDE DEF u, n
<1>7. \A x : x \in Live' <=>
              x \in Live /\ ~\E j \in a + 1 .. n : u[j].object = x
  BY <1>1, <1>2 DEF Live
<1>8. Live' \ Held' = Live \ Held
  BY <1>4, <1>5, <1>6, <1>7
<1>9. Held' \subseteq Live'
  BY <1>4, <1>5, <1>6, <1>7
<1>10. skipped' \subseteq owned'
  <2>1. \A j \in a + 1 .. n : u[j].object \in owned
    BY <1>4, <1>6 DEF Live
  <2> QED
    BY <2>1, <1>1, <1>2, <1>4
<1> QED
  BY <1>2, <1>4, <1>8, <1>9, <1>10 DEF ReleaseInv

LEMMA ReleaseInit == Init => ReleaseInv
<1> SUFFICES ASSUME Init
             PROVE  ReleaseInv
  OBVIOUS
<1>1. released = <<>> /\ owned = {} /\ skipped = {} /\ using_cleanups = <<>>
  BY DEF Init
<1>2. ToSet(released) = {} /\ Once(released)
  BY <1>1 DEF ToSet, Once
<1>3. Held = {}
  BY <1>1 DEF Held
<1> QED
  BY <1>1, <1>2, <1>3 DEF ReleaseInv, Live

LEMMA ReleaseStep ==
  ASSUME IInv, ~shadowed => ReleaseInv, [Next]_vars
  PROVE  ~shadowed' => ReleaseInv'
<1> SUFFICES ASSUME ~shadowed'
             PROVE  ReleaseInv'
  OBVIOUS
<1>1. PathInv /\ NameInv /\ ReleaseInv
  BY Steps DEF IInv
<1>2. Calls \/ Silent \/ Skipping \/ EnterUsing
  BY Steps
<1>3. CASE Calls
  BY <1>1, <1>3, EmissionReleases DEF Calls
<1>4. CASE Silent
  BY <1>1, <1>4 DEF Silent, ReleaseInv, Held, Live
<1>5. CASE EnterUsing
  BY <1>1, <1>5, EnteringReleases
<1>6. CASE Skipping
  BY <1>1, <1>6, SkippingReleases
<1> QED
  BY <1>2, <1>3, <1>4, <1>5, <1>6

-----------------------------------------------------------------------------
(* The theorems.                                                           *)

LEMMA IInvAlways == Spec => []IInv
<1>1. Init => IInv
  BY IInvInit
<1>2. IInv /\ [Next]_vars => IInv'
  BY Steps
<1> QED
  BY <1>1, <1>2, PTL DEF Spec

(* The lowering's context has its shape on every path, whatever names the  *)
(* program uses and however it leaves its statements: in particular the    *)
(* scopes open at a point are the routine's and one for every open block,  *)
(* so that a name declared in a block that a BREAK, LOOP, GOTO or RESULTIS *)
(* has left is never found, and every receiver of RELEASE is an object.    *)
THEOREM ContextTyped == Spec => []TypeOK
<1>1. IInv => TypeOK
  BY DEF IInv, PathInv
<1> QED
  BY <1>1, IInvAlways, PTL

(* RELEASE is called exactly once on the object of every USING that        *)
(* control has left, except one that a RESULTIS inside its VALOF or a GOTO *)
(* has left, and never on one that is still open, on every path through    *)
(* any nest of blocks, loops, SWITCHONs and VALOFs                         *)
(* (emit_using_cleanups_from in lower.rs), for as long as no name of an    *)
(* open USING has been bound again.                                        *)
THEOREM EveryObjectReleasedOnce == Spec => []ReleasedExactlyOnce
<1> DEFINE R == ~shadowed => ReleaseInv
<1>1. Init => R
  BY ReleaseInit
<1>2. IInv /\ R /\ [Next]_vars => R'
  BY ReleaseStep
<1>3. IInv /\ R => ReleasedExactlyOnce
  <2> SUFFICES ASSUME IInv, ReleaseInv
               PROVE  ReleasedExactlyOnce
    BY DEF ReleasedExactlyOnce
  <2>1. released \in Seq(Objects)
    BY ContextHere
  <2>2. Cardinality(ToSet(released)) = Len(released)
    BY <2>1, Counted DEF ReleaseInv
  <2>3. Live \ Held = owned \ (Held \cup skipped)
    BY DEF Live
  <2> QED
    BY <2>2, <2>3 DEF ReleaseInv, ReleasedExactlyOnce
<1> HIDE DEF R
<1> QED
  BY <1>1, <1>2, <1>3, IInvAlways, PTL DEF Spec

(* A transfer of control that leaves several USINGs releases the object    *)
(* bound last first (the slice of cleanups is walked from its end), as     *)
(* long as no name of an open USING has been bound again; a RESULTIS or a  *)
(* GOTO before it changes nothing.                                         *)
THEOREM ReleasedInnermostFirst == Spec => InnermostFirst
<1> DEFINE Falling ==
      ~shadowed' =>
        \A i, j \in Len(released) + 1 .. Len(released') :
          i < j => released'[i] > released'[j]
<1>1. IInv /\ [Next]_vars => [Falling]_vars
  <2> SUFFICES ASSUME IInv, [Next]_vars, ~shadowed'
               PROVE  Falling
    OBVIOUS
  <2>1. PathInv /\ NameInv
    BY Steps DEF IInv
  <2>2. Calls \/ released' = released
    BY Steps
  <2>3. CASE Calls
    BY <2>1, <2>3, EmissionFalls DEF Calls
  <2>4. CASE released' = released
    <3>1. Len(released) \in Nat
      BY ContextHere, ElementsOf
    <3> QED
      BY <2>4, <3>1
  <2> QED
    BY <2>2, <2>3, <2>4
<1> HIDE DEF Falling
<1>2. Spec => [][Falling]_vars
  BY <1>1, IInvAlways, PTL DEF Spec
<1> QED
  BY <1>2 DEF InnermostFirst, Falling
=============================================================================
