----------------------------- MODULE RopeBuffer -----------------------------
(***************************************************************************)
(* The text buffer of the editor (newbcpl-runtime/src/igui/rope_buffer.rs):*)
(* a binary tree over leaves of at most LeafMax characters, split and      *)
(* joined by every edit, with lengths, newline counts and heights cached   *)
(* in the branches.  Joins rotate as AVL trees do, but a text that is      *)
(* loaded or pasted is merged in pairs: five leaves make a tree of heights *)
(* 2 and 0 side by side, which no rotation has seen.                       *)
(***************************************************************************)
EXTENDS TextLines

CONSTANTS
  Alphabet, LeafMax,
  Files,        \* longer texts, loaded or pasted as a whole
  MaxLength,    \* bound: length of a text that is typed into
  MaxInsert,    \* bound: length of a text that is typed
  MaxPasted     \* bound: length of a text that a file is pasted into

ASSUME RopeAssumption ==
  /\ Newline \in Alphabet
  /\ LeafMax \in Nat \ {0} /\ MaxLength \in Nat /\ MaxInsert \in Nat /\ MaxPasted \in Nat
  /\ Files \subseteq Seq(Alphabet)

VARIABLE root

-----------------------------------------------------------------------------
(* Nodes.                                                                  *)
Leaf(buf) ==
  [kind |-> "leaf", buf |-> buf, newline_count |-> Newlines(buf)]

EmptyLeaf == Leaf(<<>>)

TextLen(n) == IF n.kind = "leaf" THEN Len(n.buf) ELSE n.total_len
NewlineCount(n) == IF n.kind = "leaf" THEN n.newline_count ELSE n.total_newlines
Height(n) == IF n.kind = "leaf" THEN 0 ELSE n.height

Branch(l, r) ==
  [kind |-> "branch", left |-> l, right |-> r,
   left_len |-> TextLen(l),
   total_len |-> TextLen(l) + TextLen(r),
   total_newlines |-> NewlineCount(l) + NewlineCount(r),
   height |-> 1 + Max({Height(l), Height(r)})]

BalanceFactor(n) ==
  IF n.kind = "leaf" THEN 0 ELSE Height(n.left) - Height(n.right)

RECURSIVE Flatten(_), Nodes(_)
Flatten(n) ==
  IF n.kind = "leaf" THEN n.buf ELSE Flatten(n.left) \o Flatten(n.right)
Nodes(n) ==
  {n} \cup IF n.kind = "leaf" THEN {} ELSE Nodes(n.left) \cup Nodes(n.right)

-----------------------------------------------------------------------------
(* build_rope_from_slice: full leaves, merged in pairs, level by level.    *)
Chunks(buf) ==
  [i \in 1 .. (Len(buf) + LeafMax - 1) \div LeafMax |->
     Leaf(Slice(buf, (i - 1) * LeafMax, i * LeafMax))]

RECURSIVE MergePairwise(_)
MergePairwise(nodes) ==
  IF Len(nodes) = 1 THEN nodes[1]
  ELSE MergePairwise(
         [i \in 1 .. (Len(nodes) + 1) \div 2 |->
            IF 2 * i <= Len(nodes) THEN Branch(nodes[2 * i - 1], nodes[2 * i])
                                   ELSE nodes[2 * i - 1]])

Build(buf) == IF buf = <<>> THEN EmptyLeaf ELSE MergePairwise(Chunks(buf))

-----------------------------------------------------------------------------
(* Rotations; a side that is no branch refuses.                            *)
RotateRight(n) ==
  IF n.left.kind = "leaf" THEN n
  ELSE Branch(n.left.left, Branch(n.left.right, n.right))

RotateLeft(n) ==
  IF n.right.kind = "leaf" THEN n
  ELSE Branch(Branch(n.left, n.right.left), n.right.right)

(* Fault: the single rotation is taken for the double one.                 *)
BalanceSingly(n) ==
  CASE BalanceFactor(n) > 1  -> RotateRight(n)
    [] BalanceFactor(n) < -1 -> RotateLeft(n)
    [] OTHER                 -> n

Balance(n) ==
  CASE BalanceFactor(n) > 1 ->
         RotateRight(IF BalanceFactor(n.left) < 0
                     THEN Branch(RotateLeft(n.left), n.right) ELSE n)
    [] BalanceFactor(n) < -1 ->
         RotateLeft(IF BalanceFactor(n.right) > 0
                    THEN Branch(n.left, RotateRight(n.right)) ELSE n)
    [] OTHER -> n

(* join_nodes: small leaves merge, compatible heights make a branch, and   *)
(* otherwise the lower tree goes down the near side of the taller one.     *)
RECURSIVE Join(_, _)
Join(l, r) ==
  CASE TextLen(l) = 0 -> r
    [] TextLen(l) # 0 /\ TextLen(r) = 0 -> l
    [] OTHER ->
         LET merge == /\ l.kind = "leaf" /\ r.kind = "leaf"
                      /\ TextLen(l) + TextLen(r) <= LeafMax
             tilt  == Height(l) - Height(r)
         IN CASE merge                 -> Leaf(l.buf \o r.buf)
              [] ~merge /\ tilt > 1    ->
                   Balance(Branch(l.left, Join(l.right, r)))
              [] ~merge /\ tilt < -1   ->
                   Balance(Branch(Join(l, r.left), r.right))
              [] OTHER                 -> Branch(l, r)

(* Fault: the part of the left side behind the cut is left out.            *)
RECURSIVE SplitShort(_, _)
SplitShort(n, pos) ==
  CASE pos = 0           -> <<EmptyLeaf, n>>
    [] pos >= TextLen(n) -> <<n, EmptyLeaf>>
    [] OTHER ->
         IF n.kind = "leaf"
         THEN <<Leaf(Slice(n.buf, 0, pos)), Leaf(Slice(n.buf, pos, Len(n.buf)))>>
         ELSE IF pos <= n.left_len
         THEN <<SplitShort(n.left, pos)[1], n.right>>
         ELSE LET s == SplitShort(n.right, pos - n.left_len)
              IN <<Join(n.left, s[1]), s[2]>>

(* split_node: what lies off the path is joined to the side it belongs to. *)
RECURSIVE Split(_, _)
Split(n, pos) ==
  CASE pos = 0 -> <<EmptyLeaf, n>>
    [] pos # 0 /\ pos >= TextLen(n) -> <<n, EmptyLeaf>>
    [] pos # 0 /\ pos < TextLen(n) /\ n.kind = "leaf" ->
         <<Leaf(Slice(n.buf, 0, pos)), Leaf(Slice(n.buf, pos, Len(n.buf)))>>
    [] OTHER ->
         CASE pos = n.left_len -> <<n.left, n.right>>
           [] pos < n.left_len ->
                LET s == Split(n.left, pos) IN <<s[1], Join(s[2], n.right)>>
           [] pos > n.left_len ->
                LET s == Split(n.right, pos - n.left_len)
                IN <<Join(n.left, s[1]), s[2]>>

InsertNode(n, pos, insertion) ==
  LET s == Split(n, pos) IN Join(Join(s[1], insertion), s[2])

DeleteRange(n, pos, count) ==
  LET s == Split(n, pos) IN Join(s[1], Split(s[2], count)[2])

-----------------------------------------------------------------------------
(* Lookups.                                                                *)
RECURSIVE CharAt(_, _), Collect(_, _, _), NewlinesBefore(_, _)
RECURSIVE NthNewlineLocal(_, _), NthNewline(_, _)

CharAt(n, pos) ==
  IF n.kind = "leaf" THEN n.buf[pos + 1]
  ELSE IF pos < n.left_len THEN CharAt(n.left, pos)
                           ELSE CharAt(n.right, pos - n.left_len)

(* collect_range                                                           *)
Collect(n, lo, hi) ==
  IF lo >= hi THEN <<>>
  ELSE IF n.kind = "leaf" THEN Slice(n.buf, lo, hi)
  ELSE (IF lo < n.left_len THEN Collect(n.left, lo, Min({hi, n.left_len}))
                           ELSE <<>>)
       \o (IF hi > n.left_len
           THEN Collect(n.right, Max({lo - n.left_len, 0}), hi - n.left_len)
           ELSE <<>>)

(* count_newlines_before                                                   *)
NewlinesBefore(n, pos) ==
  IF n.kind = "leaf" THEN Newlines(Slice(n.buf, 0, pos))
  ELSE IF pos <= n.left_len THEN NewlinesBefore(n.left, pos)
  ELSE NewlineCount(n.left) + NewlinesBefore(n.right, pos - n.left_len)

(* Fault: the offset within the right side is taken for one in the whole.  *)
NthNewlineLocal(n, k) ==
  IF n.kind = "leaf"
  THEN CHOOSE i \in 0 .. Len(n.buf) - 1 :
         n.buf[i + 1] = Newline /\ Newlines(Slice(n.buf, 0, i)) = k
  ELSE IF k < NewlineCount(n.left) THEN NthNewlineLocal(n.left, k)
  ELSE NthNewlineLocal(n.right, k - NewlineCount(n.left))

(* nth_newline_pos_raw: the offset of newline number k, counted from 0.    *)
NthNewline(n, k) ==
  IF n.kind = "leaf"
  THEN CHOOSE i \in 0 .. Len(n.buf) - 1 :
         n.buf[i + 1] = Newline /\ Newlines(Slice(n.buf, 0, i)) = k
  ELSE IF k < NewlineCount(n.left) THEN NthNewline(n.left, k)
  ELSE n.left_len + NthNewline(n.right, k - NewlineCount(n.left))

RopeLineStart(row) == IF row = 0 THEN 0 ELSE NthNewline(root, row - 1) + 1

RopeLineEnd(row) ==
  IF row < NewlineCount(root) THEN NthNewline(root, row) ELSE TextLen(root)

RopeOffsetOf(pos) ==
  IF pos[1] > NewlineCount(root) THEN TextLen(root)
  ELSE RopeLineStart(pos[1])
         + Min({pos[2], RopeLineEnd(pos[1]) - RopeLineStart(pos[1])})

RopePosOf(offset) ==
  LET pos == Min({offset, TextLen(root)})
      row == NewlinesBefore(root, pos)
  IN <<row, pos - RopeLineStart(row)>>

-----------------------------------------------------------------------------
Pieces == BoundedSeq(Alphabet, MaxInsert)

Init == \E new \in Pieces \cup Files : root = Build(new)

Load(new) == root' = Build(new)

(* delete and insert do nothing when there is nothing to do.               *)
Deleted(n, pos, count) ==
  IF count = 0 \/ pos >= TextLen(n) THEN n
  ELSE DeleteRange(n, pos, Min({count, TextLen(n) - pos}))

Inserted(n, pos, new) ==
  IF new = <<>> THEN n ELSE InsertNode(n, pos, Build(new))

Fits(new) ==
  IF new \in Pieces THEN TextLen(root) + Len(new) <= MaxLength
                    ELSE TextLen(root) <= MaxPasted

Insert(pos, new) ==
  /\ Fits(new)
  /\ root' = Inserted(root, pos, new)

Delete(pos, count) == root' = Deleted(root, pos, count)

Replace(pos, count, new) ==
  /\ Fits(new)
  /\ root' = Inserted(Deleted(root, pos, count), pos, new)

Next ==
  \/ \E new \in Pieces \cup Files : Load(new)
  \/ \E pos \in 0 .. TextLen(root) + 1 :
       \/ \E new \in Pieces \cup Files : Insert(pos, new)
       \/ \E count \in 0 .. TextLen(root) + 1 :
            \/ Delete(pos, count)
            \/ \E new \in Pieces : Replace(pos, count, new)

Spec == Init /\ [][Next]_root

-----------------------------------------------------------------------------
(* Properties.                                                             *)

(* Whatever is split, merged and rotated on the way, every edit leaves the *)
(* text a plain sequence would hold; a text that is loaded is the text.    *)
EditsExact ==
  LET text == Flatten(root)
  IN /\ \A new \in Pieces : Flatten(Build(new)) = new
     /\ \A pos \in 0 .. Len(text) + 1 :
          /\ \A new \in Pieces :
               Flatten(Inserted(root, pos, new)) = Spliced(text, pos, new)
          /\ \A count \in 0 .. Len(text) + 1 :
               Flatten(Deleted(root, pos, count)) = Without(text, pos, count)

(* Leaves hold at most LeafMax characters and none is empty but a lone     *)
(* root; every cached number is the number it caches.                      *)
CachesExact ==
  \A n \in Nodes(root) :
    IF n.kind = "leaf"
    THEN /\ Len(n.buf) <= LeafMax /\ (n.buf = <<>> => n = root)
         /\ n.newline_count = Newlines(n.buf)
    ELSE /\ n.left_len = Len(Flatten(n.left))
         /\ n.total_len = Len(Flatten(n))
         /\ n.total_newlines = Newlines(Flatten(n))
         /\ n.height = 1 + Max({Height(n.left), Height(n.right)})

(* The AVL invariant the header of the file states: the sides of a branch  *)
(* differ in height by at most one.                                        *)
Balanced(n) == \A m \in Nodes(n) : BalanceFactor(m) \in {-1, 0, 1}

(* Every cached number is right whatever was loaded, pasted and edited;    *)
(* and splits, joins and rotations keep a balanced tree balanced, wherever *)
(* the edit cuts it, unless what is pasted is not balanced itself.         *)
TreeSound ==
  /\ CachesExact
  /\ Balanced(root) =>
       \A pos \in 0 .. TextLen(root) :
         /\ \A new \in Pieces \cup Files :
              Balanced(Build(new)) => Balanced(Inserted(root, pos, new))
         /\ \A count \in 0 .. TextLen(root) : Balanced(Deleted(root, pos, count))

(* Lookups by offset, by row and by position, which trust the cached       *)
(* numbers on their way down, find what is there, and rows and offsets     *)
(* convert into each other and back.                                       *)
LookupsAgree ==
  LET text == Flatten(root)
  IN /\ \A p \in 0 .. Len(text) - 1 : CharAt(root, p) = text[p + 1]
     /\ \A lo, hi \in 0 .. Len(text) :
          lo < hi => Collect(root, lo, hi) = Slice(text, lo, hi)
     /\ \A row \in 0 .. LineCount(text) - 1 :
          /\ RopeLineStart(row) = LineStart(text, row)
          /\ RopeLineEnd(row) = LineEnd(text, row)
     /\ \A p \in 0 .. Len(text) : RopePosOf(p) = PosOf(text, p)
                                  /\ RopeOffsetOf(RopePosOf(p)) = p
     /\ \A row \in 0 .. LineCount(text), col \in 0 .. Len(text) + 1 :
          RopeOffsetOf(<<row, col>>) = OffsetOf(text, <<row, col>>)

(* rope_buffer.rs:6 calls the tree one with the "AVL invariant".           *)
AlwaysBalanced == Balanced(root)

=============================================================================
