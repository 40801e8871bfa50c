------------------------------ MODULE RectPack ------------------------------
(***************************************************************************)
(* The rectangle packer, and the loop with which fonts (font_pack, font_add*)
(* and the compiler) pack their glyphs into one texture.                   *)
(*                                                                         *)
(* The packer keeps a tree whose leaves tile the plane.  rninsert tries    *)
(* the leaves from left to right, and splitting a leaf, or expanding the   *)
(* tree at its root, keeps their order: the tree is here the sequence of   *)
(* its leaves.                                                             *)
(***************************************************************************)
EXTENDS Integers, Sequences

CONSTANTS
  Boxes,  \* what is packed: glyphs
  NoBox,
  Dims,   \* widths and heights of glyphs
  Start,  \* 64, the width and the height to begin with
  MaxInt  \* 2^31 - 1

ASSUME ConstantsAssumption ==
  /\ NoBox \notin Boxes
  /\ Dims \subseteq Nat
  /\ Start \in Nat /\ MaxInt \in Nat

\* Doubling the first size comes to 2^31 exactly: both are powers of two.
Sizes == {n \in 1..MaxInt + 1 : (MaxInt + 1) % n = 0}
ASSUME SizesAssumption ==
  /\ Start \in Sizes \ {MaxInt + 1}
  /\ \A n \in Sizes \ {MaxInt + 1} : 2 * n \in Sizes

VARIABLES
  size,   \* history: the size of each glyph
  boxes,  \* the boxes: sizes, and positions of those that are packed
  leaves, \* the leaves of rectplane
  plane,  \* its width and height
  w, h,   \* the unsigned width and height of the texture
  todo,   \* the boxes the loop has not come to
  box,    \* the box it is at
  result  \* "packing", "packed" or "failed"

vars == <<size, boxes, leaves, plane, w, h, todo, box, result>>

Leaf == [x : Nat, y : Nat, w : Nat, h : Nat, c : Boxes \cup {NoBox}]
Rect(x, y, wd, ht) == [x |-> x, y |-> y, w |-> wd, h |-> ht, c |-> NoBox]

Init ==
  /\ size \in [Boxes -> [w : Dims, h : Dims]]
  /\ boxes = [b \in Boxes |-> [x |-> 0, y |-> 0, w |-> size[b].w, h |-> size[b].h]]
  /\ leaves = <<Rect(0, 0, Start, Start)>>
  /\ plane = [w |-> Start, h |-> Start]
  /\ w = Start /\ h = Start
  /\ todo = Boxes /\ box = NoBox
  /\ result = "packing"

-----------------------------------------------------------------------------
(* Inserting                                                               *)

Fits(l, b) == l.c = NoBox /\ b.w <= l.w /\ b.h <= l.h
Tight(l, b) == l.w - b.w < 2 /\ l.h - b.h < 2

\* Mutant: the rest of a leaf overlaps the part that is cut off.
HalvesOverlap(l, b) ==
  IF l.w - b.w > l.h - b.h
  THEN <<[l EXCEPT !.w = b.w], [l EXCEPT !.w = l.w - b.w]>>
  ELSE <<[l EXCEPT !.h = b.h], [l EXCEPT !.y = l.y + b.h, !.h = l.h - b.h]>>

\* The two children of a leaf: cut where more is left.
Halves(l, b) ==
  IF l.w - b.w > l.h - b.h
  THEN <<[l EXCEPT !.w = b.w], [l EXCEPT !.x = l.x + b.w, !.w = l.w - b.w]>>
  ELSE <<[l EXCEPT !.h = b.h], [l EXCEPT !.y = l.y + b.h, !.h = l.h - b.h]>>

\* The i-th element gives way to two.
Split(s, i, two) ==
  [j \in 1..Len(s) + 1 |-> IF j < i THEN s[j] ELSE IF j < i + 2 THEN two[j - i + 1] ELSE s[j - 1]]

\* The tree after rninsert comes to a leaf that b fits, which has to be cut
\* until it is tight: twice at most.
Cut(s, i, b) == IF Tight(s[i], b) THEN s ELSE Split(s, i, Halves(s[i], b))
Inserted(s, i, b) == Cut(Cut(s, i, b), i, b)

\* rninsert finds the first leaf that fits; rncopy then copies the leaf.
IsFirstFit(i) ==
  /\ i \in 1..Len(leaves) /\ Fits(leaves[i], boxes[box])
  /\ \A j \in 1..i - 1 : ~Fits(leaves[j], boxes[box])

Take(b) ==
  /\ result = "packing" /\ box = NoBox
  /\ b \in todo
  /\ box' = b
  /\ todo' = todo \ {b}
  /\ UNCHANGED <<size, boxes, leaves, plane, w, h, result>>

Insert(i) ==
  /\ result = "packing" /\ box # NoBox
  /\ IsFirstFit(i)
  /\ LET s == Inserted(leaves, i, boxes[box])
     IN /\ leaves' = [s EXCEPT ![i].c = box]
        /\ boxes' = [boxes EXCEPT ![box] = [x |-> s[i].x, y |-> s[i].y, w |-> s[i].w, h |-> s[i].h]]
  /\ box' = NoBox
  /\ UNCHANGED <<size, plane, w, h, todo, result>>

-----------------------------------------------------------------------------
(* Growing                                                                 *)

\* unsigned n <<= 1, and what an int parameter makes of it.
Wrap == 2 * (MaxInt + 1)
Twice(n) == (2 * n) % Wrap
\* Mutant: the greatest int for what is greater.
SignedClamp(n) == IF n <= MaxInt THEN n ELSE MaxInt
Signed(n) == IF n <= MaxInt THEN n ELSE n - Wrap

Larger(m, n) == IF m > n THEN m ELSE n

\* Mutant: the space below reaches too far down.
BelowDeep(ht) ==
  IF ht > plane.h THEN Append(leaves, Rect(0, plane.h, plane.w, ht)) ELSE leaves

\* expand: the whole plane becomes the first child of a new root, with a leaf
\* below it, and then with one to the right.
Below(ht) ==
  IF ht > plane.h THEN Append(leaves, Rect(0, plane.h, plane.w, ht - plane.h)) ELSE leaves
Expanded(wd, ht) ==
  IF wd > plane.w
  THEN Append(Below(ht), Rect(plane.w, 0, wd - plane.w, Larger(ht, plane.h)))
  ELSE Below(ht)

\* Mutant: nobody looks if the size has overflowed.
GrowOn ==
  /\ result = "packing" /\ box # NoBox
  /\ \A i \in 1..Len(leaves) : ~Fits(leaves[i], boxes[box])
  /\ w' = IF w > h THEN w ELSE Twice(w)
  /\ h' = IF w > h THEN Twice(h) ELSE h
  /\ leaves' = Expanded(Signed(w'), Signed(h'))
  /\ plane' = [w |-> Larger(Signed(w'), plane.w), h |-> Larger(Signed(h'), plane.h)]
  /\ UNCHANGED <<size, boxes, todo, box, result>>

\* No leaf takes the box: double the smaller of width and height.
Grow ==
  /\ result = "packing" /\ box # NoBox
  /\ \A i \in 1..Len(leaves) : ~Fits(leaves[i], boxes[box])
  /\ w' = IF w > h THEN w ELSE Twice(w)
  /\ h' = IF w > h THEN Twice(h) ELSE h
  /\ leaves' = Expanded(Signed(w'), Signed(h'))
  /\ plane' = [w |-> Larger(Signed(w'), plane.w), h |-> Larger(Signed(h'), plane.h)]
  /\ result' = IF w' = 0 \/ h' = 0 THEN "failed" ELSE result
  /\ UNCHANGED <<size, boxes, todo, box>>

Finish ==
  /\ result = "packing" /\ box = NoBox /\ todo = {}
  /\ result' = "packed"
  /\ UNCHANGED <<size, boxes, leaves, plane, w, h, todo, box>>

Next == (\E b \in Boxes : Take(b)) \/ (\E i \in 1..Len(leaves) : Insert(i)) \/ Grow \/ Finish

\* The loop does nothing else.
Spec == Init /\ [][Next]_vars /\ WF_vars(Next)

-----------------------------------------------------------------------------
\* The type of every variable.  (rectpack.h)
TypeOK ==
  /\ size \in [Boxes -> [w : Dims, h : Dims]]
  /\ boxes \in [Boxes -> [x : Nat, y : Nat, w : Nat, h : Nat]]
  /\ leaves \in Seq(Leaf)
  /\ plane \in [w : Nat, h : Nat]
  /\ w \in Nat /\ h \in Nat
  /\ todo \in SUBSET Boxes /\ box \in Boxes \cup {NoBox}
  /\ result \in {"packing", "packed", "failed"}

IsPlaced(b) == b \notin todo /\ b # box

Apart(p, q) ==
  p.x + p.w <= q.x \/ q.x + q.w <= p.x \/ p.y + p.h <= q.y \/ q.y + q.h <= p.y

Within(p, q) == p.x + p.w <= q.w /\ p.y + p.h <= q.h

\* The boxes that are packed lie apart and in the plane, with room for their
\* glyphs, however often leaves were cut and the plane grew in between.
\* (rninsert, expand, rncopy)
Packed ==
  \A b \in Boxes : IsPlaced(b) =>
    /\ Within(boxes[b], plane)
    /\ boxes[b].w >= size[b].w /\ boxes[b].h >= size[b].h
    /\ \A a \in Boxes \ {b} : IsPlaced(a) => Apart(boxes[a], boxes[b])

\* The texture that will be made is the plane, although unsigned numbers went
\* through int parameters.  (font_pack, expand)
TextureIsPlane == result = "packed" => plane = [w |-> w, h |-> h]

\* Packing ends: all is packed, or the texture can grow no more.
\* (font_pack, font_add, module_write_fonts)
Ends == <>(result # "packing")

\* Boxes keep their sizes: a box is "copied into the container", says the
\* comment of rncopy, which copies the other way; no run checks it.
SizesKept == \A b \in Boxes : boxes[b].w = size[b].w /\ boxes[b].h = size[b].h
=============================================================================
