--------------------------- MODULE RectPackProof ---------------------------
(***************************************************************************)
(* Proofs about RectPack: boxes never overlap, whatever their number and   *)
(* sizes.  The leaves are pairwise apart, and every packed box is one.     *)
(***************************************************************************)
EXTENDS RectPack, TLAPS

Apartness(s) == \A i, j \in 1..Len(s) : i # j => Apart(s[i], s[j])
Withins(s, p) == \A i \in 1..Len(s) : Within(s[i], p)
Inside(p, q) ==
  /\ q.x <= p.x /\ p.x + p.w <= q.x + q.w
  /\ q.y <= p.y /\ p.y + p.h <= q.y + q.h

\* The rectangle of a box or a leaf.
SameRect(p, q) == p.x = q.x /\ p.y = q.y /\ p.w = q.w /\ p.h = q.h

\* Leaves other than the i-th one are still there.
Kept(s, t, i) == \A j \in 1..Len(s) : j # i => \E k \in 1..Len(t) : k # i /\ t[k] = s[j]

PackedLeaf ==
  \A b \in Boxes : IsPlaced(b) =>
    \E i \in 1..Len(leaves) : leaves[i].c = b /\ SameRect(leaves[i], boxes[b])

Roomy ==
  \A b \in Boxes : boxes[b].w >= size[b].w /\ boxes[b].h >= size[b].h

IInv ==
  /\ TypeOK
  /\ Apartness(leaves) /\ Withins(leaves, plane)
  /\ PackedLeaf /\ Roomy

BoxType == [x : Nat, y : Nat, w : Nat, h : Nat]

-----------------------------------------------------------------------------
(* Cutting a leaf                                                          *)

LEMMA EditLeaf ==
  ASSUME NEW l \in Leaf, NEW m \in Nat, NEW n \in Nat
  PROVE  /\ [l EXCEPT !.w = n] \in Leaf /\ [l EXCEPT !.h = n] \in Leaf
         /\ [l EXCEPT !.x = m, !.w = n] \in Leaf /\ [l EXCEPT !.y = m, !.h = n] \in Leaf
  BY DEF Leaf

LEMMA HalvesFacts ==
  ASSUME NEW l \in Leaf, NEW b \in BoxType, Fits(l, b)
  PROVE  /\ Halves(l, b)[1] \in Leaf /\ Halves(l, b)[2] \in Leaf
         /\ Inside(Halves(l, b)[1], l) /\ Inside(Halves(l, b)[2], l)
         /\ Apart(Halves(l, b)[1], Halves(l, b)[2])
         /\ Fits(Halves(l, b)[1], b)
<1>1. l.x \in Nat /\ l.y \in Nat /\ l.w \in Nat /\ l.h \in Nat /\ l.c = NoBox
      /\ b.w \in Nat /\ b.h \in Nat /\ b.w <= l.w /\ b.h <= l.h
  BY DEF Leaf, BoxType, Fits
<1>a. l.w - b.w \in Nat /\ l.h - b.h \in Nat /\ l.x + b.w \in Nat /\ l.y + b.h \in Nat
  BY <1>1
<1> DEFINE u == Halves(l, b)[1]
           v == Halves(l, b)[2]
<1>2. CASE l.w - b.w > l.h - b.h
  <2>1. Halves(l, b)[1] = [l EXCEPT !.w = b.w]
        /\ Halves(l, b)[2] = [l EXCEPT !.x = l.x + b.w, !.w = l.w - b.w]
    BY <1>2 DEF Halves
  <2>a. [l EXCEPT !.w = b.w] \in Leaf
    BY <1>1, EditLeaf
  <2>b. [l EXCEPT !.x = l.x + b.w, !.w = l.w - b.w] \in Leaf
    BY <1>a, EditLeaf
  <2>2. u \in Leaf /\ v \in Leaf
    BY <2>1, <2>a, <2>b
  <2>3. u.x = l.x /\ u.y = l.y /\ u.w = b.w /\ u.h = l.h /\ u.c = l.c
        /\ v.x = l.x + b.w /\ v.y = l.y /\ v.w = l.w - b.w /\ v.h = l.h
    BY <2>1 DEF Leaf
  <2> HIDE DEF u, v
  <2>4. Inside(u, l) /\ Inside(v, l) /\ Apart(u, v) /\ Fits(u, b)
    BY <1>1, <2>3 DEF Inside, Apart, Fits
  <2> QED
    BY <2>2, <2>4 DEF u, v
<1>3. CASE ~(l.w - b.w > l.h - b.h)
  <2>1. Halves(l, b)[1] = [l EXCEPT !.h = b.h]
        /\ Halves(l, b)[2] = [l EXCEPT !.y = l.y + b.h, !.h = l.h - b.h]
    BY <1>3 DEF Halves
  <2>a. [l EXCEPT !.h = b.h] \in Leaf
    BY <1>1, EditLeaf
  <2>b. [l EXCEPT !.y = l.y + b.h, !.h = l.h - b.h] \in Leaf
    BY <1>a, EditLeaf
  <2>2. u \in Leaf /\ v \in Leaf
    BY <2>1, <2>a, <2>b
  <2>3. u.x = l.x /\ u.y = l.y /\ u.w = l.w /\ u.h = b.h /\ u.c = l.c
        /\ v.x = l.x /\ v.y = l.y + b.h /\ v.w = l.w /\ v.h = l.h - b.h
    BY <2>1 DEF Leaf
  <2> HIDE DEF u, v
  <2>4. Inside(u, l) /\ Inside(v, l) /\ Apart(u, v) /\ Fits(u, b)
    BY <1>1, <2>3 DEF Inside, Apart, Fits
  <2> QED
    BY <2>2, <2>4 DEF u, v
<1> QED
  BY <1>2, <1>3

\* What is apart from a leaf is apart from the parts of it.
LEMMA InsideApart ==
  ASSUME NEW p \in Leaf, NEW q \in Leaf, NEW r \in Leaf, Inside(p, q)
  PROVE  /\ Apart(q, r) => Apart(p, r)
         /\ Apart(r, q) => Apart(r, p)
  BY DEF Inside, Apart, Leaf

LEMMA ApartSym == ASSUME NEW p \in Leaf, NEW q \in Leaf, Apart(p, q) PROVE Apart(q, p)
  BY DEF Apart

LEMMA InsideSelf == ASSUME NEW p \in Leaf PROVE Inside(p, p)
  BY DEF Inside, Leaf

LEMMA InsideWithin ==
  ASSUME NEW p \in Leaf, NEW q \in Leaf, NEW r \in [w : Nat, h : Nat], Inside(p, q), Within(q, r)
  PROVE  Within(p, r)
<1>1. /\ p.x \in Nat /\ p.y \in Nat /\ p.w \in Nat /\ p.h \in Nat
      /\ q.x \in Nat /\ q.y \in Nat /\ q.w \in Nat /\ q.h \in Nat
      /\ r.w \in Nat /\ r.h \in Nat
  BY DEF Leaf
<1> QED
  BY <1>1 DEF Inside, Within

LEMMA SplitFacts ==
  ASSUME NEW s \in Seq(Leaf), NEW p \in [w : Nat, h : Nat], NEW i \in 1..Len(s),
         NEW two, two[1] \in Leaf, two[2] \in Leaf,
         Inside(two[1], s[i]), Inside(two[2], s[i]), Apart(two[1], two[2]),
         Apartness(s), Withins(s, p)
  PROVE  /\ Split(s, i, two) \in Seq(Leaf) /\ i \in 1..Len(Split(s, i, two))
         /\ Apartness(Split(s, i, two)) /\ Withins(Split(s, i, two), p)
         /\ Split(s, i, two)[i] = two[1]
         /\ Kept(s, Split(s, i, two), i)
<1> DEFINE t == Split(s, i, two)
           n == Len(s)
           From(j) == IF j <= i THEN j ELSE j - 1
<1>0. n \in Nat /\ i \in Nat /\ \A j \in 1..n : s[j] \in Leaf
  OBVIOUS
<1>1. \A j \in 1..n + 1 : From(j) \in 1..n
  BY <1>0
<1>2. \A j \in 1..n + 1 : t[j] = IF j < i THEN s[j] ELSE IF j < i + 2 THEN two[j - i + 1] ELSE s[j - 1]
  BY DEF Split
<1>3. t[i] = two[1] /\ t[i + 1] = two[2]
  BY <1>0, <1>2
<1>4. ASSUME NEW j \in 1..n + 1, j # i, j # i + 1 PROVE t[j] = s[From(j)] /\ From(j) # i
  BY <1>0, <1>2, <1>4
<1>5. \A j \in 1..n + 1 : t[j] \in Leaf /\ Inside(t[j], s[From(j)])
  <2> SUFFICES ASSUME NEW j \in 1..n + 1 PROVE t[j] \in Leaf /\ Inside(t[j], s[From(j)])
    OBVIOUS
  <2>1. CASE j = i \/ j = i + 1
    <3>1. From(j) = i
      BY <1>0, <2>1
    <3> QED
      BY <1>3, <2>1, <3>1
  <2>2. CASE j # i /\ j # i + 1
    <3>1. t[j] = s[From(j)] /\ s[From(j)] \in Leaf
      BY <1>0, <1>1, <1>4, <2>2
    <3> HIDE DEF t, From
    <3>3. Inside(s[From(j)], s[From(j)])
      BY <3>1, InsideSelf
    <3> QED
      BY <3>1, <3>3
  <2> QED
    BY <2>1, <2>2
<1>6. t \in Seq(Leaf) /\ Len(t) = n + 1
  BY <1>0, <1>5 DEF Split
<1>7. Withins(t, p)
  <2> SUFFICES ASSUME NEW j \in 1..n + 1 PROVE Within(t[j], p)
    BY <1>6 DEF Withins
  <2>1. Within(s[From(j)], p) /\ s[From(j)] \in Leaf
    BY <1>0, <1>1 DEF Withins
  <2>2. t[j] \in Leaf /\ Inside(t[j], s[From(j)])
    BY <1>5
  <2> HIDE DEF t, From
  <2> QED
    BY <2>1, <2>2, InsideWithin
<1>8. Apartness(t)
  <2> SUFFICES ASSUME NEW j \in 1..n + 1, NEW k \in 1..n + 1, j # k PROVE Apart(t[j], t[k])
    BY <1>6 DEF Apartness
  <2>1. CASE From(j) # From(k)
    <3>1. Apart(s[From(j)], s[From(k)])
      BY <1>1, <2>1 DEF Apartness
    <3>2. /\ s[From(j)] \in Leaf /\ s[From(k)] \in Leaf /\ t[j] \in Leaf /\ t[k] \in Leaf
          /\ Inside(t[j], s[From(j)]) /\ Inside(t[k], s[From(k)])
      BY <1>0, <1>1, <1>5
    <3> HIDE DEF t, From
    <3>3. Apart(t[j], s[From(k)])
      BY <3>1, <3>2, InsideApart
    <3> QED
      BY <3>2, <3>3, InsideApart
  <2>2. CASE From(j) = From(k)
    <3>1. (j = i /\ k = i + 1) \/ (j = i + 1 /\ k = i)
      BY <1>0, <2>2
    <3> QED
      BY <1>3, <3>1, ApartSym
  <2> QED
    BY <2>1, <2>2
<1>9. Kept(s, t, i)
  <2> SUFFICES ASSUME NEW j \in 1..n, j # i
               PROVE  \E k \in 1..n + 1 : k # i /\ t[k] = s[j]
    BY <1>6 DEF Kept
  <2>1. CASE j < i
    BY <1>0, <1>2, <2>1
  <2>2. CASE j > i
    <3>1. j + 1 \in 1..n + 1 /\ j + 1 # i /\ t[j + 1] = s[j]
      <4>1. j \in Nat /\ j + 1 \in 1..n + 1 /\ ~(j + 1 < i) /\ ~(j + 1 < i + 2)
            /\ j + 1 # i /\ (j + 1) - 1 = j
        BY <1>0, <2>2
      <4> HIDE DEF t
      <4>2. t[j + 1] = s[(j + 1) - 1]
        BY <1>2, <4>1
      <4> QED
        BY <4>1, <4>2
    <3> QED
      BY <3>1
  <2> QED
    BY <1>0, <2>1, <2>2
<1> QED
  BY <1>0, <1>3, <1>6, <1>7, <1>8, <1>9

\* What is needed of the sequence of leaves while a box is being inserted.
Ready(s, p, i, b) ==
  /\ s \in Seq(Leaf) /\ i \in 1..Len(s)
  /\ Apartness(s) /\ Withins(s, p)
  /\ Fits(s[i], b)

LEMMA KeptTrans ==
  ASSUME NEW s, NEW t, NEW u, NEW i, Kept(s, t, i), Kept(t, u, i) PROVE Kept(s, u, i)
  BY DEF Kept

LEMMA CutFacts ==
  ASSUME NEW s, NEW p \in [w : Nat, h : Nat], NEW i, NEW b \in BoxType, Ready(s, p, i, b)
  PROVE  Ready(Cut(s, i, b), p, i, b) /\ Kept(s, Cut(s, i, b), i)
<1>1. CASE Tight(s[i], b)
  BY <1>1 DEF Cut, Kept
<1>2. CASE ~Tight(s[i], b)
  <2> DEFINE two == Halves(s[i], b)
  <2>1. s[i] \in Leaf /\ Fits(s[i], b) /\ i \in 1..Len(s) /\ s \in Seq(Leaf)
    BY DEF Ready
  <2>2. /\ two[1] \in Leaf /\ two[2] \in Leaf
        /\ Inside(two[1], s[i]) /\ Inside(two[2], s[i])
        /\ Apart(two[1], two[2]) /\ Fits(two[1], b)
    BY <2>1, HalvesFacts
  <2> HIDE DEF two
  <2>3. /\ Split(s, i, two) \in Seq(Leaf) /\ i \in 1..Len(Split(s, i, two))
        /\ Apartness(Split(s, i, two)) /\ Withins(Split(s, i, two), p)
        /\ Split(s, i, two)[i] = two[1]
        /\ Kept(s, Split(s, i, two), i)
    BY <2>1, <2>2, SplitFacts DEF Ready
  <2>4. Cut(s, i, b) = Split(s, i, two)
    BY <1>2 DEF Cut, two
  <2> QED
    BY <2>2, <2>3, <2>4 DEF Ready
<1> QED
  BY <1>1, <1>2

LEMMA InsertedFacts ==
  ASSUME NEW s, NEW p \in [w : Nat, h : Nat], NEW i, NEW b \in BoxType, Ready(s, p, i, b)
  PROVE  Ready(Inserted(s, i, b), p, i, b) /\ Kept(s, Inserted(s, i, b), i)
<1> DEFINE t == Cut(s, i, b)
<1>1. Ready(t, p, i, b) /\ Kept(s, t, i)
  BY CutFacts
<1> HIDE DEF t
<1>2. Ready(Cut(t, i, b), p, i, b) /\ Kept(t, Cut(t, i, b), i)
  BY <1>1, CutFacts
<1>3. Kept(s, Cut(t, i, b), i)
  BY <1>1, <1>2, KeptTrans
<1> QED
  BY <1>2, <1>3 DEF Inserted, t

LEMMA BeyondApart ==
  ASSUME NEW a \in Leaf, NEW l \in Leaf, NEW p \in [w : Nat, h : Nat], NEW q \in [w : Nat, h : Nat],
         p.w <= q.w, p.h <= q.h, Within(a, p), l.x >= p.w \/ l.y >= p.h
  PROVE  Within(a, q) /\ Apart(a, l) /\ Apart(l, a)
<1>1. /\ a.x \in Nat /\ a.y \in Nat /\ a.w \in Nat /\ a.h \in Nat
      /\ l.x \in Nat /\ l.y \in Nat /\ l.w \in Nat /\ l.h \in Nat
      /\ p.w \in Nat /\ p.h \in Nat /\ q.w \in Nat /\ q.h \in Nat
  BY DEF Leaf
<1>2. a.x + a.w <= p.w /\ a.y + a.h <= p.h
  BY DEF Within
<1>3. Within(a, q)
  BY <1>1, <1>2 DEF Within
<1>4. a.x + a.w <= l.x \/ a.y + a.h <= l.y
  BY <1>1, <1>2
<1> QED
  BY <1>3, <1>4 DEF Apart

\* A leaf that begins where the plane ends is apart from the others.
LEMMA AppendFacts ==
  ASSUME NEW s \in Seq(Leaf), Apartness(s), NEW p \in [w : Nat, h : Nat], Withins(s, p),
         NEW q \in [w : Nat, h : Nat], p.w <= q.w, p.h <= q.h,
         NEW l \in Leaf, Within(l, q), l.x >= p.w \/ l.y >= p.h
  PROVE  /\ Append(s, l) \in Seq(Leaf)
         /\ Apartness(Append(s, l)) /\ Withins(Append(s, l), q)
         /\ \A i \in 1..Len(s) : i \in 1..Len(Append(s, l)) /\ Append(s, l)[i] = s[i]
<1> DEFINE t == Append(s, l)
<1>1. /\ t \in Seq(Leaf) /\ Len(t) = Len(s) + 1 /\ t[Len(t)] = l
      /\ \A i \in 1..Len(s) : i \in 1..Len(t) /\ t[i] = s[i]
      /\ \A i \in 1..Len(t) : i \in 1..Len(s) \/ i = Len(t)
  OBVIOUS
<1>2. ASSUME NEW i \in 1..Len(s) PROVE Within(s[i], q) /\ Apart(s[i], l) /\ Apart(l, s[i])
  <2>1. s[i] \in Leaf /\ Within(s[i], p)
    BY DEF Withins
  <2> QED
    BY <2>1, BeyondApart
<1> HIDE DEF t
<1>3. Withins(t, q)
  BY <1>1, <1>2 DEF Withins
<1>4. Apartness(t)
  <2> SUFFICES ASSUME NEW i \in 1..Len(t), NEW j \in 1..Len(t), i # j PROVE Apart(t[i], t[j])
    BY DEF Apartness
  <2>1. CASE i \in 1..Len(s) /\ j \in 1..Len(s)
    BY <1>1, <2>1 DEF Apartness
  <2>2. CASE i = Len(t) /\ j \in 1..Len(s)
    BY <1>1, <1>2, <2>2
  <2>3. CASE j = Len(t) /\ i \in 1..Len(s)
    BY <1>1, <1>2, <2>3
  <2> QED
    BY <1>1, <2>1, <2>2, <2>3
<1> QED
  BY <1>1, <1>3, <1>4 DEF t

-----------------------------------------------------------------------------
(* The steps                                                               *)

LEMMA InitInv == Init => IInv
<1> SUFFICES ASSUME Init PROVE IInv
  OBVIOUS
<1>1. leaves = <<Rect(0, 0, Start, Start)>> /\ Rect(0, 0, Start, Start) \in Leaf
  BY ConstantsAssumption DEF Init, Rect, Leaf
<1>2. \A b \in Boxes : size[b].w \in Nat /\ size[b].h \in Nat
  BY ConstantsAssumption DEF Init
<1>3. boxes \in [Boxes -> BoxType] /\ Roomy
  BY <1>2 DEF Init, BoxType, Roomy
<1>4. TypeOK
  BY <1>1, <1>3, ConstantsAssumption DEF Init, TypeOK, BoxType
<1>5. Apartness(leaves) /\ Withins(leaves, plane)
  BY <1>1, ConstantsAssumption DEF Init, Apartness, Withins, Within, Rect
<1>6. PackedLeaf
  BY DEF Init, PackedLeaf, IsPlaced
<1> QED
  BY <1>3, <1>4, <1>5, <1>6 DEF IInv

LEMMA InsertStep == ASSUME IInv, NEW i \in 1..Len(leaves), Insert(i) PROVE IInv'
<1> DEFINE s == Inserted(leaves, i, boxes[box])
           r == [x |-> s[i].x, y |-> s[i].y, w |-> s[i].w, h |-> s[i].h]
<1>1. box \in Boxes /\ boxes[box] \in BoxType /\ Ready(leaves, plane, i, boxes[box])
      /\ plane \in [w : Nat, h : Nat]
  BY DEF IInv, TypeOK, Insert, IsFirstFit, BoxType, Ready
<1>2. Ready(s, plane, i, boxes[box]) /\ Kept(leaves, s, i)
  BY <1>1, InsertedFacts
<1>3. /\ leaves' = [s EXCEPT ![i].c = box]
      /\ boxes' = [boxes EXCEPT ![box] = r]
      /\ box' = NoBox
      /\ UNCHANGED <<size, plane, w, h, todo, result>>
  BY DEF Insert
<1> HIDE DEF s
<1>4. /\ s \in Seq(Leaf) /\ s[i] \in Leaf /\ i \in 1..Len(s)
      /\ s[i].w >= boxes[box].w /\ s[i].h >= boxes[box].h
  BY <1>2 DEF Ready, Fits
<1> DEFINE new == [s[i] EXCEPT !.c = box]
<1>5. new \in Leaf /\ new.c = box /\ SameRect(new, s[i])
  BY <1>1, <1>4 DEF Leaf, SameRect
<1>6. /\ leaves' \in Seq(Leaf) /\ Len(leaves') = Len(s)
      /\ leaves'[i] = new
      /\ \A j \in 1..Len(s) : j # i => leaves'[j] = s[j]
  <2>1. leaves' = [s EXCEPT ![i] = new]
    BY <1>3
  <2> HIDE DEF new
  <2> QED
    BY <1>4, <1>5, <2>1
<1> HIDE DEF new
<1>7. \A j \in 1..Len(s) : SameRect(leaves'[j], s[j])
  BY <1>5, <1>6 DEF SameRect
<1>8. Apartness(leaves') /\ Withins(leaves', plane')
  <2>1. Apartness(s) /\ Withins(s, plane) /\ plane' = plane
    BY <1>2, <1>3 DEF Ready
  <2> QED
    BY <1>6, <1>7, <2>1 DEF Apartness, Withins, Within, Apart, SameRect
<1>9. r \in BoxType /\ boxes' \in [Boxes -> BoxType] /\ boxes'[box] = r
      /\ \A b \in Boxes : b # box => boxes'[b] = boxes[b]
  <2>1. r \in BoxType
    BY <1>4 DEF Leaf, BoxType
  <2>2. boxes \in [Boxes -> BoxType]
    BY DEF IInv, TypeOK, BoxType
  <2> QED
    BY <1>1, <1>3, <2>1, <2>2
<1>10. TypeOK'
  BY <1>3, <1>6, <1>9 DEF IInv, TypeOK, BoxType
<1>11. Roomy'
  <2> SUFFICES ASSUME NEW b \in Boxes
               PROVE  boxes'[b].w >= size'[b].w /\ boxes'[b].h >= size'[b].h
    BY DEF Roomy
  <2>1. boxes[b].w >= size[b].w /\ boxes[b].h >= size[b].h /\ size' = size
    BY <1>3 DEF IInv, Roomy
  <2>2. CASE b # box
    BY <1>9, <2>1, <2>2
  <2>3. CASE b = box
    <3>1. boxes'[b].w = s[i].w /\ boxes'[b].h = s[i].h
      BY <1>9, <2>3
    <3>2. /\ s[i].w \in Nat /\ s[i].h \in Nat /\ boxes[b].w \in Nat /\ boxes[b].h \in Nat
          /\ size[b].w \in Nat /\ size[b].h \in Nat
      BY <1>1, <1>4, <2>3, ConstantsAssumption DEF IInv, TypeOK, Leaf, BoxType
    <3> QED
      BY <1>4, <2>1, <2>3, <3>1, <3>2
  <2> QED
    BY <2>2, <2>3
<1>12. PackedLeaf'
  <2> SUFFICES ASSUME NEW b \in Boxes, IsPlaced(b)'
               PROVE  \E k \in 1..Len(leaves') : leaves'[k].c = b /\ SameRect(leaves'[k], boxes'[b])
    BY DEF PackedLeaf
  <2>1. CASE b = box
    <3>1. SameRect(leaves'[i], boxes'[b])
      BY <1>5, <1>6, <1>9, <2>1 DEF SameRect
    <3> QED
      BY <1>4, <1>5, <1>6, <2>1, <3>1
  <2>2. CASE b # box
    <3>1. IsPlaced(b)
      BY <1>3, <2>2 DEF IsPlaced
    <3>2. PICK j \in 1..Len(leaves) : leaves[j].c = b /\ SameRect(leaves[j], boxes[b])
      BY <3>1 DEF IInv, PackedLeaf
    <3>3. leaves[i].c = NoBox /\ b # NoBox
      BY ConstantsAssumption, <1>1 DEF Ready, Fits
    <3>4. PICK k \in 1..Len(s) : k # i /\ s[k] = leaves[j]
      BY <1>2, <3>2, <3>3 DEF Kept
    <3>5. leaves'[k] = leaves[j] /\ boxes'[b] = boxes[b]
      BY <1>6, <1>9, <2>2, <3>4
    <3> QED
      BY <1>6, <3>2, <3>4, <3>5
  <2> QED
    BY <2>1, <2>2
<1> QED
  BY <1>8, <1>10, <1>11, <1>12 DEF IInv

\* Leaves keep their places, and new ones come behind.
Extends(s, t) == \A i \in 1..Len(s) : i \in 1..Len(t) /\ t[i] = s[i]
Wide(p, wd, ht) == [w |-> Larger(wd, p.w), h |-> Larger(ht, p.h)]

LEMMA ExpandFacts ==
  ASSUME leaves \in Seq(Leaf), plane \in [w : Nat, h : Nat],
         Apartness(leaves), Withins(leaves, plane), NEW wd \in Int, NEW ht \in Int
  PROVE  /\ Wide(plane, wd, ht) \in [w : Nat, h : Nat]
         /\ Expanded(wd, ht) \in Seq(Leaf)
         /\ Apartness(Expanded(wd, ht)) /\ Withins(Expanded(wd, ht), Wide(plane, wd, ht))
         /\ Extends(leaves, Expanded(wd, ht))
<1> DEFINE tall == Larger(ht, plane.h)
           q == [w |-> plane.w, h |-> tall]
           big == Wide(plane, wd, ht)
           s == Below(ht)
           below == Rect(0, plane.h, plane.w, ht - plane.h)
           right == Rect(plane.w, 0, wd - plane.w, tall)
<1>1. /\ plane.w \in Nat /\ plane.h \in Nat /\ tall \in Nat
      /\ tall >= plane.h /\ (ht > plane.h => tall = ht) /\ (~(ht > plane.h) => tall = plane.h)
  BY DEF Larger
<1>2. /\ Larger(wd, plane.w) \in Nat /\ Larger(wd, plane.w) >= plane.w
      /\ (wd > plane.w => Larger(wd, plane.w) = wd)
      /\ (~(wd > plane.w) => Larger(wd, plane.w) = plane.w)
  BY <1>1 DEF Larger
<1>3. q \in [w : Nat, h : Nat] /\ big \in [w : Nat, h : Nat]
      /\ q.w = plane.w /\ q.h = tall /\ big.w = Larger(wd, plane.w) /\ big.h = tall
  BY <1>1, <1>2 DEF Wide
<1>4. s \in Seq(Leaf) /\ Apartness(s) /\ Withins(s, q) /\ Extends(leaves, s)
  <2>1. CASE ht > plane.h
    <3>1. ht - plane.h \in Nat /\ plane.h + (ht - plane.h) = ht
      BY <1>1, <2>1
    <3>2. below \in Leaf /\ below.y = plane.h /\ below.x = 0 /\ below.w = plane.w /\ below.h = ht - plane.h
      BY <1>1, <3>1 DEF Rect, Leaf
    <3>3. Within(below, q)
      BY <1>1, <1>3, <2>1, <3>1, <3>2 DEF Within
    <3>4. s = Append(leaves, below)
      BY <2>1 DEF Below
    <3>5. below.y >= plane.h /\ plane.w <= q.w /\ plane.h <= q.h
      BY <1>1, <1>3, <3>2
    <3> HIDE DEF below, q, s
    <3> QED
      BY <1>3, <3>2, <3>3, <3>4, <3>5, AppendFacts DEF Extends
  <2>2. CASE ~(ht > plane.h)
    <3>1. s = leaves /\ q.w = plane.w /\ q.h = plane.h
      BY <1>1, <1>3, <2>2 DEF Below
    <3> HIDE DEF q, s
    <3> QED
      BY <3>1 DEF Withins, Within, Extends
  <2> QED
    BY <2>1, <2>2
<1> HIDE DEF s, q
<1>5. CASE wd > plane.w
  <2>1. wd - plane.w \in Nat /\ plane.w + (wd - plane.w) = wd
    BY <1>1, <1>5
  <2>2. right \in Leaf /\ right.x = plane.w /\ right.y = 0 /\ right.w = wd - plane.w /\ right.h = tall
    BY <1>1, <2>1 DEF Rect, Leaf
  <2> HIDE DEF right, big
  <2>3. Within(right, big)
    BY <1>1, <1>2, <1>3, <1>5, <2>1, <2>2 DEF Within
  <2>4. Expanded(wd, ht) = Append(s, right)
    BY <1>5 DEF Expanded, s, right
  <2>5. right.x >= q.w /\ q.w <= big.w /\ q.h <= big.h
    BY <1>1, <1>2, <1>3, <2>2
  <2>6. /\ Append(s, right) \in Seq(Leaf)
        /\ Apartness(Append(s, right)) /\ Withins(Append(s, right), big)
        /\ Extends(s, Append(s, right))
    BY <1>3, <1>4, <2>2, <2>3, <2>5, AppendFacts DEF Extends
  <2>7. Extends(leaves, Append(s, right))
    BY <1>4, <2>6 DEF Extends
  <2> QED
    BY <1>3, <2>4, <2>6, <2>7 DEF big
<1>6. CASE ~(wd > plane.w)
  <2>1. Expanded(wd, ht) = s /\ big.w = q.w /\ big.h = q.h
    BY <1>2, <1>3, <1>6 DEF Expanded, s
  <2> HIDE DEF big
  <2>2. Withins(s, big)
    BY <1>4, <2>1 DEF Withins, Within
  <2> QED
    BY <1>3, <1>4, <2>1, <2>2 DEF big
<1> QED
  BY <1>5, <1>6

LEMMA GrowStep == ASSUME IInv, Grow PROVE IInv'
<1>1. /\ w' = IF w > h THEN w ELSE Twice(w)
      /\ h' = IF w > h THEN Twice(h) ELSE h
      /\ leaves' = Expanded(Signed(w'), Signed(h'))
      /\ plane' = Wide(plane, Signed(w'), Signed(h'))
      /\ result' = IF w' = 0 \/ h' = 0 THEN "failed" ELSE result
      /\ UNCHANGED <<size, boxes, todo, box>>
  BY DEF Grow, Wide
<1>2. \A n \in Nat : Twice(n) \in Nat /\ Signed(n) \in Int
  BY ConstantsAssumption DEF Twice, Signed, Wrap
<1>3. w' \in Nat /\ h' \in Nat /\ Signed(w') \in Int /\ Signed(h') \in Int
  BY <1>1, <1>2 DEF IInv, TypeOK
<1>4. /\ leaves \in Seq(Leaf) /\ plane \in [w : Nat, h : Nat]
      /\ Apartness(leaves) /\ Withins(leaves, plane)
  BY DEF IInv, TypeOK
<1>5. /\ plane' \in [w : Nat, h : Nat] /\ leaves' \in Seq(Leaf)
      /\ Apartness(leaves') /\ Withins(leaves', plane') /\ Extends(leaves, leaves')
  BY <1>1, <1>3, <1>4, ExpandFacts
<1>6. TypeOK'
  BY <1>1, <1>3, <1>5 DEF IInv, TypeOK
<1>7. PackedLeaf'
  <2> SUFFICES ASSUME NEW b \in Boxes, IsPlaced(b)'
               PROVE  \E k \in 1..Len(leaves') : leaves'[k].c = b /\ SameRect(leaves'[k], boxes'[b])
    BY DEF PackedLeaf
  <2>1. PICK k \in 1..Len(leaves) : leaves[k].c = b /\ SameRect(leaves[k], boxes[b])
    BY <1>1 DEF IsPlaced, IInv, PackedLeaf
  <2> QED
    BY <1>1, <1>5, <2>1 DEF Extends
<1>8. Roomy'
  BY <1>1 DEF IInv, Roomy
<1> QED
  BY <1>5, <1>6, <1>7, <1>8 DEF IInv

LEMMA StepInv == IInv /\ [Next]_vars => IInv'
<1> SUFFICES ASSUME IInv, [Next]_vars PROVE IInv'
  OBVIOUS
<1>1. ASSUME NEW b \in Boxes, Take(b) PROVE IInv'
  <2>1. /\ box = NoBox /\ box' = b /\ todo' = todo \ {b}
        /\ UNCHANGED <<size, boxes, leaves, plane, w, h, result>>
    BY <1>1 DEF Take
  <2>2. TypeOK'
    BY <2>1 DEF IInv, TypeOK
  <2>3. \A a \in Boxes : IsPlaced(a)' => IsPlaced(a)
    BY <2>1, ConstantsAssumption DEF IsPlaced
  <2> QED
    BY <2>1, <2>2, <2>3 DEF IInv, Roomy, PackedLeaf
<1>2. CASE Finish
  BY <1>2 DEF Finish, IInv, TypeOK, Roomy, PackedLeaf, IsPlaced
<1>3. CASE UNCHANGED vars
  BY <1>3 DEF vars, IInv, TypeOK, Roomy, PackedLeaf, IsPlaced
<1> QED
  BY <1>1, <1>2, <1>3, InsertStep, GrowStep DEF Next

LEMMA Invariance == Spec => []IInv
  BY InitInv, StepInv, PTL DEF Spec

\* Every variable keeps its type: no leaf ever has a negative size.
\* (rninsert, expand)
THEOREM TypeCorrect == Spec => []TypeOK
<1>1. IInv => TypeOK
  BY DEF IInv
<1> QED
  BY <1>1, Invariance, PTL

\* For any number of boxes of any sizes, packed in any order: they lie apart
\* and in the plane.  (rninsert, expand, rncopy)
THEOREM PackedApart == Spec => []Packed
<1>1. IInv => Packed
  <2> SUFFICES ASSUME IInv, NEW b \in Boxes, IsPlaced(b)
               PROVE  /\ Within(boxes[b], plane)
                      /\ \A a \in Boxes \ {b} : IsPlaced(a) => Apart(boxes[a], boxes[b])
    BY DEF Packed, IInv, Roomy
  <2>1. PICK i \in 1..Len(leaves) : leaves[i].c = b /\ SameRect(leaves[i], boxes[b])
    BY DEF IInv, PackedLeaf
  <2>2. Within(boxes[b], plane)
    BY <2>1 DEF IInv, Withins, Within, SameRect
  <2>3. ASSUME NEW a \in Boxes \ {b}, IsPlaced(a) PROVE Apart(boxes[a], boxes[b])
    <3>1. PICK j \in 1..Len(leaves) : leaves[j].c = a /\ SameRect(leaves[j], boxes[a])
      BY <2>3 DEF IInv, PackedLeaf
    <3>2. Apart(leaves[j], leaves[i])
      BY <2>1, <3>1 DEF IInv, Apartness
    <3> QED
      BY <2>1, <3>1, <3>2 DEF Apart, SameRect
  <2> QED
    BY <2>2, <2>3
<1> QED
  BY <1>1, Invariance, PTL

-----------------------------------------------------------------------------
(* The texture and the plane.                                              *)

\* Once a size has reached 2^31, which as an int is negative, the plane no
\* longer follows it, but nothing is packed any more either: the box at hand
\* does not fit, and the next doublings come to 0.
Overflown == w = MaxInt + 1 \/ h = MaxInt + 1
PlaneInv ==
  /\ w \in Sizes /\ h \in Sizes
  /\ h <= w /\ (h = w \/ w = 2 * h)
  /\ w # MaxInt + 1 => plane.w = w
  /\ h # MaxInt + 1 => plane.h = h
  /\ Overflown => /\ result = "packing" /\ box # NoBox
                  /\ \A i \in 1..Len(leaves) : ~Fits(leaves[i], boxes[box])

TextureInv == result # "failed" => PlaneInv

LEMMA SizesFacts ==
  /\ MaxInt \in Nat /\ \A n \in Sizes : n \in 1..MaxInt + 1
  /\ \A n \in Sizes : n # MaxInt + 1 => 2 * n \in Sizes /\ Twice(n) = 2 * n /\ Signed(n) = n
  /\ Twice(MaxInt + 1) = 0 /\ Signed(MaxInt + 1) \in Int /\ Signed(MaxInt + 1) < 0
<1>1. MaxInt \in Nat /\ \A n \in Sizes : n \in 1..MaxInt + 1
  BY ConstantsAssumption DEF Sizes
<1>2. Signed(MaxInt + 1) \in Int /\ Signed(MaxInt + 1) < 0
  BY <1>1 DEF Signed, Wrap
<1>3. Twice(MaxInt + 1) = 0
  BY <1>1 DEF Twice, Wrap
<1>4. ASSUME NEW n \in Sizes, n # MaxInt + 1
      PROVE  2 * n \in Sizes /\ Twice(n) = 2 * n /\ Signed(n) = n
  <2>1. 2 * n \in Sizes /\ n \in 1..MaxInt
    BY <1>1, <1>4, SizesAssumption
  <2>2. 2 * n \in 1..MaxInt + 1
    BY <1>1, <2>1
  <2> QED
    BY <1>1, <2>1, <2>2 DEF Twice, Signed, Wrap
<1> QED
  BY <1>1, <1>2, <1>3, <1>4

\* No growth, and no box that fits, once a size has overflowed.
LEMMA TextureGrow ==
  ASSUME IInv, TextureInv, Grow PROVE TextureInv'
<1>1. /\ result = "packing" /\ box # NoBox
      /\ \A i \in 1..Len(leaves) : ~Fits(leaves[i], boxes[box])
      /\ w' = IF w > h THEN w ELSE Twice(w)
      /\ h' = IF w > h THEN Twice(h) ELSE h
      /\ leaves' = Expanded(Signed(w'), Signed(h'))
      /\ plane' = [w |-> Larger(Signed(w'), plane.w), h |-> Larger(Signed(h'), plane.h)]
      /\ result' = IF w' = 0 \/ h' = 0 THEN "failed" ELSE result
      /\ UNCHANGED <<boxes, box>>
  BY DEF Grow
<1>2. PlaneInv /\ plane.w \in Nat /\ plane.h \in Nat
  BY <1>1 DEF TextureInv, IInv, TypeOK
<1>3. w \in 1..MaxInt + 1 /\ h \in 1..MaxInt + 1 /\ MaxInt \in Nat /\ h <= w
  BY <1>2, SizesFacts DEF PlaneInv
<1> SUFFICES ASSUME result' # "failed" PROVE PlaneInv'
  BY DEF TextureInv
<1>4. w' # 0 /\ h' # 0 /\ result' = "packing"
  BY <1>1
<1>5. CASE w > h
  <2>1. w = 2 * h /\ h # MaxInt + 1 /\ plane.h = h
    BY <1>2, <1>3, <1>5 DEF PlaneInv
  <2>2. w' = w /\ h' = w /\ w' \in Sizes /\ h' \in Sizes
    BY <1>1, <1>2, <1>5, <2>1, SizesFacts DEF PlaneInv
  <2>3. CASE w = MaxInt + 1
    <3>a. ~(Signed(w') > plane.w) /\ ~(Signed(h') > plane.h)
      BY <1>2, <2>2, <2>3, SizesFacts
    <3>1. leaves' = leaves /\ Overflown'
      BY <1>1, <2>2, <2>3, <3>a DEF Expanded, Below, Overflown
    <3> QED
      BY <1>1, <1>3, <1>4, <2>2, <2>3, <3>1 DEF PlaneInv
  <2>4. CASE w # MaxInt + 1
    <3>1. Signed(w') = w /\ Signed(h') = w /\ plane.w = w
      BY <1>2, <2>2, <2>4, SizesFacts DEF PlaneInv
    <3>2. plane'.w = w /\ plane'.h = w /\ ~Overflown'
      BY <1>1, <1>3, <2>1, <2>2, <2>4, <3>1 DEF Larger, Overflown
    <3> QED
      BY <1>3, <2>2, <3>2 DEF PlaneInv
  <2> QED
    BY <2>3, <2>4
<1>6. CASE ~(w > h)
  <2>1. w = h /\ w' = Twice(w) /\ h' = w
    BY <1>1, <1>3, <1>6
  <2>2. w # MaxInt + 1
    BY <1>4, <2>1, SizesFacts
  <2>3. w' = 2 * w /\ w' \in Sizes /\ h' \in Sizes /\ Signed(h') = w
        /\ plane.w = w /\ plane.h = w /\ w' \in 1..MaxInt + 1
    BY <1>2, <2>1, <2>2, SizesFacts DEF PlaneInv
  <2>4. CASE w' = MaxInt + 1
    <3>a. ~(Signed(w') > plane.w) /\ ~(Signed(h') > plane.h) /\ ~(w > w)
      BY <1>2, <1>3, <2>3, <2>4, SizesFacts
    <3>b. leaves' = leaves
      BY <1>1, <3>a DEF Expanded, Below
    <3>1. leaves' = leaves /\ Overflown' /\ plane'.h = w
      BY <1>1, <2>3, <2>4, <3>a, <3>b DEF Overflown, Larger
    <3> QED
      BY <1>1, <1>3, <1>4, <2>1, <2>2, <2>3, <2>4, <3>1 DEF PlaneInv
  <2>5. CASE w' # MaxInt + 1
    <3>1. Signed(w') = w'
      BY <2>3, <2>5, SizesFacts
    <3>2. plane'.w = w' /\ plane'.h = w /\ ~Overflown'
      BY <1>1, <1>3, <2>1, <2>2, <2>3, <2>5, <3>1 DEF Larger, Overflown
    <3> QED
      BY <1>3, <2>1, <2>3, <3>2 DEF PlaneInv
  <2> QED
    BY <2>4, <2>5
<1> QED
  BY <1>5, <1>6

LEMMA TextureStep == IInv /\ TextureInv /\ [Next]_vars => TextureInv'
<1> SUFFICES ASSUME IInv, TextureInv, [Next]_vars PROVE TextureInv'
  OBVIOUS
<1>1. ASSUME NEW b \in Boxes, Take(b) PROVE TextureInv'
  <2>1. UNCHANGED <<leaves, plane, w, h, result, boxes>> /\ box = NoBox /\ result = "packing"
    BY <1>1 DEF Take
  <2>2. PlaneInv /\ ~Overflown
    BY <2>1 DEF TextureInv, PlaneInv
  <2> QED
    BY <2>1, <2>2 DEF TextureInv, PlaneInv, Overflown
<1>2. ASSUME NEW i \in 1..Len(leaves), Insert(i) PROVE TextureInv'
  <2>1. UNCHANGED <<plane, w, h, result>> /\ Fits(leaves[i], boxes[box]) /\ result = "packing"
    BY <1>2 DEF Insert, IsFirstFit
  <2>2. PlaneInv /\ ~Overflown
    BY <2>1 DEF TextureInv, PlaneInv
  <2> QED
    BY <2>1, <2>2 DEF TextureInv, PlaneInv, Overflown
<1>3. CASE Finish
  <2>1. UNCHANGED <<leaves, plane, w, h, boxes, box>> /\ box = NoBox /\ result = "packing"
    BY <1>3 DEF Finish
  <2>2. PlaneInv /\ ~Overflown
    BY <2>1 DEF TextureInv, PlaneInv
  <2> QED
    BY <2>1, <2>2 DEF TextureInv, PlaneInv, Overflown
<1>4. CASE UNCHANGED vars
  BY <1>4 DEF vars, TextureInv, PlaneInv, Overflown
<1> QED
  BY <1>1, <1>2, <1>3, <1>4, TextureGrow DEF Next

\* The texture is as large as the plane the glyphs were placed in, for any
\* glyphs, and where a doubled size no longer fits an int nothing is packed.
\* (font_pack, expand)
THEOREM TexturePlane == Spec => []TextureIsPlane
<1>1. Init => TextureInv
  BY ConstantsAssumption, SizesAssumption DEF Init, TextureInv, PlaneInv, Overflown
<1>2. TypeOK /\ TextureInv => TextureIsPlane
  BY DEF TypeOK, TextureInv, PlaneInv, Overflown, TextureIsPlane
<1> QED
  BY <1>1, <1>2, TextureStep, Invariance, TypeCorrect, PTL DEF Spec
=============================================================================
