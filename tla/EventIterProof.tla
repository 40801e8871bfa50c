--------------------------- MODULE EventIterProof ---------------------------
(***************************************************************************)
(* Proofs about EventIter: the list, the registered iterators and the raw  *)
(* event loop, for every number of nodes and every set of iterators.       *)
(***************************************************************************)
EXTENDS EventIter, TLAPS

USE MaxNodeAssumption DEF NULL, Root, Node

-----------------------------------------------------------------------------
(* What event_iter::unlink and the iterators' handle_unlink do to next.    *)

\* Only the node before w points at w: two linked nodes have not the same
\* successor.  (event_iter::unlink, the neighbours)
LEMMA OnePredecessor ==
  ASSUME IInv, NEW w \in live, NEW x \in live \cup {Root}, next[x] = w
  PROVE  x = prev[w]
<1> DEFINE p == prev[w]
<1>1. p \in live \cup {Root} /\ next[p] = w
  BY DEF IInv, Linked
<1>2. Follows(x, w) /\ Follows(p, w)
  BY <1>1 DEF IInv, Linked, TypeOK
<1>3. x \in Int /\ p \in Int /\ w \in Int /\ w # NULL
  BY <1>1, MaxNodeAssumption DEF IInv, TypeOK
<1>4. x < w /\ p < w /\ \A z \in live : ~(x < z /\ z < w) /\ ~(p < z /\ z < w)
  BY <1>2, <1>3 DEF Follows
<1>5. x = Root \/ x > Root
  BY DEF IInv, TypeOK
<1>6. p = Root \/ p > Root
  BY <1>1 DEF IInv, TypeOK
<1> QED BY <1>1, <1>3, <1>4, <1>5, <1>6

\* After an unlink every pointer at w is passed on to the node after w,
\* certainly so at the linked nodes, the head and the registered iterators;
\* no other pointer changes.  (event_iter::unlink, iterator::handle_unlink)
LEMMA UnlinkNext ==
  ASSUME IInv, NEW w \in Node, Unlink(w)
  PROVE  /\ \A x \in 0..MaxNode :
              \/ next'[x] = next[x]
              \/ next[x] = w /\ next'[x] = next[w]
         /\ \A x \in live \cup {Root} \cup Registered :
              next[x] = w => next'[x] = next[w]
         /\ next[w] # w
<1>1. w \in live /\ live \subseteq 1..MaxNode /\ w \in 1..used
  BY MaxNodeAssumption DEF Unlink, IInv, TypeOK
<1>2. prev[w] \in live \cup {Root} /\ next[prev[w]] = w /\ prev[w] \in 0..MaxNode
  BY <1>1 DEF IInv, Linked, TypeOK
<1>3. Follows(prev[w], w) /\ prev[w] # w
  BY <1>1, <1>2, MaxNodeAssumption DEF IInv, Linked, Follows
<1>4. next[w] # w
  BY <1>1, MaxNodeAssumption DEF IInv, Linked, Follows
<1> DEFINE n == NextPast(w)
<1>5. \A x \in 0..MaxNode : n[x] = IF x = prev[w] THEN next[w] ELSE next[x]
  <2>1. next[Root] = w => prev[w] = Root
    BY <1>1, OnePredecessor
  <2> QED BY <2>1, <1>1 DEF NextPast
<1>6. n[w] = next[w]
  BY <1>1, <1>3, <1>5
<1>7. \A x \in 0..MaxNode :
        next'[x] = IF x \in Registered /\ n[x] = w THEN next[w] ELSE n[x]
  BY <1>6 DEF Unlink, HandleUnlinkNext
<1>8. \A x \in 0..MaxNode :
        \/ next'[x] = next[x]
        \/ next[x] = w /\ next'[x] = next[w]
  BY <1>2, <1>5, <1>7
<1>9. ASSUME NEW x \in live \cup {Root} \cup Registered, next[x] = w
      PROVE  next'[x] = next[w]
  <2>1. x \in 0..MaxNode
    BY <1>1, MaxNodeAssumption DEF Registered, IInv, TypeOK
  <2>2. CASE x \in live \cup {Root}
    <3>1. x = prev[w]
      BY <2>2, <1>1, <1>9, OnePredecessor
    <3> QED BY <3>1, <2>1, <1>5, <1>7, <1>4
  <2>3. CASE x \in Registered
    BY <2>1, <2>3, <1>5, <1>7, <1>9
  <2> QED BY <1>9, <2>2, <2>3
<1> QED BY <1>4, <1>8, <1>9

\* The same of prev, at the linked nodes and the root.
LEMMA UnlinkPrev ==
  ASSUME IInv, NEW w \in Node, Unlink(w)
  PROVE  /\ \A x \in live \ {w} :
              prev'[x] = IF x = next[w] THEN prev[w] ELSE prev[x]
         /\ prev'[Root] = IF prev[Root] = w THEN prev[w] ELSE prev[Root]
<1>1. /\ w \in live /\ w \in 1..MaxNode /\ live \subseteq 1..MaxNode
      /\ prev[w] # w /\ Root \notin Registered /\ next[w] # Root
  <2>1. w \in live /\ live \subseteq 1..MaxNode
    BY DEF Unlink, IInv, TypeOK
  <2>2. prev[w] # w
    <3>1. next[w] # w
      BY UnlinkNext
    <3> QED BY <2>1, <3>1 DEF IInv, Linked
  <2>3. Root \notin Registered /\ next[w] # Root
    BY DEF Registered, IInv, TypeOK
  <2> QED BY <2>1, <2>2, <2>3
<1> DEFINE p == PrevPast(w)
<1>2. \A x \in 0..MaxNode :
        p[x] = IF x = next[w] \/ (x = Root /\ prev[Root] = w)
               THEN prev[w] ELSE prev[x]
  BY DEF PrevPast
<1>3. \A x \in 0..MaxNode : p[x] # w => prev'[x] = p[x]
  BY DEF Unlink, HandleUnlinkPrev
<1>4. ASSUME NEW x \in live \ {w}
      PROVE  prev'[x] = IF x = next[w] THEN prev[w] ELSE prev[x]
  <2>1. x \in 0..MaxNode /\ x # Root
    BY <1>1
  <2>2. prev[x] = w => x = next[w]
    BY DEF IInv, Linked
  <2> QED BY <1>1, <1>2, <1>3, <2>1, <2>2
<1>5. prev'[Root] = IF prev[Root] = w THEN prev[w] ELSE prev[Root]
  <2>1. Root \notin Registered => prev'[Root] = p[Root]
    BY DEF Unlink, HandleUnlinkPrev
  <2> QED BY <1>1, <1>2, <2>1
<1> QED BY <1>4, <1>5

-----------------------------------------------------------------------------
(* Type correctness.                                                       *)

\* Every operation on the list, the loop and the iterators keeps the types.
LEMMA TypeStep == ASSUME TypeOK, [Next]_vars PROVE TypeOK'
<1> USE DEF TypeOK, listVars, passVars
<1>1. CASE AddInst
  <2>1. used' \in 0..MaxNode /\ used' = used + 1 /\ used' \in Node
    BY <1>1 DEF AddInst
  <2>2. live' \subseteq 1..used'
    BY <1>1, <2>1 DEF AddInst
  <2>3. next' \in [0..MaxNode -> Node \cup {NULL}]
    BY <1>1, <2>1 DEF AddInst
  <2>4. prev' \in [0..MaxNode -> Node \cup {Root, NULL}]
    BY <1>1, <2>1 DEF AddInst
  <2> QED BY <1>1, <2>1, <2>2, <2>3, <2>4 DEF AddInst
<1>2. ASSUME NEW w \in Node, Unlink(w) PROVE TypeOK'
  <2>1. NextPast(w) \in [0..MaxNode -> Node \cup {NULL}]
    BY <1>2 DEF NextPast
  <2>2. PrevPast(w) \in [0..MaxNode -> Node \cup {Root, NULL}]
    BY <1>2 DEF PrevPast
  <2>3. next' \in [0..MaxNode -> Node \cup {NULL}]
    BY <1>2, <2>1 DEF Unlink, HandleUnlinkNext
  <2>4. prev' \in [0..MaxNode -> Node \cup {Root, NULL}]
    BY <1>2, <2>2 DEF Unlink, HandleUnlinkPrev
  <2> QED BY <1>2, <2>3, <2>4 DEF Unlink
<1>3. ASSUME NEW x \in Node \cup {NULL}, Reach(x)
      PROVE  cur' \in Node \cup {NULL} /\ ran' \subseteq Node
  BY <1>3 DEF Reach
<1>4. CASE BeginPass
  <2>1. next[Root] \in Node \cup {NULL}
    OBVIOUS
  <2>2. live \subseteq Node
    OBVIOUS
  <2> QED BY <1>3, <1>4, <2>1, <2>2 DEF BeginPass
<1>8. CASE Advance
  <2>1. next[cur] \in Node \cup {NULL}
    BY <1>8 DEF Advance
  <2> QED BY <1>3, <1>8, <2>1 DEF Advance
<1>5. CASE CutPass
  BY <1>5 DEF CutPass
<1>6. ASSUME NEW i \in Iter, IterBegin(i) \/ IterNext(i) \/ IterEnd(i)
      PROVE  TypeOK'
  <2>1. Registered \subseteq Node
    BY DEF Registered
  <2>2. CASE IterBegin(i)
    BY <2>1, <2>2 DEF IterBegin
  <2>3. CASE IterNext(i)
    <3>1. next[it[i]] \in Node \cup {NULL}
      BY <2>3 DEF IterNext
    <3> QED BY <2>3, <3>1 DEF IterNext
  <2>4. CASE IterEnd(i)
    BY <2>4 DEF IterEnd
  <2> QED BY <1>6, <2>2, <2>3, <2>4
<1>7. CASE UNCHANGED vars
  BY <1>7 DEF vars
<1> QED BY <1>1, <1>2, <1>4, <1>5, <1>6, <1>7, <1>8 DEF Next

\* An empty list is well typed.  (event_iter::event_iter)
LEMMA InitType == Init => TypeOK
<1>1. ASSUME Init PROVE TypeOK
  <2>1. next \in [0..MaxNode -> Node \cup {NULL}]
    BY <1>1 DEF Init
  <2>2. prev \in [0..MaxNode -> Node \cup {Root, NULL}]
    BY <1>1 DEF Init
  <2>3. it \in [Iter -> Node \cup {NULL}] /\ cut \in BOOLEAN
    BY <1>1 DEF Init
  <2>4. used \in 0..MaxNode /\ bound \in 0..MaxNode /\ cur \in Node \cup {NULL}
    BY <1>1 DEF Init
  <2>5. live \subseteq 1..used /\ start \subseteq Node /\ ran \subseteq Node
    BY <1>1 DEF Init
  <2> QED BY <2>1, <2>2, <2>3, <2>4, <2>5 DEF TypeOK
<1> QED BY <1>1

\* The pointers, walks and histories keep their types.
THEOREM TypeCorrect == Spec => []TypeOK
<1>1. Init => TypeOK
  BY InitType
<1>2. TypeOK /\ [Next]_vars => TypeOK'
  BY TypeStep
<1> QED BY <1>1, <1>2, PTL DEF Spec

-----------------------------------------------------------------------------
(* The inductive invariant, one lemma for every action.                    *)

\* A new node is the last, behind every walk: those that have still to reach
\* the end will come across it.  (event_iter::add_inst)
LEMMA AddInstStep == ASSUME IInv, AddInst, TypeOK' PROVE IInv'
<1> DEFINE a    == used + 1
           last == prev[Root]
<1>1. /\ used \in 0..MaxNode /\ a \in Node /\ a = used + 1 /\ live \subseteq 1..used
      /\ \A z \in live : z \in Node /\ z < a
      /\ last \in live \cup {Root} /\ last # a /\ last \in 0..MaxNode
      /\ next[last] = NULL
  BY DEF IInv, TypeOK, Linked, AddInst
<1>2. /\ used' = a /\ live' = live \cup {a}
      /\ it' = it /\ cur' = cur /\ cut' = cut
      /\ start' = start /\ bound' = bound /\ ran' = ran
  BY DEF AddInst, passVars
<1>3. /\ next'[last] = a /\ next'[a] = NULL
      /\ \A x \in 0..MaxNode : x # last /\ x # a => next'[x] = next[x]
  BY <1>1 DEF AddInst, IInv, TypeOK
<1>4. /\ prev'[a] = last /\ prev'[Root] = a
      /\ \A x \in Node : x # a => prev'[x] = prev[x]
  BY <1>1 DEF AddInst, IInv, TypeOK
<1> HIDE DEF a, last
<1>5. \A z \in live : z <= last
  <2>1. Follows(last, NULL)
    BY <1>1 DEF IInv, Linked
  <2> QED BY <2>1 DEF Follows
<1>6. \A x \in 1..used : next[x] = NULL \/ (next[x] \in 1..used /\ next[x] < a)
  <2> SUFFICES ASSUME NEW x \in 1..used, next[x] # NULL
               PROVE  next[x] \in 1..used /\ next[x] < a
    OBVIOUS
  <2>1. CASE x \in live
    BY <1>1, <2>1 DEF IInv, Linked, Follows
  <2>2. CASE x \notin live
    BY <1>1, <2>2 DEF IInv, UnlinkedForward
  <2> QED BY <2>1, <2>2
<1>7. Linked'
  <2>1. ASSUME NEW x \in live' \cup {Root} PROVE Follows(x, next[x])'
    <3>1. CASE x = a
      BY <1>1, <1>2, <1>3, <3>1 DEF Follows
    <3>2. CASE x = last
      BY <1>1, <1>2, <1>3, <1>5, <3>2 DEF Follows
    <3>3. CASE x # a /\ x # last
      <4>1. x \in live \cup {Root} /\ x \in 0..MaxNode /\ next'[x] = next[x]
        BY <1>1, <1>2, <1>3, <3>3
      <4>2. Follows(x, next[x])
        BY <4>1 DEF IInv, Linked
      <4>3. next[x] # NULL
        BY <1>1, <1>5, <4>1, <4>2, <3>3 DEF Follows
      <4>4. next[x] \in live /\ next[x] < a
        BY <1>1, <4>2, <4>3 DEF Follows
      <4>5. x < next[x] /\ \A z \in live : ~(x < z /\ z < next[x])
        BY <4>2, <4>3 DEF Follows
      <4>6. ~(x < a /\ a < next[x])
        <5>1. next[x] \in Int /\ a \in Int
          <6>1. live \subseteq Int
            BY <1>1
          <6>2. a \in Int
            BY <1>1
          <6> QED BY <4>4, <6>1, <6>2
        <5> QED BY <4>4, <5>1
      <4> QED BY <1>2, <4>1, <4>3, <4>4, <4>5, <4>6 DEF Follows
    <3> QED BY <3>1, <3>2, <3>3
  <2>2. ASSUME NEW x \in live'
        PROVE  prev'[x] \in live' \cup {Root} /\ next'[prev'[x]] = x
    <3>1. CASE x = a
      BY <1>1, <1>2, <1>3, <1>4, <3>1
    <3>2. CASE x # a
      <4>1. x \in live /\ prev'[x] = prev[x]
        BY <1>1, <1>2, <1>4, <3>2
      <4>2. prev[x] \in live \cup {Root} /\ next[prev[x]] = x
        BY <4>1 DEF IInv, Linked
      <4>3. live \subseteq 1..MaxNode /\ \A z \in live : z < a
        BY <1>1
      <4>5. prev[x] \in 0..MaxNode /\ x # NULL
        <5>1. x \in 1..MaxNode
          BY <4>1, <4>3
        <5>2. prev[x] = 0 \/ prev[x] \in 1..MaxNode
          BY <4>2, <4>3
        <5> QED BY <5>1, <5>2
      <4>6. prev[x] # a
        BY <1>1, <4>2, <4>3
      <4>4. prev[x] # last
        BY <1>1, <4>2, <4>5
      <4> QED BY <1>2, <1>3, <4>1, <4>2, <4>4, <4>5, <4>6
    <3> QED BY <3>1, <3>2
  <2>3. prev'[Root] \in live' \cup {Root} /\ next'[prev'[Root]] = NULL
    BY <1>2, <1>3, <1>4
  <2> QED BY <2>1, <2>2, <2>3 DEF Linked
<1>8. UnlinkedForward'
  <2> SUFFICES ASSUME NEW x \in 1..used, x \notin live, next'[x] # NULL
               PROVE  /\ next'[x] \in 1..used' /\ x < next'[x]
                      /\ \A z \in live' : ~(x < z /\ z < next'[x])
    BY <1>1, <1>2 DEF UnlinkedForward
  <2>1. next'[x] = next[x] /\ next[x] < a
    BY <1>1, <1>3, <1>6
  <2> QED BY <1>1, <1>2, <1>6, <2>1 DEF IInv, UnlinkedForward
<1>9. IterSafe'
  <2> SUFFICES ASSUME NEW i \in Iter, it[i] # NULL
               PROVE  next'[it[i]] \in live' \cup {NULL}
    BY <1>2 DEF IterSafe
  <2>1. it[i] \in 1..used /\ next[it[i]] \in live \cup {NULL}
    BY DEF IInv, IterSafe
  <2>2. it[i] \in 0..MaxNode /\ it[i] # a
    BY <1>1, <2>1
  <2> QED BY <1>2, <1>3, <2>1, <2>2
<1>10. SeenClosed'
  <2>1. Seen' = Seen \cup {a}
    <3>1. 1..used' = 1..used \cup {a}
      BY <1>1, <1>2
    <3>2. a > bound
      BY <1>1 DEF IInv, TypeOK
    <3> QED BY <1>2, <3>1, <3>2 DEF Seen
  <2> SUFFICES ASSUME NEW x \in Seen \cup {a}
               PROVE  IF next'[x] = NULL
                      THEN \A z \in live' : z > x => z > bound
                      ELSE next'[x] \in Seen \cup {a}
    BY <1>2, <2>1 DEF SeenClosed
  <2>2. CASE x = a
    BY <1>1, <1>2, <1>3, <2>2
  <2>3. CASE x = last
    BY <1>1, <1>3, <2>3
  <2>4. CASE x # a /\ x # last
    <3>1. x \in Seen /\ x \in 1..used /\ next'[x] = next[x]
      BY <1>1, <1>3, <2>4 DEF Seen
    <3>2. a > bound
      BY <1>1 DEF IInv, TypeOK
    <3> QED BY <1>2, <3>1, <3>2 DEF IInv, SeenClosed
  <2> QED BY <2>2, <2>3, <2>4
<1>11. PassSoFar' /\ PassComplete'
  <2>1. start \cap live' = start \cap live
    BY <1>1, <1>2 DEF IInv, TypeOK
  <2>2. Seen \subseteq Seen'
    BY <1>1, <1>2 DEF Seen
  <2> QED BY <1>2, <2>1, <2>2 DEF IInv, PassSoFar, PassComplete
<1>12. /\ \A i \in Iter : it'[i] # NULL => it'[i] \in 1..used'
       /\ start' \subseteq 1..bound' /\ bound' <= used'
  BY <1>1, <1>2 DEF IInv, TypeOK
<1> QED BY <1>7, <1>8, <1>9, <1>10, <1>11, <1>12 DEF IInv

\* The node that goes still points forward, and so does every node that
\* pointed at it; no linked node is passed over.  (event_iter::unlink)
LEMMA UnlinkStep ==
  ASSUME IInv, NEW w \in Node, Unlink(w), TypeOK' PROVE IInv'
<1> DEFINE nw == next[w]
<1>1. /\ used' = used /\ live' = live \ {w} /\ it' = it /\ cur' = cur
      /\ cut' = cut /\ start' = start /\ bound' = bound /\ ran' = ran
  BY DEF Unlink, passVars
<1>2. used \in Nat /\ w \in live /\ live \subseteq 1..used
  BY DEF Unlink, IInv, TypeOK
<1>3. w \in Int /\ live \subseteq Int /\ w # NULL
  BY <1>2
<1>4. live \subseteq Node /\ live \cup {Root} \subseteq 0..MaxNode
  BY DEF IInv, TypeOK
<1>5. 1..used \subseteq Node
  BY DEF IInv, TypeOK
<1>6. /\ \A x \in 0..MaxNode : \/ next'[x] = next[x]
                               \/ next[x] = w /\ next'[x] = nw
      /\ \A x \in live \cup {Root} \cup Registered :
           next[x] = w => next'[x] = nw
      /\ nw # w
  BY UnlinkNext
<1>7. /\ \A x \in live' :
           prev'[x] = IF x = nw THEN prev[w] ELSE prev[x]
      /\ prev'[Root] = IF prev[Root] = w THEN prev[w] ELSE prev[Root]
  BY <1>1, UnlinkPrev
<1>8. Follows(w, nw)
  BY <1>2 DEF IInv, Linked
<1>9. nw = NULL => \A z \in live : z <= w
  BY <1>8 DEF Follows
<1>10. nw # NULL => nw \in live /\ w < nw /\ \A z \in live : ~(w < z /\ z < nw)
  BY <1>8 DEF Follows
<1> HIDE DEF nw
\* What points at w has nothing linked between it and w.
<1>11. ASSUME NEW x \in 0..used, next[x] = w
       PROVE  x < w /\ \A z \in live : ~(x < z /\ z < w)
  <2>1. CASE x \in live \cup {Root}
    <3>1. Follows(x, w)
      BY <2>1, <1>11 DEF IInv, Linked
    <3> QED BY <3>1, <1>3 DEF Follows
  <2>2. CASE x \in (1..used) \ live
    BY <2>2, <1>11, <1>3 DEF IInv, UnlinkedForward
  <2>3. x = Root \/ x \in 1..used
    BY <1>2
  <2> QED BY <2>1, <2>2, <2>3
\* So it has nothing linked between it and the node after w.
<1>12. ASSUME NEW x \in 0..used, next[x] = w
       PROVE  IF nw = NULL THEN \A z \in live' : z <= x
              ELSE nw \in live' /\ x < nw /\ \A z \in live' : ~(x < z /\ z < nw)
  <2>1. x \in Int /\ x < w
    BY <1>11, <1>12, <1>2
  <2>2. \A z \in live' : z \in Int /\ z # w /\ z \in live
    BY <1>1, <1>3
  <2>3. \A z \in live' : ~(x < z /\ z < w)
    BY <1>11, <1>12, <2>2
  <2>4. CASE nw = NULL
    <3>1. \A z \in live' : z <= w
      BY <1>9, <2>2, <2>4
    <3> QED BY <2>1, <2>2, <2>3, <2>4, <3>1, <1>3
  <2>5. CASE nw # NULL
    <3>1. nw \in live' /\ nw \in Int /\ w < nw
      BY <1>1, <1>3, <1>6, <1>10, <2>5
    <3>2. \A z \in live' : ~(w < z /\ z < nw)
      BY <1>10, <2>2, <2>5
    <3> QED BY <2>1, <2>2, <2>3, <2>5, <3>1, <3>2, <1>3
  <2> QED BY <2>4, <2>5
<1>13. Linked'
  <2>1. ASSUME NEW x \in live' \cup {Root} PROVE Follows(x, next[x])'
    <3>1. x \in live \cup {Root}
      BY <1>1
    <3>2. x \in 0..used /\ x \in 0..MaxNode
      BY <3>1, <1>2, <1>4
    <3>3. CASE next[x] = w
      <4>1. next'[x] = nw
        BY <3>1, <3>3, <1>6
      <4> QED BY <3>2, <3>3, <4>1, <1>12 DEF Follows
    <3>4. CASE next[x] # w
      <4>1. next'[x] = next[x] /\ Follows(x, next[x])
        BY <3>1, <3>2, <3>4, <1>6 DEF IInv, Linked
      <4> QED BY <4>1, <3>4, <1>1 DEF Follows
    <3> QED BY <3>3, <3>4
  <2>2. prev[w] \in live' \cup {Root} /\ next'[prev[w]] = nw
    <3>1. prev[w] \in live \cup {Root} /\ next[prev[w]] = w
      BY <1>2 DEF IInv, Linked
    <3>2. next'[prev[w]] = nw
      BY <3>1, <1>6
    <3>3. prev[w] # w
      BY <3>1, <1>6 DEF nw
    <3> QED BY <3>1, <3>2, <3>3, <1>1
  <2>3. ASSUME NEW x \in live'
        PROVE  prev'[x] \in live' \cup {Root} /\ next'[prev'[x]] = x
    <3>1. CASE x = nw
      BY <2>2, <3>1, <1>7
    <3>2. CASE x # nw
      <4>1. prev'[x] = prev[x] /\ x # w
        BY <3>2, <1>1, <1>7
      <4>2. prev[x] \in live \cup {Root} /\ next[prev[x]] = x
        BY <1>1 DEF IInv, Linked
      <4>3. prev[x] # w
        BY <3>2, <4>2 DEF nw
      <4>4. prev[x] \in 0..MaxNode
        BY <4>2, <1>4
      <4>5. next'[prev[x]] = x
        BY <4>1, <4>2, <4>4, <1>6
      <4> QED BY <4>1, <4>2, <4>3, <4>5, <1>1
    <3> QED BY <3>1, <3>2
  <2>4. prev'[Root] \in live' \cup {Root} /\ next'[prev'[Root]] = NULL
    <3>1. prev[Root] \in live \cup {Root} /\ next[prev[Root]] = NULL
      BY DEF IInv, Linked
    <3>2. CASE prev[Root] = w
      BY <2>2, <3>1, <3>2, <1>7 DEF nw
    <3>3. CASE prev[Root] # w
      <4>1. prev[Root] \in 0..MaxNode
        BY <3>1, <1>4
      <4>2. next'[prev[Root]] = NULL
        BY <3>1, <4>1, <1>3, <1>6
      <4> QED BY <3>1, <3>3, <4>2, <1>1, <1>7
    <3> QED BY <3>2, <3>3
  <2> QED BY <2>1, <2>3, <2>4 DEF Linked
<1>14. UnlinkedForward'
  <2> SUFFICES ASSUME NEW x \in 1..used, x \notin live', next'[x] # NULL
               PROVE  /\ next'[x] \in 1..used /\ x < next'[x]
                      /\ \A z \in live' : ~(x < z /\ z < next'[x])
    BY <1>1 DEF UnlinkedForward
  <2>1. x \in 0..MaxNode /\ x \in 0..used
    BY <1>5, <1>2
  <2>2. CASE next[x] = w /\ next'[x] = nw
    BY <2>1, <2>2, <1>1, <1>2, <1>12
  <2>3. CASE next'[x] = next[x] /\ x = w
    <3>1. next'[x] = nw /\ nw # NULL
      BY <2>3 DEF nw
    <3> QED BY <2>3, <3>1, <1>1, <1>2, <1>10
  <2>4. CASE next'[x] = next[x] /\ x # w
    <3>1. x \in (1..used) \ live
      BY <2>4, <1>1
    <3>2. /\ next[x] \in 1..used /\ x < next[x]
          /\ \A z \in live : ~(x < z /\ z < next[x])
      BY <2>4, <3>1 DEF IInv, UnlinkedForward
    <3> QED BY <2>4, <3>2, <1>1
  <2> QED BY <2>1, <2>2, <2>3, <2>4, <1>6
<1>15. IterSafe'
  <2> SUFFICES ASSUME NEW i \in Iter, it[i] # NULL
               PROVE  next'[it[i]] \in live' \cup {NULL}
    BY <1>1 DEF IterSafe
  <2>1. it[i] \in Registered /\ it[i] \in 0..MaxNode
    BY DEF Registered, IInv, TypeOK
  <2>2. next[it[i]] \in live \cup {NULL}
    BY DEF IInv, IterSafe
  <2>3. nw \in live' \cup {NULL}
    BY <1>1, <1>6, <1>10
  <2> QED BY <2>1, <2>2, <2>3, <1>1, <1>6
<1>16. SeenClosed'
  <2>1. Seen' = Seen /\ Seen \subseteq 0..used /\ Seen \subseteq 0..MaxNode
    BY <1>1, <1>2, <1>5 DEF Seen
  <2> SUFFICES ASSUME NEW x \in Seen
               PROVE  IF next'[x] = NULL
                      THEN \A z \in live' : z > x => z > bound
                      ELSE next'[x] \in Seen
    BY <1>1, <2>1 DEF SeenClosed
  <2>2. CASE next'[x] = next[x]
    BY <2>2, <1>1 DEF IInv, SeenClosed
  <2>3. CASE next[x] = w /\ next'[x] = nw
    <3>1. w \in Seen
      BY <2>3, <1>3 DEF IInv, SeenClosed
    <3>2. IF nw = NULL THEN \A z \in live : z > w => z > bound ELSE nw \in Seen
      BY <3>1 DEF IInv, SeenClosed, nw
    <3>3. nw = NULL => \A z \in live' : z <= x
      BY <2>1, <2>3, <1>12
    <3>4. x \in Int /\ \A z \in live' : z \in Int
      BY <2>1, <1>1, <1>2, <1>3
    <3>5. nw = NULL => \A z \in live' : ~(z > x)
      BY <3>3, <3>4
    <3> QED BY <2>3, <3>2, <3>5
  <2> QED BY <2>1, <2>2, <2>3, <1>6
<1>17. PassSoFar' /\ PassComplete'
  <2>1. Seen' = Seen
    BY <1>1 DEF Seen
  <2> QED BY <2>1, <1>1 DEF IInv, PassSoFar, PassComplete
<1>18. /\ \A i \in Iter : it'[i] # NULL => it'[i] \in 1..used'
       /\ start' \subseteq 1..bound' /\ bound' <= used'
  BY <1>1 DEF IInv
<1> QED BY <1>13, <1>14, <1>15, <1>16, <1>17, <1>18 DEF IInv

\* The loop comes across y next: the start of the pass up to y is done.
LEMMA AdvanceStep == ASSUME IInv, Advance, TypeOK' PROVE IInv'
<1> DEFINE nc == next[cur]
<1>1. /\ used' = used /\ live' = live /\ next' = next /\ prev' = prev /\ it' = it
      /\ cut' = cut /\ start' = start /\ bound' = bound
      /\ cur # NULL /\ cur' = nc /\ ran' = ran \cup ({nc} \ {NULL})
  BY DEF Advance, Reach, listVars
<1>2. cur \in Seen /\ \A y \in start \cap live : y <= cur => y \in ran
  BY <1>1 DEF IInv, PassSoFar
<1>3. cur \in Int /\ live \subseteq Int
  BY <1>1 DEF IInv, TypeOK
<1>4. \A y \in start : ~(y > bound)
  BY DEF IInv, TypeOK
<1>5. IF nc = NULL THEN \A z \in live : z > cur => z > bound ELSE nc \in Seen
  BY <1>2 DEF IInv, SeenClosed
<1>6. nc # NULL => nc \in Int /\ cur < nc /\ \A z \in live : ~(cur < z /\ z < nc)
  <2>1. CASE cur \in live
    BY <2>1, <1>3 DEF IInv, Linked, Follows
  <2>2. CASE cur \notin live
    <3>1. cur \in (1..used) \ live
      BY <2>2, <1>2 DEF Seen
    <3> QED BY <3>1 DEF IInv, UnlinkedForward
  <2> QED BY <2>1, <2>2
<1> HIDE DEF nc
<1>7. CASE nc = NULL
  <2>1. \A y \in start \cap live : y \in ran
    <3> SUFFICES ASSUME NEW y \in start \cap live PROVE y \in ran
      OBVIOUS
    <3>1. ~(y > cur)
      BY <1>4, <1>5, <1>7
    <3>2. y \in Int /\ cur \in Int
      BY <1>3
    <3>3. y <= cur
      BY <3>1, <3>2
    <3> QED BY <3>3, <1>2
  <2> QED BY <2>1, <1>1, <1>7
          DEF IInv, Linked, Follows, UnlinkedForward, IterSafe, SeenClosed,
              Seen, PassSoFar, PassComplete
<1>8. CASE nc # NULL
  <2>1. \A y \in start \cap live : y <= nc => y \in ran \cup {nc}
    <3> SUFFICES ASSUME NEW y \in start \cap live, y <= nc, y # nc
                 PROVE  y \in ran
      OBVIOUS
    <3>1. y \in Int /\ ~(cur < y /\ y < nc) /\ nc \in Int
      BY <1>3, <1>6, <1>8
    <3>2. y <= cur
      BY <3>1, <1>3
    <3> QED BY <3>2, <1>2
  <2>2. Seen' = Seen
    BY <1>1 DEF Seen
  <2>3. PassSoFar' /\ PassComplete'
    BY <2>1, <2>2, <1>1, <1>5, <1>8 DEF PassSoFar, PassComplete
  <2> QED BY <2>2, <2>3, <1>1
          DEF IInv, Linked, Follows, UnlinkedForward, IterSafe, SeenClosed
<1> QED BY <1>7, <1>8

\* A pass begins with the first node, and with nothing done.  (ENIGMA_events)
LEMMA BeginPassStep == ASSUME IInv, BeginPass, TypeOK' PROVE IInv'
<1> DEFINE first == next[Root]
<1>1. /\ used' = used /\ live' = live /\ next' = next /\ prev' = prev /\ it' = it
      /\ cut' = FALSE /\ start' = live /\ bound' = used
      /\ cur' = first /\ ran' = {first} \ {NULL}
  BY DEF BeginPass, Reach, listVars
<1>2. used \in Nat /\ live \subseteq 1..used
  BY DEF IInv, TypeOK
<1>3. live \subseteq Int /\ Root \notin live
  BY <1>2
<1>4. Follows(Root, first)
  BY DEF IInv, Linked
<1>5. Seen' = live
  <2>1. \A x \in 1..used : ~(x > used)
    BY <1>2
  <2>2. Seen' = {x \in 1..used : x \in live \/ x > used}
    BY <1>1 DEF Seen
  <2> QED BY <1>2, <2>1, <2>2
<1>6. SeenClosed'
  <2> SUFFICES ASSUME NEW x \in live
               PROVE  IF next[x] = NULL THEN \A z \in live : z > x => z > used
                      ELSE next[x] \in live
    BY <1>1, <1>5 DEF SeenClosed
  <2>1. Follows(x, next[x])
    BY DEF IInv, Linked
  <2>2. CASE next[x] = NULL
    <3>1. \A z \in live : z <= x
      BY <2>1, <2>2 DEF Follows
    <3>2. \A z \in live : ~(z > x)
      BY <3>1, <1>3
    <3> QED BY <3>2, <2>2
  <2>3. CASE next[x] # NULL
    BY <2>1, <2>3 DEF Follows
  <2> QED BY <2>2, <2>3
<1>7. CASE first = NULL
  <2>1. \A z \in live : z <= Root
    BY <1>4, <1>7 DEF Follows
  <2>2. live = {}
    BY <2>1, <1>2
  <2>3. PassSoFar' /\ PassComplete'
    BY <2>2, <1>1, <1>7 DEF PassSoFar, PassComplete
  <2> QED BY <2>3, <1>1, <1>2, <1>6
          DEF IInv, Linked, Follows, UnlinkedForward, IterSafe
<1>8. CASE first # NULL
  <2>1. first \in live /\ Root < first
        /\ \A z \in live : ~(Root < z /\ z < first)
    BY <1>4, <1>8 DEF Follows
  <2>2. \A z \in live : z <= first => z \in {first}
    <3> SUFFICES ASSUME NEW z \in live, z <= first PROVE z = first
      OBVIOUS
    <3>1. Root < z /\ z \in Int
      BY <1>2
    <3>2. first \in Int
      BY <2>1, <1>3
    <3>3. ~(z < first)
      BY <2>1, <3>1
    <3> QED BY <3>1, <3>2, <3>3
  <2>3. PassSoFar' /\ PassComplete'
    BY <2>1, <2>2, <1>1, <1>5, <1>8 DEF PassSoFar, PassComplete
  <2> QED BY <2>3, <1>1, <1>2, <1>6
          DEF IInv, Linked, Follows, UnlinkedForward, IterSafe
<1> QED BY <1>7, <1>8

\* A pass that is left for a room switch owes nothing.  (goto after_events)
LEMMA CutPassStep == ASSUME IInv, CutPass, TypeOK' PROVE IInv'
  BY DEF CutPass, listVars, IInv, Linked, Follows, UnlinkedForward, IterSafe,
         SeenClosed, Seen, PassSoFar, PassComplete

\* An iterator that is constructed, moved on or destroyed stands on a node
\* that leads to a linked one, or to the end.  (iterator::operator++)
LEMMA IterStep ==
  ASSUME IInv, NEW i \in Iter, IterBegin(i) \/ IterNext(i) \/ IterEnd(i), TypeOK'
  PROVE  IInv'
<1>1. /\ used' = used /\ live' = live /\ next' = next /\ prev' = prev
      /\ cur' = cur /\ cut' = cut /\ start' = start /\ bound' = bound /\ ran' = ran
  BY DEF IterBegin, IterNext, IterEnd, listVars, passVars
<1>2. \A x \in live : next[x] \in live \cup {NULL}
  BY DEF IInv, Linked, Follows
<1>3. next[Root] \in live \cup {NULL}
  BY DEF IInv, Linked, Follows
<1>4. live \subseteq 1..used /\ NULL \notin live
  BY DEF IInv, TypeOK
\* Wherever an iterator may be moved to, the node after it is linked.
<1>5. ASSUME NEW y, y \in {next[Root]} \cup Registered \cup live, y # NULL
      PROVE  y \in 1..used /\ next[y] \in live \cup {NULL}
  <2>1. CASE y \in live
    BY <2>1, <1>2, <1>4
  <2>2. CASE y \in Registered
    <3>1. PICK j \in Iter : y = it[j]
      BY <2>2 DEF Registered
    <3> QED BY <3>1, <1>5 DEF IInv, IterSafe
  <2> QED BY <2>1, <2>2, <1>3, <1>5
<1>6. \E y \in {NULL, next[Root]} \cup Registered \cup live :
        it' = [it EXCEPT ![i] = y]
  <2>1. CASE IterBegin(i)
    BY <2>1 DEF IterBegin
  <2>2. CASE IterNext(i)
    <3>1. next[it[i]] \in live \cup {NULL}
      BY <2>2 DEF IterNext, IInv, IterSafe
    <3> QED BY <2>2, <3>1 DEF IterNext
  <2>3. CASE IterEnd(i)
    BY <2>3 DEF IterEnd
  <2> QED BY <2>1, <2>2, <2>3
<1>7. ASSUME NEW j \in Iter, it'[j] # NULL
      PROVE  it'[j] \in 1..used /\ next[it'[j]] \in live \cup {NULL}
  <2>1. PICK y \in {NULL, next[Root]} \cup Registered \cup live :
          it' = [it EXCEPT ![i] = y]
    BY <1>6
  <2>2. CASE j = i
    <3>1. it'[j] = y
      BY <2>1, <2>2 DEF IInv, TypeOK
    <3> QED BY <3>1, <1>5, <1>7
  <2>3. CASE j # i
    <3>1. it'[j] = it[j]
      BY <2>1, <2>3 DEF IInv, TypeOK
    <3> QED BY <3>1, <1>7 DEF IInv, IterSafe
  <2> QED BY <2>2, <2>3
<1> QED BY <1>1, <1>7
        DEF IInv, Linked, Follows, UnlinkedForward, IterSafe,
            SeenClosed, Seen, PassSoFar, PassComplete

\* The empty list satisfies the inductive invariant.
LEMMA InitIInv == Init => IInv
<1> SUFFICES ASSUME Init PROVE IInv
  OBVIOUS
<1>1. TypeOK
  BY InitType
<1>2. /\ live = {} /\ used = 0 /\ start = {} /\ bound = 0 /\ cur = NULL
      /\ next[Root] = NULL /\ prev[Root] = Root
      /\ \A i \in Iter : it[i] = NULL
  BY DEF Init
<1>3. 1..used = {}
  BY <1>2
<1> QED BY <1>1, <1>2, <1>3
        DEF IInv, Linked, Follows, UnlinkedForward, IterSafe, SeenClosed,
            Seen, PassSoFar, PassComplete

\* Every action preserves the inductive invariant.
LEMMA IInvStep == ASSUME IInv, [Next]_vars PROVE IInv'
<1>1. TypeOK'
  BY TypeStep DEF IInv
<1>2. CASE UNCHANGED vars
  BY <1>2 DEF vars, IInv, TypeOK, Linked, Follows, UnlinkedForward, IterSafe,
              SeenClosed, Seen, PassSoFar, PassComplete
<1>3. CASE Next
  BY <1>1, <1>3, AddInstStep, UnlinkStep, BeginPassStep, AdvanceStep,
     CutPassStep, IterStep DEF Next
<1> QED BY <1>2, <1>3

-----------------------------------------------------------------------------
(* The results.                                                            *)

\* The inductive invariant holds of every behaviour of the list and its walks.
LEMMA Inductive == Spec => []IInv
<1>1. IInv /\ [Next]_vars => IInv'
  BY IInvStep
<1> QED BY <1>1, InitIInv, PTL DEF Spec

\* The list keeps the linked instances, in linking order, in both directions
\* (event_iter::add_inst, event_iter::unlink).
THEOREM ListLinked == Spec => []Linked
<1>1. IInv => Linked
  BY DEF IInv
<1> QED BY <1>1, Inductive, PTL

\* A registered iterator moves on to a linked instance or to the end,
\* whatever was unlinked under it (iterator::handle_unlink).
THEOREM IteratorsSafe == Spec => []IterSafe
<1>1. IInv => IterSafe
  BY DEF IInv
<1> QED BY <1>1, Inductive, PTL

\* An instance linked during a whole pass has its event run in it (the event
\* loop of ENIGMA_events over a list that its own events change).
THEOREM PassIsComplete == Spec => []PassComplete
<1>1. IInv => PassComplete
  BY DEF IInv
<1> QED BY <1>1, Inductive, PTL

\* No event runs twice on a node in one pass: the loop pointer only moves
\* forward.  (instance_event_iterator = instance_event_iterator->next)
THEOREM PassGoesForward == Spec => ForwardOnly
<1>1. ASSUME IInv, [Next]_vars, cur # NULL, cur' \notin {cur, NULL}
      PROVE  cur < cur'
  <2>1. Advance
    BY <1>1 DEF Next, vars, AddInst, Unlink, BeginPass, CutPass, IterBegin,
                IterNext, IterEnd, passVars
  <2>2. cur' = next[cur] /\ cur \in Seen /\ cur \in 1..used
    BY <1>1, <2>1 DEF Advance, Reach, IInv, PassSoFar, Seen
  <2>3. CASE cur \in live
    BY <1>1, <2>2, <2>3 DEF IInv, Linked, Follows
  <2>4. CASE cur \notin live
    BY <1>1, <2>2, <2>4 DEF IInv, UnlinkedForward
  <2> QED BY <2>3, <2>4
<1>2. IInv /\ [Next]_vars => [cur # NULL /\ cur' \notin {cur, NULL} => cur < cur']_vars
  BY <1>1
<1> QED BY <1>2, Inductive, PTL DEF Spec, ForwardOnly
=============================================================================
