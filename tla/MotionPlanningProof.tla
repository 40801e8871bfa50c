------------------------ MODULE MotionPlanningProof ------------------------
(***************************************************************************)
(* Proofs about MotionPlanning, for grids of any size and costs: the       *)
(* search answers reachability, and the path is one.  The cells looked at  *)
(* and those open are closed under steps, each with the way it was met on. *)
(***************************************************************************)
EXTENDS MotionPlanning, TLAPS

\* The types when both points are in the grid.
GridType == TypeOK /\ Inside /\ last \in Cells

Seen == OPEN \cup Closed

\* Every cell came from one that was closed before it.
Chain ==
  \A i \in 1..Len(CLOSED) : CLOSED[i] # start =>
    /\ CanStep(came_from[CLOSED[i]], CLOSED[i])
    /\ \E j \in 1..i - 1 : CLOSED[j] = came_from[CLOSED[i]]

OpenFrom ==
  /\ OPEN \cap Closed = {}
  /\ \A n \in OPEN : n = start \/ (came_from[n] \in Closed /\ CanStep(came_from[n], n))

Frontier == \A n \in Closed, m \in Cells : CanStep(n, m) => m \in Seen
Enclosed == \A S \in SUBSET Cells : Enclosure(S) => Seen \subseteq S

Outcome ==
  /\ phase = "search" => path = <<>> /\ status
  /\ phase # "search" => /\ status <=> start = goal \/ Found
                         /\ start = goal \/ Found \/ OPEN = {}

Walking ==
  phase = "walk" =>
    /\ last \in Closed /\ last # start
    /\ IsWay(path) /\ (path # <<>> => path[1] = last)
    /\ status => path # <<>> /\ path[Len(path)] = goal

IInv ==
  /\ GridType /\ Chain /\ OpenFrom /\ Frontier /\ Enclosed
  /\ start \in Seen /\ Outcome /\ Walking /\ PathRight

-----------------------------------------------------------------------------
(* Cells and ways                                                          *)

LEMMA PointCoordinates ==
  /\ Cells \subseteq Points
  /\ \A n \in Points : n[1] \in Int /\ n[2] \in Int
  BY ConstantsAssumption DEF Cells, Points

LEMMA HeuristicType ==
  ASSUME goal \in Points, NEW n \in Points PROVE H(n) \in Nat
<1>1. n[1] \in Int /\ n[2] \in Int /\ goal[1] \in Int /\ goal[2] \in Int
  BY PointCoordinates
<1>2. Dx(n, goal) \in Nat /\ Dy(n, goal) \in Nat
  BY <1>1 DEF Dx, Dy, Distance
<1> QED
  BY <1>2 DEF H

LEMMA StepCostType ==
  ASSUME cost \in [Cells -> Nat], NEW n \in Cells, NEW m \in Cells PROVE StepCost(n, m) \in Nat
<1>1. cost[m] \in Nat
  OBVIOUS
<1>2. Extra(cost[m]) \in Nat
  BY <1>1 DEF Extra
<1> QED
  BY <1>1, <1>2 DEF StepCost

LEMMA CanStepCells == ASSUME NEW n, NEW m, CanStep(n, m) PROVE m \in Cells
  BY DEF CanStep, Neighbours

\* A cell that was looked at came from another.
LEMMA Before ==
  ASSUME GridType, Chain, NEW n \in Closed, n # start
  PROVE  CanStep(came_from[n], n) /\ came_from[n] \in Closed /\ came_from[n] \in Cells
<1>1. PICK i \in 1..Len(CLOSED) : CLOSED[i] = n
  BY DEF Closed
<1>2. CanStep(came_from[n], n) /\ \E j \in 1..i - 1 : CLOSED[j] = came_from[n]
  BY <1>1 DEF Chain
<1>3. PICK j \in 1..i - 1 : CLOSED[j] = came_from[n]
  BY <1>2
<1>4. j \in 1..Len(CLOSED)
  BY <1>1 DEF GridType, TypeOK, Inside
<1>5. CLOSED \in Seq(Cells)
  BY DEF GridType, TypeOK, Inside
<1>6. CLOSED[j] \in Cells /\ CLOSED[j] \in Closed
  BY <1>4, <1>5 DEF Closed
<1> QED
  BY <1>2, <1>3, <1>6

LEMMA ClosedAppend ==
  ASSUME GridType, NEW n \in Cells, CLOSED' = Append(CLOSED, n)
  PROVE  /\ Closed' = Closed \cup {n} /\ CLOSED' \in Seq(Cells) /\ Len(CLOSED') = Len(CLOSED) + 1
         /\ \A i \in 1..Len(CLOSED) : CLOSED'[i] = CLOSED[i]
         /\ CLOSED'[Len(CLOSED) + 1] = n
<1>1. CLOSED \in Seq(Cells)
  BY DEF GridType, TypeOK, Inside
<1>2. /\ CLOSED' \in Seq(Cells) /\ Len(CLOSED') = Len(CLOSED) + 1
      /\ \A i \in 1..Len(CLOSED) : CLOSED'[i] = CLOSED[i]
      /\ CLOSED'[Len(CLOSED) + 1] = n
  BY <1>1
<1>3. \A i \in 1..Len(CLOSED') : i \in 1..Len(CLOSED) \/ i = Len(CLOSED) + 1
  BY <1>1, <1>2
<1>4. 1..Len(CLOSED) \subseteq 1..Len(CLOSED') /\ Len(CLOSED) + 1 \in 1..Len(CLOSED')
  BY <1>1, <1>2
<1> QED
  BY <1>2, <1>3, <1>4 DEF Closed

\* Putting a cell in front of a way.
LEMMA WayFront ==
  ASSUME NEW p \in Seq(Cells), IsWay(p), NEW n \in Cells, p # <<>> => CanStep(n, p[1])
  PROVE  /\ <<n>> \o p \in Seq(Cells) /\ IsWay(<<n>> \o p) /\ (<<n>> \o p)[1] = n
         /\ <<n>> \o p # <<>>
         /\ p # <<>> => (<<n>> \o p)[Len(<<n>> \o p)] = p[Len(p)]
<1> DEFINE q == <<n>> \o p
<1>1. /\ q \in Seq(Cells) /\ Len(q) = Len(p) + 1 /\ q[1] = n /\ Len(p) \in Nat
      /\ \A i \in 1..Len(p) : q[i + 1] = p[i]
  OBVIOUS
<1>2. p # <<>> => Len(p) \in 1..Len(p) /\ 1 \in 1..Len(p)
  OBVIOUS
<1> HIDE DEF q
<1>3. ASSUME NEW i \in 1..Len(q) - 1 PROVE CanStep(q[i], q[i + 1])
  <2>1. CASE i = 1
    <3>1. 1 \in 1..Len(p) /\ p # <<>>
      BY <1>1, <1>3, <2>1
    <3>2. q[1 + 1] = p[1]
      BY <1>1, <3>1
    <3> QED
      BY <1>1, <2>1, <3>1, <3>2
  <2>2. CASE i # 1
    <3>1. i - 1 \in 1..Len(p) - 1 /\ i - 1 \in 1..Len(p) /\ i \in 1..Len(p) /\ (i - 1) + 1 = i
      BY <1>1, <1>3, <2>2
    <3>2. CanStep(p[i - 1], p[i])
      BY <3>1 DEF IsWay
    <3>3. q[i] = p[i - 1] /\ q[i + 1] = p[i]
      BY <1>1, <3>1
    <3> QED
      BY <3>2, <3>3
  <2> QED
    BY <2>1, <2>2
<1>4. q # <<>>
  BY <1>1
<1> QED
  BY <1>1, <1>2, <1>3, <1>4 DEF IsWay, q

-----------------------------------------------------------------------------
(* The steps                                                               *)

LEMMA InitInv == Init /\ Inside => IInv
<1> SUFFICES ASSUME Init, Inside PROVE IInv
  OBVIOUS
<1>1. Closed = {} /\ OPEN = {start}
  BY DEF Init, Closed, Inside
<1>2. start \in Cells /\ goal \in Cells /\ cost \in [Cells -> Nat]
  BY ConstantsAssumption DEF Init, Inside
<1>3. H(start) \in Nat
  BY HeuristicType DEF Init
<1>4. key \in [Cells -> Nat]
  BY <1>3 DEF Init
<1>5. G \in [Cells -> Nat] /\ came_from \in [Cells -> Cells \cup {Null}]
  BY DEF Init
<1>6. GridType
  BY <1>2, <1>4, <1>5, PointCoordinates DEF Init, GridType, TypeOK, Inside
<1>7. Chain /\ OpenFrom /\ Frontier /\ start \in Seen
  BY <1>1 DEF Init, Chain, OpenFrom, Frontier, Seen
<1>8. Enclosed
  BY <1>1 DEF Init, Enclosed, Enclosure, Seen
<1> QED
  BY <1>6, <1>7, <1>8 DEF IInv, Init, Outcome, Walking, PathRight

LEMMA ExpandStep == ASSUME IInv, NEW n \in Cells, Expand(n) PROVE IInv'
<1> DEFINE reached == New(n) \cup Better(n)
           g == [m \in Cells |-> IF m \in reached THEN G[n] + StepCost(n, m) ELSE G[m]]
<1>1. /\ phase = "search" /\ n \in OPEN
      /\ G' = g
      /\ came_from' = [m \in Cells |-> IF m \in reached THEN n ELSE came_from[m]]
      /\ key' = [m \in Cells |-> IF m \in New(n) THEN g[m] + H(m) ELSE key[m]]
      /\ CLOSED' = Append(CLOSED, n)
      /\ OPEN' = (OPEN \ {n}) \cup New(n)
      /\ UNCHANGED <<cost, start, goal, diag, phase, status, last, path>>
  BY DEF Expand, Least, args
<1>2. GridType
  BY DEF IInv
<1>3. /\ Closed' = Closed \cup {n} /\ CLOSED' \in Seq(Cells) /\ Len(CLOSED') = Len(CLOSED) + 1
      /\ \A i \in 1..Len(CLOSED) : CLOSED'[i] = CLOSED[i]
      /\ CLOSED'[Len(CLOSED) + 1] = n
  BY <1>1, <1>2, ClosedAppend
<1>4. \A m, k : CanStep(m, k)' <=> CanStep(m, k)
  BY <1>1 DEF CanStep, Neighbours, IsFree
<1>5. /\ New(n) \subseteq Cells \ Seen /\ Better(n) \subseteq OPEN \ {n}
      /\ \A m \in reached : CanStep(n, m)
      /\ \A m \in Cells : CanStep(n, m) => m \in Seen \/ m \in New(n)
  BY DEF New, Better, Seen
<1> HIDE DEF reached
<1>6. \A m \in Cells : g[m] \in Nat
  <2> SUFFICES ASSUME NEW m \in Cells PROVE g[m] \in Nat
    OBVIOUS
  <2>1. StepCost(n, m) \in Nat /\ G[n] \in Nat /\ G[m] \in Nat
    BY <1>2, StepCostType DEF GridType, TypeOK, Inside
  <2> QED
    BY <2>1
<1>7. GridType'
  <2>1. G' \in [Cells -> Nat]
    BY <1>1, <1>6
  <2>2. \A m \in Cells : g[m] + H(m) \in Nat /\ key[m] \in Nat
    <3> SUFFICES ASSUME NEW m \in Cells PROVE g[m] + H(m) \in Nat /\ key[m] \in Nat
      OBVIOUS
    <3> HIDE DEF g
    <3>1. g[m] \in Nat
      BY <1>6
    <3>2. H(m) \in Nat
      BY <1>2, HeuristicType, PointCoordinates DEF GridType, TypeOK, Inside
    <3>3. key[m] \in Nat
      BY <1>2 DEF GridType, TypeOK, Inside
    <3> QED
      BY <3>1, <3>2, <3>3
  <2>3. key' \in [Cells -> Nat]
    <3> HIDE DEF g
    <3> QED
      BY <1>1, <2>2
  <2>4. came_from' \in [Cells -> Cells \cup {Null}]
    BY <1>1, <1>2 DEF GridType, TypeOK, Inside
  <2>5. OPEN' \subseteq Cells
    BY <1>1, <1>2, <1>5 DEF GridType, TypeOK, Inside
  <2> QED
    BY <1>1, <1>2, <1>3, <2>1, <2>3, <2>4, <2>5 DEF GridType, TypeOK, Inside
<1>8. Seen' = Seen \cup New(n)
  BY <1>1, <1>3 DEF Seen
<1>9. Frontier'
  <2> SUFFICES ASSUME NEW k \in Closed', NEW m \in Cells, CanStep(k, m)' PROVE m \in Seen'
    BY DEF Frontier
  <2>1. CASE k \in Closed
    BY <1>4, <1>8, <2>1 DEF IInv, Frontier
  <2>2. CASE k = n
    BY <1>4, <1>5, <1>8, <2>2
  <2> QED
    BY <1>3, <2>1, <2>2
<1>10. Enclosed'
  <2> SUFFICES ASSUME NEW S \in SUBSET Cells, Enclosure(S)' PROVE Seen' \subseteq S
    BY DEF Enclosed
  <2>1. Enclosure(S)
    BY <1>1, <1>4 DEF Enclosure
  <2>2. Seen \subseteq S /\ n \in S
    BY <1>1, <2>1 DEF IInv, Enclosed, Seen
  <2>3. \A m \in New(n) : m \in S
    BY <2>1, <2>2 DEF Enclosure, New
  <2> QED
    BY <1>8, <2>2, <2>3
<1>11. \A m \in Closed' : came_from'[m] = came_from[m]
  <2> SUFFICES ASSUME NEW m \in Closed' PROVE came_from'[m] = came_from[m]
    OBVIOUS
  <2>1. m \in Cells
    BY <1>2, <1>3 DEF GridType, TypeOK, Inside, Closed
  <2>2. m \notin New(n) /\ m \notin Better(n)
    BY <1>1, <1>3, <1>5 DEF Seen, IInv, OpenFrom
  <2> QED
    BY <1>1, <2>1, <2>2 DEF reached
<1>12. n = start \/ (came_from[n] \in Closed /\ CanStep(came_from[n], n))
  BY <1>1 DEF IInv, OpenFrom
<1>13. Chain'
  <2> SUFFICES ASSUME NEW i \in 1..Len(CLOSED'), CLOSED'[i] # start
               PROVE  /\ CanStep(came_from'[CLOSED'[i]], CLOSED'[i])
                      /\ \E j \in 1..i - 1 : CLOSED'[j] = came_from'[CLOSED'[i]]
    <3>1. start' = start
      BY <1>1
    <3> QED
      BY <1>4, <3>1 DEF Chain
  <2>0. Len(CLOSED) \in Nat /\ CLOSED'[i] \in Closed'
    BY <1>2 DEF GridType, TypeOK, Inside, Closed
  <2>1. CASE i \in 1..Len(CLOSED)
    <3>1. CLOSED'[i] = CLOSED[i] /\ came_from'[CLOSED'[i]] = came_from[CLOSED[i]]
      BY <1>3, <1>11, <2>0, <2>1
    <3>2. CanStep(came_from[CLOSED[i]], CLOSED[i])
      BY <1>1, <2>1, <3>1 DEF IInv, Chain
    <3>3. PICK j \in 1..i - 1 : CLOSED[j] = came_from[CLOSED[i]]
      BY <1>1, <2>1, <3>1 DEF IInv, Chain
    <3>4. CLOSED'[j] = CLOSED[j]
      BY <1>3, <2>0, <2>1
    <3> QED
      BY <1>4, <3>1, <3>2, <3>3, <3>4
  <2>2. CASE i = Len(CLOSED) + 1
    <3>1. CLOSED'[i] = n /\ came_from'[n] = came_from[n] /\ n # start
      BY <1>1, <1>3, <1>11, <2>0, <2>2
    <3>2. PICK j \in 1..Len(CLOSED) : CLOSED[j] = came_from[n]
      BY <1>12, <3>1 DEF Closed
    <3>3. j \in 1..i - 1 /\ CLOSED'[j] = came_from'[n]
      BY <1>3, <2>0, <2>2, <3>1, <3>2
    <3> QED
      BY <1>4, <1>12, <3>1, <3>3
  <2> QED
    BY <1>3, <2>0, <2>1, <2>2
<1>14. OpenFrom'
  <2>1. OPEN' \cap Closed' = {}
    BY <1>1, <1>3, <1>5 DEF Seen, IInv, OpenFrom
  <2>2. ASSUME NEW m \in OPEN', m # start
        PROVE  came_from'[m] \in Closed' /\ CanStep(came_from'[m], m)
    <3>1. m \in Cells
      BY <1>7 DEF GridType, TypeOK, Inside
    <3>2. CASE m \in reached
      <4>1. came_from'[m] = n
        BY <1>1, <3>1, <3>2
      <4> QED
        BY <1>3, <1>5, <3>2, <4>1
    <3>3. CASE m \notin reached
      <4>1. came_from'[m] = came_from[m] /\ m \in OPEN
        BY <1>1, <3>1, <3>3 DEF reached
      <4> QED
        BY <1>3, <2>2, <4>1 DEF IInv, OpenFrom
    <3> QED
      BY <3>2, <3>3
  <2> QED
    BY <1>1, <1>4, <2>1, <2>2 DEF OpenFrom
<1>15. start' \in Seen'
  BY <1>1, <1>8 DEF IInv
<1>16. Outcome' /\ Walking' /\ PathRight'
  BY <1>1 DEF IInv, Outcome, Walking, PathRight
<1> QED
  BY <1>7, <1>9, <1>10, <1>13, <1>14, <1>15, <1>16 DEF IInv

\* The steps that follow leave the search as it was.
LEMMA SearchKept ==
  ASSUME IInv, UNCHANGED <<args, search>>
  PROVE  /\ Chain' /\ OpenFrom' /\ Frontier' /\ Enclosed' /\ (start \in Seen)'
         /\ Closed' = Closed /\ Found' = Found
         /\ \A p : IsWay(p)' <=> IsWay(p)
<1>1. UNCHANGED <<cost, start, goal, diag, OPEN, key, CLOSED, G, came_from>>
  BY DEF args, search
<1>2. Closed' = Closed
  BY <1>1 DEF Closed
<1>3. \A m, k : CanStep(m, k)' <=> CanStep(m, k)
  BY <1>1 DEF CanStep, Neighbours, IsFree
<1>4. Chain'
  BY <1>1, <1>3 DEF IInv, Chain
<1>5. OpenFrom' /\ Frontier' /\ (start \in Seen)'
  BY <1>1, <1>2, <1>3 DEF IInv, OpenFrom, Frontier, Seen
<1>6. Enclosed'
  BY <1>1, <1>2, <1>3 DEF IInv, Enclosed, Enclosure, Seen
<1> QED
  BY <1>1, <1>2, <1>3, <1>4, <1>5, <1>6 DEF Found, IsWay

LEMMA NearestCells ==
  ASSUME GridType, NEW n \in Cells, Nearest(n), n # start
  PROVE  n \in Closed
BY DEF Nearest, Closed

LEMMA EndSearchStep == ASSUME IInv, NEW n \in Cells, EndSearch(n) PROVE IInv'
<1>1. /\ UNCHANGED <<args, search>> /\ phase = "search" /\ start # goal
      /\ Found \/ (OPEN = {} /\ Nearest(n))
      /\ Found => n = goal
      /\ status' = Found /\ last' = n
      /\ phase' = IF n = start THEN "done" ELSE "walk"
      /\ path' = IF Found THEN <<goal>> ELSE IF n = start THEN <<start, start>> ELSE <<>>
  BY DEF EndSearch
<1>2. /\ Chain' /\ OpenFrom' /\ Frontier' /\ Enclosed' /\ (start \in Seen)'
      /\ Closed' = Closed /\ Found' = Found
      /\ \A p : IsWay(p)' <=> IsWay(p)
  BY <1>1, SearchKept
<1>3. GridType
  BY DEF IInv
<1>4. start' = start /\ goal' = goal /\ OPEN' = OPEN
  BY <1>1 DEF args, search
<1>5. path' \in Seq(Cells) /\ status' \in BOOLEAN
  BY <1>1, <1>3 DEF GridType, TypeOK, Inside, Found
<1>6. GridType'
  BY <1>1, <1>3, <1>5, PointCoordinates DEF GridType, TypeOK, Inside, args, search
<1>7. n # start => n \in Closed
  <2>1. CASE Found
    BY <1>1, <2>1 DEF Found
  <2>2. CASE ~Found
    BY <1>1, <1>3, <2>2, NearestCells
  <2> QED
    BY <2>1, <2>2
<1>8. Outcome'
  BY <1>1, <1>2, <1>4 DEF Outcome
<1>9. Walking'
  <2> SUFFICES ASSUME n # start
               PROVE  /\ last' \in Closed' /\ last' # start'
                      /\ IsWay(path') /\ (path' # <<>> => path'[1] = last')
                      /\ status' => path' # <<>> /\ path'[Len(path')] = goal'
    BY <1>1, <1>2 DEF Walking
  <2>1. CASE Found
    <3>1. path' = <<goal>> /\ Len(<<goal>>) = 1 /\ <<goal>> # <<>>
      BY <1>1, <2>1
    <3> QED
      BY <1>1, <1>2, <1>4, <1>7, <3>1, <2>1 DEF IsWay
  <2>2. CASE ~Found
    <3>1. path' = <<>> /\ Len(<<>>) = 0
      BY <1>1, <2>2
    <3> QED
      BY <1>1, <1>2, <1>4, <1>7, <3>1, <2>2 DEF IsWay
  <2> QED
    BY <2>1, <2>2
<1>10. PathRight'
  <2> SUFFICES ASSUME n = start
               PROVE  /\ path'[1] = start'
                      /\ path' = <<start', start'>>
                      /\ ~status'
    BY <1>1 DEF PathRight
  <2>1. ~Found
    BY <1>1
  <2> QED
    BY <1>1, <1>4, <2>1
<1> QED
  BY <1>2, <1>6, <1>8, <1>9, <1>10 DEF IInv

\* The cell before the last is one that leads to it, and the way goes on there.
LEMMA LastStep ==
  ASSUME IInv, phase = "walk"
  PROVE  /\ came_from[last] \in Cells /\ came_from[last] \in Closed /\ CanStep(came_from[last], last)
         /\ path \in Seq(Cells) /\ IsWay(path) /\ (path # <<>> => CanStep(came_from[last], path[1]))
<1>1. last \in Closed /\ last # start
  BY DEF IInv, Walking
<1>2. CanStep(came_from[last], last) /\ came_from[last] \in Closed /\ came_from[last] \in Cells
  BY <1>1, Before DEF IInv
<1> QED
  BY <1>2 DEF IInv, Walking, GridType, TypeOK, Inside

LEMMA WalkBackStep == ASSUME IInv, WalkBack PROVE IInv'
<1> DEFINE m == came_from[last]
<1>1. /\ UNCHANGED <<args, search>> /\ phase = "walk" /\ phase' = phase /\ status' = status
      /\ last' = m /\ m # start /\ path' = <<m>> \o path
  BY DEF WalkBack
<1>2. /\ Chain' /\ OpenFrom' /\ Frontier' /\ Enclosed' /\ (start \in Seen)'
      /\ Closed' = Closed /\ Found' = Found
      /\ \A p : IsWay(p)' <=> IsWay(p)
  BY <1>1, SearchKept
<1>3. start' = start /\ goal' = goal /\ OPEN' = OPEN
  BY <1>1 DEF args, search
<1>4. m \in Cells /\ m \in Closed /\ path \in Seq(Cells) /\ IsWay(path) /\ (path # <<>> => CanStep(m, path[1]))
  BY <1>1, LastStep
<1> HIDE DEF m
<1>5. /\ path' \in Seq(Cells) /\ IsWay(path') /\ path'[1] = m /\ path' # <<>>
      /\ path # <<>> => path'[Len(path')] = path[Len(path)]
  BY <1>1, <1>4, WayFront
<1>6. GridType'
  BY <1>1, <1>4, <1>5, PointCoordinates DEF IInv, GridType, TypeOK, Inside, args, search
<1>7. Outcome' /\ PathRight'
  BY <1>1, <1>2, <1>3 DEF IInv, Outcome, PathRight
<1>8. status => path # <<>> /\ path[Len(path)] = goal
  BY <1>1 DEF IInv, Walking
<1>9. Walking'
  BY <1>1, <1>2, <1>3, <1>4, <1>5, <1>8 DEF Walking
<1> QED
  BY <1>2, <1>6, <1>7, <1>9 DEF IInv

LEMMA FinishStep == ASSUME IInv, Finish PROVE IInv'
<1>1. /\ UNCHANGED <<args, search>> /\ phase = "walk" /\ phase' = "done" /\ status' = status
      /\ last' = last /\ came_from[last] = start
      /\ path' = <<start>> \o (IF path = <<>> THEN <<start>> ELSE path)
  BY DEF Finish
<1>2. /\ Chain' /\ OpenFrom' /\ Frontier' /\ Enclosed' /\ (start \in Seen)'
      /\ Closed' = Closed /\ Found' = Found
      /\ \A p : IsWay(p)' <=> IsWay(p)
  BY <1>1, SearchKept
<1>3. start' = start /\ goal' = goal /\ OPEN' = OPEN
  BY <1>1 DEF args, search
<1>4. start \in Cells /\ path \in Seq(Cells) /\ IsWay(path) /\ (path # <<>> => CanStep(start, path[1]))
  BY <1>1, LastStep
<1>5. status => path # <<>> /\ path[Len(path)] = goal
  BY <1>1 DEF IInv, Walking
<1>6. /\ path' \in Seq(Cells) /\ path'[1] = start
      /\ IsWay(path') \/ path' = <<start, start>>
      /\ path # <<>> => path'[Len(path')] = path[Len(path)]
  <2>1. CASE path = <<>>
    <3>1. path' = <<start>> \o <<start>>
      BY <1>1, <2>1
    <3>2. path' \in Seq(Cells) /\ Len(path') = 2 /\ path'[1] = start /\ path'[2] = start
      BY <1>4, <3>1
    <3>3. path' = <<path'[1], path'[2]>>
      BY <3>2
    <3> QED
      BY <1>4, <2>1, <3>2, <3>3
  <2>2. CASE path # <<>>
    <3>1. path' = <<start>> \o path
      BY <1>1, <2>2
    <3> QED
      BY <1>4, <2>2, <3>1, WayFront
  <2> QED
    BY <2>1, <2>2
<1>7. GridType'
  BY <1>1, <1>6 DEF IInv, GridType, TypeOK, Inside, args, search
<1>8. Outcome'
  BY <1>1, <1>2, <1>3 DEF IInv, Outcome
<1>9. PathRight'
  BY <1>1, <1>2, <1>3, <1>5, <1>6 DEF PathRight
<1>10. Walking'
  BY <1>1 DEF Walking
<1> QED
  BY <1>2, <1>7, <1>8, <1>9, <1>10 DEF IInv

LEMMA StayThereStep == ASSUME IInv, StayThere PROVE IInv'
<1>1. /\ UNCHANGED <<args, search>> /\ phase = "search" /\ start = goal /\ phase' = "done"
      /\ status' = status /\ last' = last /\ path' = <<start, goal>>
  BY DEF StayThere
<1>2. /\ Chain' /\ OpenFrom' /\ Frontier' /\ Enclosed' /\ (start \in Seen)'
      /\ Found' = Found
  BY <1>1, SearchKept
<1>3. start' = start /\ goal' = goal /\ OPEN' = OPEN /\ status
  BY <1>1 DEF args, search, IInv, Outcome
<1>4. start \in Cells /\ goal \in Cells
  BY DEF IInv, GridType, TypeOK, Inside
<1>5. path' \in Seq(Cells) /\ path' = <<start, start>> /\ path'[1] = start /\ path'[Len(path')] = goal
  BY <1>1, <1>4
<1>6. GridType'
  BY <1>1, <1>5, PointCoordinates DEF IInv, GridType, TypeOK, Inside, args, search
<1>7. Outcome' /\ Walking' /\ PathRight'
  BY <1>1, <1>2, <1>3, <1>5 DEF Outcome, Walking, PathRight
<1> QED
  BY <1>2, <1>6, <1>7 DEF IInv

LEMMA InsideStep == IInv /\ [Next]_vars => IInv'
<1> SUFFICES ASSUME IInv, [Next]_vars PROVE IInv'
  OBVIOUS
<1>1. ASSUME NEW n \in Cells, Expand(n) PROVE IInv'
  BY <1>1, ExpandStep
<1>2. ASSUME NEW n \in Cells, EndSearch(n) PROVE IInv'
  BY <1>2, EndSearchStep
<1>3. CASE WalkBack
  BY <1>3, WalkBackStep
<1>4. CASE Finish
  BY <1>4, FinishStep
<1>5. CASE StayThere
  BY <1>5, StayThereStep
<1>7. CASE Refuse
  BY <1>7 DEF Refuse, IInv, GridType
<1>6. CASE UNCHANGED vars
  <2>1. UNCHANGED <<args, search>> /\ UNCHANGED <<phase, status, last, path>>
    BY <1>6 DEF vars
  <2>2. UNCHANGED <<cost, start, goal, diag, OPEN, key, CLOSED, G, came_from>>
    BY <2>1 DEF args, search
  <2>3. /\ Chain' /\ OpenFrom' /\ Frontier' /\ Enclosed' /\ (start \in Seen)'
        /\ Closed' = Closed /\ Found' = Found
        /\ \A p : IsWay(p)' <=> IsWay(p)
    BY <2>1, SearchKept
  <2>4. GridType'
    BY <2>1, <2>2 DEF IInv, GridType, TypeOK, Inside
  <2>5. Outcome' /\ Walking' /\ PathRight'
    BY <2>1, <2>2, <2>3 DEF IInv, Outcome, Walking, PathRight
  <2> QED
    BY <2>3, <2>4, <2>5 DEF IInv
<1> QED
  BY <1>1, <1>2, <1>3, <1>4, <1>5, <1>6, <1>7 DEF Next

\* A search is right, and there is none outside the grid.
Inv == /\ TypeOK
       /\ Inside => IInv
       /\ ~Inside => phase \in {"search", "refused"}

LEMMA InitOutside == Init => TypeOK
<1> SUFFICES ASSUME Init PROVE TypeOK
  OBVIOUS
<1>1. H(start) \in Nat
  BY HeuristicType DEF Init
<1>2. key \in [Cells -> Nat]
  BY <1>1 DEF Init
<1>3. cost \in [Cells -> Nat]
  BY ConstantsAssumption DEF Init
<1>4. CLOSED \in Seq(Cells) /\ path \in Seq(Cells)
  BY DEF Init
<1> QED
  BY <1>2, <1>3, <1>4 DEF Init, TypeOK

LEMMA StepInv == Inv /\ [Next]_vars => Inv'
<1> SUFFICES ASSUME Inv, [Next]_vars PROVE Inv'
  OBVIOUS
<1>1. CASE Inside
  <2>1. IInv'
    BY <1>1, InsideStep DEF Inv
  <2> QED
    BY <2>1 DEF Inv, IInv, GridType
<1>2. CASE ~Inside
  <2>1. CASE Refuse
    BY <1>2, <2>1 DEF Inv, TypeOK, Inside, Refuse, args, search
  <2>2. CASE UNCHANGED vars
    BY <1>2, <2>2 DEF Inv, TypeOK, Inside, vars, args, search
  <2> QED
    BY <1>2, <2>1, <2>2 DEF Inv, Next, Expand, EndSearch, WalkBack, Finish, StayThere
<1> QED
  BY <1>1, <1>2

LEMMA Invariance == Spec => []Inv
<1>1. Init => Inv
  BY InitInv, InitOutside DEF Inv, Init
<1> QED
  BY <1>1, StepInv, PTL DEF Spec

-----------------------------------------------------------------------------
(* What is proved                                                          *)

\* Every variable keeps its type: came_from leads from cell to cell, and the
\* keys of the multimap are never negative.  (motion_planning_struct.h)
THEOREM TypeCorrect == Spec => []TypeOK
<1>1. Inv => TypeOK
  BY DEF Inv
<1> QED
  BY <1>1, Invariance, PTL

\* The path returned is one: it begins at the start, every step of it may be
\* taken, and it ends at the goal if the search says so.  (mp_grid_path)
THEOREM PathCorrect == Spec => []PathRight
<1>1. Inv => PathRight
  BY DEF Inv, IInv, PathRight
<1> QED
  BY <1>1, Invariance, PTL

\* The search says that the goal is reached just when it can be.  (find_path)
THEOREM StatusCorrect == Spec => []StatusRight
<1>1. ASSUME IInv, phase = "done" PROVE status <=> Reachable
  <2>1. /\ status <=> start = goal \/ Found
        /\ start = goal \/ Found \/ OPEN = {}
    BY <1>1 DEF IInv, Outcome
  <2>2. ASSUME status PROVE Reachable
    <3> SUFFICES ASSUME NEW S \in SUBSET Cells, Enclosure(S) PROVE goal \in S
      BY DEF Reachable
    <3>1. CASE start = goal
      BY <3>1 DEF Enclosure
    <3>2. CASE Found
      BY <1>1, <3>2 DEF Found, IInv, Enclosed, Seen
    <3> QED
      BY <2>1, <2>2, <3>1, <3>2
  <2>3. ASSUME ~status PROVE ~Reachable
    <3>1. OPEN = {} /\ ~Found
      BY <2>1, <2>3
    <3>2. Closed \in SUBSET Cells
      <4>1. CLOSED \in Seq(Cells)
        BY <1>1 DEF IInv, GridType, TypeOK
      <4> QED
        BY <4>1 DEF Closed
    <3>3. Seen = Closed
      BY <3>1 DEF Seen
    <3>4. Enclosure(Closed)
      BY <1>1, <3>3 DEF Enclosure, IInv, Frontier
    <3> QED
      BY <3>1, <3>2, <3>4 DEF Reachable, Found
  <2> QED
    BY <2>2, <2>3
<1>2. Inv => StatusRight
  BY <1>1 DEF Inv, StatusRight
<1> QED
  BY <1>2, Invariance, PTL
=============================================================================
