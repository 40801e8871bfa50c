--------------------------- MODULE MotionPlanning ---------------------------
(***************************************************************************)
(* mp_grid_path: the search for a way through a grid of cells.  A cell     *)
(* whose cost reaches the threshold cannot be entered.  If the goal cannot *)
(* be reached, the way leads towards the nearest cell that can.            *)
(***************************************************************************)
EXTENDS Integers, Sequences

CONSTANTS
  Hcells, Vcells, \* the size of the grid
  Costs,          \* the costs of cells
  Threshold       \* of the grid

Cells == (0..Hcells - 1) \X (0..Vcells - 1)

\* Where points lie: in a cell, or outside, on one side of the grid.
Points == Cells \cup {<<-1, 0>>, <<0, -1>>, <<Hcells, 0>>, <<0, Vcells>>}

ASSUME ConstantsAssumption ==
  /\ Hcells \in Nat \ {0} /\ Vcells \in Nat \ {0}
  /\ Costs \subseteq Nat /\ Threshold \in Nat

VARIABLES
  cost,     \* of each cell, as mp_grid_add_cell ... have left it
  start, goal, diag, \* the arguments of mp_grid_path
  OPEN,     \* the cells to be looked at
  key,      \* their keys in the multimap
  CLOSED,   \* the cells that have been looked at, the latest last
  G,        \* the cost of the way to a cell
  came_from,\* the cell before it
  phase,    \* "search", "walk" back from the end, "done" or "refused"
  status,   \* TRUE if the goal is reached
  last,     \* the cell the way back has come to
  path      \* the cells of the path

args == <<cost, start, goal, diag>>
search == <<OPEN, key, CLOSED, G, came_from>>
vars == <<args, search, phase, status, last, path>>

Distance(i, j) == IF i < j THEN j - i ELSE i - j
Dx(m, n) == Distance(m[1], n[1])
Dy(m, n) == Distance(m[2], n[2])

Null == <<>>

\* Mutant: the difference without its sign made away.
HSigned(n) == (n[1] - goal[1]) + (n[2] - goal[2])

\* find_heuristic
H(n) ==
  IF ~diag THEN Dx(n, goal) + Dy(n, goal)
  ELSE IF Dx(n, goal) > Dy(n, goal) THEN Dx(n, goal) ELSE Dy(n, goal)

Init ==
  /\ cost \in [Cells -> Costs]
  /\ start \in Points /\ goal \in Points /\ diag \in BOOLEAN
  /\ OPEN = {start} \cap Cells /\ CLOSED = <<>>
  /\ G = [n \in Cells |-> 0] /\ came_from = [n \in Cells |-> Null]
  /\ key = [n \in Cells |-> IF n = start THEN H(start) ELSE 0]
  /\ phase = "search" /\ status = TRUE
  /\ last = start /\ path = <<>>

-----------------------------------------------------------------------------
(* Cells                                                                   *)

Inside == start \in Cells /\ goal \in Cells

Neighbours(n) == {m \in Cells : m # n /\ Dx(m, n) <= 1 /\ Dy(m, n) <= 1}
IsDiagonal(m, n) == m[1] # n[1] /\ m[2] # n[2]
IsFree(n) == cost[n] < Threshold

\* A step that is considered; check_corners looks at the cells next to both.
CanStep(n, m) ==
  /\ m \in Neighbours(n) /\ IsFree(m)
  /\ IsDiagonal(n, m) => diag /\ \A k \in Neighbours(n) \cap Neighbours(m) : IsFree(k)

\* ceil(cost / 2.5)
Extra(c) == (2 * c + 4) \div 5
StepCost(n, m) == cost[m] + (IF IsDiagonal(n, m) THEN Extra(cost[m]) ELSE 0)

Closed == {CLOSED[i] : i \in 1..Len(CLOSED)}

-----------------------------------------------------------------------------
(* The search                                                              *)

Found == goal \in Closed
Least(n) == n \in OPEN /\ \A m \in OPEN : key[n] <= key[m]

\* Mutant: no way leads away from the goal.
NewNearer(n) == {m \in Cells \ (OPEN \cup Closed) : CanStep(n, m) /\ H(m) <= H(n)}

\* The neighbours that are met for the first time, and those already open to
\* which the way over n is shorter -- an extra cost of the diagonal apart.
New(n) == {m \in Cells \ (OPEN \cup Closed) : CanStep(n, m)}

\* Mutant: corners are not looked at.
BetterCut(n) == {m \in OPEN \cap Neighbours(n) : m # n /\ G[n] + cost[m] < G[m]}

Better(n) == {m \in OPEN \ {n} : CanStep(n, m) /\ G[n] + cost[m] < G[m]}

\* One turn of the loop of find_path, with cell n.  Among equal keys any cell
\* may be the first.  A better way changes G, but not the key.
Expand(n) ==
  /\ phase = "search" /\ Inside /\ start # goal /\ ~Found
  /\ Least(n)
  /\ LET reached == New(n) \cup Better(n)
         g == [m \in Cells |-> IF m \in reached THEN G[n] + StepCost(n, m) ELSE G[m]]
     IN /\ G' = g
        /\ came_from' = [m \in Cells |-> IF m \in reached THEN n ELSE came_from[m]]
        /\ key' = [m \in Cells |-> IF m \in New(n) THEN g[m] + H(m) ELSE key[m]]
  /\ CLOSED' = Append(CLOSED, n)
  /\ OPEN' = (OPEN \ {n}) \cup New(n)
  /\ UNCHANGED <<args, phase, status, last, path>>

\* The cell of all that were looked at that is nearest to the goal: the start,
\* or the latest of those that are nearer.
Nearest(n) ==
  \/ n = start /\ \A m \in Closed : H(m) >= H(start)
  \/ \E i \in 1..Len(CLOSED) :
       /\ CLOSED[i] = n /\ H(n) < H(start)
       /\ \A j \in 1..Len(CLOSED) : H(CLOSED[j]) > H(n) \/ (H(CLOSED[j]) = H(n) /\ i >= j)

\* Mutant: the search goes on when there is nothing to be looked at.
EndSearchFound(n) ==
  /\ phase = "search" /\ Inside /\ start # goal
  /\ Found
  /\ n = goal
  /\ status' = Found
  /\ last' = n
  /\ phase' = "walk"
  /\ path' = <<goal>>
  /\ UNCHANGED <<args, search>>

\* The search ends; the way is followed back from its last cell.
EndSearch(n) ==
  /\ phase = "search" /\ Inside /\ start # goal
  /\ Found \/ OPEN = {}
  /\ IF Found THEN n = goal ELSE Nearest(n)
  /\ status' = Found
  /\ last' = n
  /\ phase' = IF n = start THEN "done" ELSE "walk"
  /\ path' = IF Found THEN <<goal>> ELSE IF n = start THEN <<start, start>> ELSE <<>>
  /\ UNCHANGED <<args, search>>

WalkBack ==
  /\ phase = "walk" /\ came_from[last] # start
  /\ last' = came_from[last]
  /\ path' = <<last'>> \o path
  /\ UNCHANGED <<args, search, phase, status>>

\* mp_grid_path puts the start in front.  The end of a way that does not reach
\* the goal is not on the path, and the start may be there twice.
Finish ==
  /\ phase = "walk" /\ came_from[last] = start
  /\ phase' = "done"
  /\ path' = <<start>> \o (IF path = <<>> THEN <<start>> ELSE path)
  /\ UNCHANGED <<args, search, status, last>>

\* From a cell to itself.
StayThere ==
  /\ phase = "search" /\ Inside /\ start = goal
  /\ phase' = "done"
  /\ path' = <<start, goal>>
  /\ UNCHANGED <<args, search, status, last>>

\* mp_grid_path returns at once, and leaves the path alone, if one of the
\* points is outside.
Refuse ==
  /\ phase = "search" /\ ~Inside
  /\ phase' = "refused"
  /\ UNCHANGED <<args, search, status, last, path>>

Next ==
  \/ \E n \in Cells : Expand(n) \/ EndSearch(n)
  \/ WalkBack \/ Finish \/ StayThere \/ Refuse

\* mp_grid_path does nothing else until it returns.
Spec == Init /\ [][Next]_vars /\ WF_vars(Next)

-----------------------------------------------------------------------------
\* The type of every variable.  (motion_planning_struct.h)
TypeOK ==
  /\ cost \in [Cells -> Nat] /\ start \in Points /\ goal \in Points /\ diag \in BOOLEAN
  /\ OPEN \in SUBSET Cells /\ CLOSED \in Seq(Cells)
  /\ key \in [Cells -> Nat] /\ G \in [Cells -> Nat] /\ came_from \in [Cells -> Cells \cup {Null}]
  /\ phase \in {"search", "walk", "done", "refused"} /\ status \in BOOLEAN
  /\ last \in Points /\ path \in Seq(Cells)

\* A path begins at the start, takes only steps that may be taken, and ends at
\* the goal if that is reached, whatever was open when a better way to a cell
\* was found.  (find_path, mp_grid_path)
IsWay(p) == \A i \in 1..Len(p) - 1 : CanStep(p[i], p[i + 1])
PathRight ==
  phase = "done" =>
    /\ path[1] = start
    /\ IsWay(path) \/ path = <<start, start>>
    /\ status => path[Len(path)] = goal

\* The sets of cells that nobody can leave who can enter them from the start.
Enclosure(S) == start \in S /\ \A n \in S, m \in Cells : CanStep(n, m) => m \in S
Reachable == \A S \in SUBSET Cells : Enclosure(S) => goal \in S

\* The search finds the goal if and only if it can be reached, although cells
\* are not taken in the order of the best way to them.  (find_path)
StatusRight == phase = "done" => (status <=> Reachable)

\* A path comes to an end.  (find_path's two loops)
Ends == <>(phase \in {"done", "refused"})
=============================================================================
