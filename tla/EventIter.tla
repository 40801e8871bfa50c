------------------------------ MODULE EventIter ------------------------------
(***************************************************************************)
(* One intrusive list of the instance system (event_iter), the raw event   *)
(* loop that walks it through the global instance_event_iterator, and the  *)
(* registered iterators of central_iterator_cache that walk it at the same *)
(* time.  The bodies of the events are arbitrary: between two steps of a   *)
(* walk any instance may be linked or unlinked, the current one included.  *)
(*                                                                         *)
(* A node is named by its position in allocation order.  A node that is    *)
(* unlinked keeps its pointers (it is freed only when no walk is active,   *)
(* see InstanceSystem), so a walk standing on it goes on from there.       *)
(***************************************************************************)
EXTENDS Integers, FiniteSets

CONSTANTS MaxNode,  \* bound: the nodes one behaviour may allocate
          Iter      \* the iterator objects that may be alive at once

ASSUME MaxNodeAssumption == MaxNode \in Nat

NULL == -1          \* the null pointer
Root == 0           \* the event_iter: next is the first node, prev the last
Node == 1..MaxNode

VARIABLES
  used,   \* number of nodes allocated so far
  live,   \* the linked nodes
  next,   \* inst_iter::next of the root and of every node
  prev,   \* inst_iter::prev of the root and of every node
  it,     \* iterator::it of every iterator object, NULL when destroyed
  cur,    \* instance_event_iterator of the loop, NULL when no pass runs
  cut,    \* the last pass was left for a room switch
  start,  \* history: the nodes linked when the last pass began
  bound,  \* history: used when the last pass began
  ran     \* history: the nodes whose event the last pass has run

listVars == <<used, live, next, prev>>
passVars == <<cur, cut, start, bound, ran>>
vars == <<used, live, next, prev, it, cur, cut, start, bound, ran>>

Init ==
  /\ used = 0
  /\ live = {}
  /\ next = [x \in 0..MaxNode |-> NULL]
  /\ prev = [x \in 0..MaxNode |-> IF x = Root THEN Root ELSE NULL]
  /\ it = [i \in Iter |-> NULL]
  /\ cur = NULL
  /\ cut = FALSE
  /\ start = {}
  /\ bound = 0
  /\ ran = {}

-----------------------------------------------------------------------------
(* The list                                                                *)

\* event_iter::add_inst: append a node for an instance.
AddInst ==
  /\ used < MaxNode
  /\ LET a    == used + 1
         last == prev[Root]
     IN /\ next' = [next EXCEPT ![last] = a, ![a] = NULL]
        /\ prev' = [prev EXCEPT ![a] = last, ![Root] = a]
        /\ live' = live \cup {a}
        /\ used' = a
  /\ UNCHANGED <<it, passVars>>

\* Mutants: the node of w is reset as it is unlinked; it points at itself; or
\* back.
NextPastReset(w) ==
  [x \in 0..MaxNode |-> IF x = w THEN NULL ELSE IF x = prev[w] THEN next[w] ELSE next[x]]
NextPastSelf(w) ==
  [x \in 0..MaxNode |-> IF x = w THEN w ELSE IF x = prev[w] THEN next[w] ELSE next[x]]
NextPastBack(w) ==
  [x \in 0..MaxNode |-> IF x = w THEN prev[w] ELSE IF x = prev[w] THEN next[w] ELSE next[x]]

\* The pointers after the neighbours of w, and the root, have let go of it.
NextPast(w) ==
  [x \in 0..MaxNode |->
     IF x = prev[w] THEN next[w]
     ELSE IF x = Root /\ next[Root] = w THEN NULL ELSE next[x]]

\* Mutant: the root keeps w as its last node.
PrevPastKeepsLast(w) == [x \in 0..MaxNode |-> IF x = next[w] THEN prev[w] ELSE prev[x]]

PrevPast(w) ==
  [x \in 0..MaxNode |->
     IF x = next[w] \/ (x = Root /\ prev[Root] = w) THEN prev[w] ELSE prev[x]]

\* iterator::handle_unlink of every registered iterator: the nodes the
\* iterators stand on forget the dead node, linked or not.
Registered == {it[i] : i \in Iter} \ {NULL}

\* Mutant: no iterator is told.
HandleUnlinkNextNot(w, n) == n

HandleUnlinkNext(w, n) ==
  [x \in 0..MaxNode |-> IF x \in Registered /\ n[x] = w THEN n[w] ELSE n[x]]

HandleUnlinkPrev(w, n, p) ==
  [x \in 0..MaxNode |->
     IF x \in Registered /\ n[x] # w /\ p[x] = w THEN p[w] ELSE p[x]]

\* event_iter::unlink, with update_iterators_for_destroy.
Unlink(w) ==
  /\ w \in live
  /\ next' = HandleUnlinkNext(w, NextPast(w))
  /\ prev' = HandleUnlinkPrev(w, NextPast(w), PrevPast(w))
  /\ live' = live \ {w}
  /\ UNCHANGED <<used, it, passVars>>

-----------------------------------------------------------------------------
(* The event loop: a raw pointer, unknown to central_iterator_cache        *)

\* The loop reaches node x and runs its event, or ends when x is NULL.
Reach(x) ==
  /\ cur' = x
  /\ ran' = (IF cur = NULL THEN {} ELSE ran) \cup ({x} \ {NULL})

\* instance_event_iterator = event_X->next
BeginPass ==
  /\ cur = NULL
  /\ Reach(next[Root])
  /\ cut' = FALSE
  /\ start' = live
  /\ bound' = used
  /\ UNCHANGED <<listVars, it>>

\* instance_event_iterator = instance_event_iterator->next
Advance ==
  /\ cur # NULL
  /\ Reach(next[cur])
  /\ UNCHANGED <<listVars, it, cut, start, bound>>

\* if (room_switching_id != -1) goto after_events
CutPass ==
  /\ cur # NULL
  /\ cur' = NULL
  /\ cut' = TRUE
  /\ UNCHANGED <<listVars, it, start, bound, ran>>

-----------------------------------------------------------------------------
(* Registered iterators                                                    *)

\* A constructor that takes the first node of the list, or the node of
\* another iterator (copy).
IterBegin(i) ==
  /\ it[i] = NULL
  /\ \E x \in {next[Root]} \cup Registered : it' = [it EXCEPT ![i] = x]
  /\ it' # it
  /\ UNCHANGED <<listVars, passVars>>

\* operator++
IterNext(i) ==
  /\ it[i] # NULL
  /\ it' = [it EXCEPT ![i] = next[it[i]]]
  /\ UNCHANGED <<listVars, passVars>>

\* The destructor.
IterEnd(i) ==
  /\ it[i] # NULL
  /\ it' = [it EXCEPT ![i] = NULL]
  /\ UNCHANGED <<listVars, passVars>>

Next ==
  \/ AddInst
  \/ \E w \in Node : Unlink(w)
  \/ BeginPass
  \/ Advance
  \/ CutPass
  \/ \E i \in Iter : IterBegin(i) \/ IterNext(i) \/ IterEnd(i)

Spec == Init /\ [][Next]_vars

\* An event body returns, so a pass that is running goes on.
FairSpec == Spec /\ WF_vars(Advance)

-----------------------------------------------------------------------------
\* The type of every variable.  (event_iter, iterator)
TypeOK ==
  /\ used \in 0..MaxNode
  /\ live \subseteq 1..used
  /\ next \in [0..MaxNode -> Node \cup {NULL}]
  /\ prev \in [0..MaxNode -> Node \cup {Root, NULL}]
  /\ it \in [Iter -> Node \cup {NULL}]
  /\ cur \in Node \cup {NULL}
  /\ cut \in BOOLEAN
  /\ start \subseteq Node
  /\ bound \in 0..MaxNode
  /\ ran \subseteq Node

\* y is the linked node that follows x, or NULL when x is the last.
Follows(x, y) ==
  IF y = NULL
  THEN \A z \in live : z <= x
  ELSE y \in live /\ x < y /\ \A z \in live : ~(x < z /\ z < y)

\* The list holds the linked instances in the order they were linked, in
\* both directions: whatever walks it from either end meets each of them
\* once.  (add_inst, unlink)
Linked ==
  /\ \A x \in live \cup {Root} : Follows(x, next[x])
  /\ \A x \in live : /\ prev[x] \in live \cup {Root}
                     /\ next[prev[x]] = x
  /\ prev[Root] \in live \cup {Root}
  /\ next[prev[Root]] = NULL

\* A registered iterator, even one that stands on an unlinked instance,
\* moves on to a linked instance or to the end.  (handle_unlink)
IterSafe == \A i \in Iter : it[i] # NULL => next[it[i]] \in live \cup {NULL}

\* An instance that is linked during a whole pass has its event run in it,
\* whatever the other events link and unlink, unless the pass is cut short.
PassComplete == cur = NULL /\ ~cut => start \cap live \subseteq ran

\* No pass runs the event of a node twice: the loop only moves forward.
ForwardOnly == [][cur # NULL /\ cur' \notin {cur, NULL} => cur < cur']_vars

\* A pass ends, when finitely many instances are created in it.
PassEnds == cur # NULL ~> cur = NULL

-----------------------------------------------------------------------------
(* The strengthening that makes the invariants above inductive.            *)

\* The nodes a pass can come across: linked when it began, or allocated since.
Seen == {x \in 1..used : x \in start \/ x > bound}

\* An unlinked node still points forward and passes over no linked node.
UnlinkedForward ==
  \A x \in (1..used) \ live :
    next[x] # NULL => /\ next[x] \in 1..used
                      /\ x < next[x]
                      /\ \A z \in live : ~(x < z /\ z < next[x])

\* From a node the pass can come across it only comes across such nodes, and
\* an end it may reach lies behind every node of the start of the pass.
SeenClosed ==
  \A x \in Seen :
    IF next[x] = NULL THEN \A z \in live : z > x => z > bound
                      ELSE next[x] \in Seen

\* What the running pass has done so far.
PassSoFar ==
  cur # NULL => /\ cur \in Seen
                /\ \A y \in start \cap live : y <= cur => y \in ran

IInv ==
  /\ TypeOK
  /\ Linked
  /\ UnlinkedForward
  /\ IterSafe
  /\ \A i \in Iter : it[i] # NULL => it[i] \in 1..used
  /\ start \subseteq 1..bound
  /\ bound <= used
  /\ SeenClosed
  /\ PassSoFar
  /\ PassComplete
=============================================================================
