------------------------------ MODULE DepthDraw ------------------------------
(***************************************************************************)
(* The draw lists: one event_iter per depth (drawing_depths), the depth    *)
(* variable of an instance, whose assignment only files a request in       *)
(* id_to_currentnextdepth, the redraw that carries the requests out, and   *)
(* the loop that runs the Draw events from the greatest depth down.        *)
(*                                                                         *)
(* The code that runs between two steps of the loop is the Draw event of   *)
(* the instance it stands at, which may itself redraw: the redraws under   *)
(* way are a stack.  Code outside every redraw is any other event.  With   *)
(* views a redraw is one after the other, each as here.                    *)
(***************************************************************************)
EXTENDS Integers, FiniteSets, Sequences

CONSTANTS
  MaxInst,     \* bound: instance ids
  Depths,      \* the depths in use: positive integers
  ObjDepths,   \* [Inst -> Seq(Depths)]: the default depths of the instance's
               \* object and its ancestors, the rootmost first
  MaxNode,     \* bound: nodes allocated
  MaxCalls     \* bound: calls made by event code

Inst == 1..MaxInst
NULL == 0
Node == 1..MaxNode
Root(d) == -d        \* drawing_depths[d].draw_events
Roots == {Root(d) : d \in Depths}
NoRequest == <<>>

\* There is a greatest depth to begin with, and every object has a depth.
ASSUME DepthsAssumption ==
  /\ MaxInst \in Nat /\ MaxNode \in Nat /\ MaxCalls \in Nat
  /\ Depths \subseteq Nat \ {0} /\ \E d \in Depths : \A e \in Depths : e <= d
  /\ ObjDepths \in [Inst -> Seq(Depths) \ {<<>>}]

VARIABLES
  used,    \* number of nodes allocated so far
  live,    \* history: the nodes linked in some list
  who,     \* inst_iter::inst
  next, prev,
  rval,    \* depth.rval.d of every instance
  myiter,  \* depth.myiter of every instance, NULL when not linked
  request, \* id_to_currentnextdepth: <<current, next>> or NoRequest
  iter,    \* instance_event_iterator, NULL when it is at none of these nodes
  frames,  \* the calls of draw_tiles under way, the innermost last: the depth
           \* each is at and its push_it, and the nodes linked when it began
           \* and those it has come to, in order (history)
  leaving, \* whether room_switching_id is set
  stale,   \* history: an id was activated under a request it had not answered
  calls    \* number of calls made so far

listVars == <<used, live, who, next, prev>>
loopVars == <<iter, frames, leaving>>
depthVars == <<used, live, who, next, prev, rval, myiter, request, iter, frames,
               leaving, stale, calls>>

DepthInit ==
  /\ used = 0 /\ live = {}
  /\ who = [n \in Node |-> NULL]
  /\ next = [x \in Roots \cup Node |-> NULL]
  /\ prev = [x \in Roots \cup Node |-> IF x \in Roots THEN x ELSE NULL]
  /\ rval = [i \in Inst |-> 0]
  /\ myiter = [i \in Inst |-> NULL]
  /\ request = [i \in Inst |-> NoRequest]
  /\ iter = NULL /\ frames = <<>>
  /\ leaving = FALSE /\ stale = FALSE
  /\ calls = 0

-----------------------------------------------------------------------------
(* The lists, as records of next and prev                                  *)

Lists == [next |-> next, prev |-> prev]

\* draw_events->add_inst on the list of depth d: node a becomes its last.
Add(l, d, a) ==
  [next |-> [l.next EXCEPT ![l.prev[Root(d)]] = a, ![a] = NULL],
   prev |-> [l.prev EXCEPT ![a] = l.prev[Root(d)], ![Root(d)] = a]]

\* Mutant: the list keeps w as its last node.
RemoveKeepsLast(l, d, w) ==
  [next |-> [l.next EXCEPT ![l.prev[w]] = l.next[w]],
   prev |-> IF l.next[w] = NULL THEN l.prev ELSE [l.prev EXCEPT ![l.next[w]] = l.prev[w]]]

\* draw_events->unlink of node w, called on the list of depth d, whichever
\* list w is in: only the last pointer of that list is looked at.  (The draw
\* loop is a raw pointer: no registered iterator stands on these lists.)
Remove(l, d, w) ==
  LET n1 == [l.next EXCEPT ![l.prev[w]] = l.next[w]]
      p1 == IF l.next[w] = NULL THEN l.prev ELSE [l.prev EXCEPT ![l.next[w]] = l.prev[w]]
  IN [next |-> IF n1[Root(d)] = w THEN [n1 EXCEPT ![Root(d)] = NULL] ELSE n1,
      prev |-> IF p1[Root(d)] = w THEN [p1 EXCEPT ![Root(d)] = l.prev[w]] ELSE p1]

\* The depth whose list depthv::remove takes the node of i to be in.
Committed(i, local) == IF request[i] = NoRequest THEN local ELSE request[i][1]

-----------------------------------------------------------------------------
(* The depth variable                                                      *)

Call == calls < MaxCalls /\ calls' = calls + 1

\* Mutant: a request is filed for an instance that is not linked.
FilesAlways(i, d) == rval[i] # d

\* Whether the assignment of d files a request.
Files(i, d) == myiter[i] # NULL /\ rval[i] # d

\* depthv::function, called by depth = d.
SetDepth(i, d) ==
  /\ Call
  /\ rval' = [rval EXCEPT ![i] = d]
  /\ request' = IF Files(i, d) THEN [request EXCEPT ![i] = <<Committed(i, rval[i]), d>>]
                ELSE request
  /\ UNCHANGED <<listVars, myiter, loopVars, stale>>

\* A request of i is on file that is not for the depths activate() gives it.
Outlived(i) ==
  \E k \in 1..Len(ObjDepths[i]) :
    request[i] \notin {NoRequest, <<ObjDepths[i][k], ObjDepths[i][k]>>}

\* activate(): depthv::init with the depth of the rootmost ancestor, then for
\* every object down to its own depthv::remove and init again.
Init1(l, i, k) == Add(l, ObjDepths[i][k], used + k)
Activate(i) ==
  LET depths == ObjDepths[i]
      n == Len(depths)
      lists[k \in 1..n] ==
        IF k = 1 THEN Init1(Lists, i, 1)
        ELSE Init1(Remove(lists[k-1], Committed(i, depths[k-1]), used + k - 1), i, k)
  IN /\ Call
     /\ myiter[i] = NULL
     /\ used + n <= MaxNode
     /\ used' = used + n
     /\ next' = lists[n].next /\ prev' = lists[n].prev
     /\ who' = [x \in Node |-> IF x > used /\ x <= used + n THEN i ELSE who[x]]
     /\ live' = live \cup {used + n}
     /\ myiter' = [myiter EXCEPT ![i] = used + n]
     /\ rval' = [rval EXCEPT ![i] = depths[n]]
     /\ stale' = (stale \/ Outlived(i))
     /\ UNCHANGED <<request, loopVars>>

\* deactivate(): depthv::remove.
Deactivate(i) ==
  LET l == Remove(Lists, Committed(i, rval[i]), myiter[i])
  IN /\ Call
     /\ myiter[i] # NULL
     /\ next' = l.next /\ prev' = l.prev
     /\ live' = live \ {myiter[i]}
     /\ myiter' = [myiter EXCEPT ![i] = NULL]
     /\ UNCHANGED <<used, who, rval, request, loopVars, stale>>

-----------------------------------------------------------------------------
(* screen_redraw                                                           *)

\* The list an instance is moved to.  Mutant: the one it is in.
GoalSame(i) == request[i][1]
Goal(i) == request[i][2]

\* Where the iterator stands once node w is taken out of the lists l.  Mutant:
\* on the node after it, which is then passed over.
StandingOnNext(at, w, l) ==
  IF at # w THEN at ELSE IF l.next[w] = NULL THEN l.prev[w] ELSE l.next[w]
Standing(at, w, l) == IF at = w THEN l.prev[w] ELSE at

\* draw_insts: carry out the requests, by ascending id; the requests of ids
\* that are not linked are dropped.
Moves == {i \in Inst : request[i] # NoRequest /\ myiter[i] # NULL}

\* The lists, the nodes and the iterator of s after the request of i.
Moved(s, i) ==
  LET w == s.myiter[i]
      a == s.used + 1
      l == Remove(s.l, request[i][1], w)
  IN [l      |-> Add(l, Goal(i), a),
      used   |-> a,
      live   |-> (s.live \ {w}) \cup {a},
      who    |-> [s.who EXCEPT ![a] = i],
      myiter |-> [s.myiter EXCEPT ![i] = a],
      iter   |-> Standing(s.iter, w, l)]

\* The state after the requests of the ids up to the last.
Answered ==
  LET s[i \in 0..MaxInst] ==
        IF i = 0 THEN [l |-> Lists, used |-> used, live |-> live, who |-> who,
                       myiter |-> myiter, iter |-> iter]
        ELSE IF i \in Moves THEN Moved(s[i-1], i) ELSE s[i-1]
  IN s[MaxInst]

DrawInsts ==
  /\ used + Cardinality(Moves) <= MaxNode
  /\ next' = Answered.l.next /\ prev' = Answered.l.prev
  /\ used' = Answered.used /\ live' = Answered.live /\ who' = Answered.who
  /\ myiter' = Answered.myiter
  /\ request' = [i \in Inst |-> NoRequest]

Greatest(S) == CHOOSE d \in S : \A e \in S : e <= d

\* draw_insts, then draw_tiles as far as the first Draw event: at the first
\* node of the deepest list that has one.  When all are empty it is over.
Redraw ==
  /\ DrawInsts
  /\ LET full == {d \in Depths : next'[Root(d)] # NULL}
         d == Greatest(full)
     IN \/ /\ full = {}
           /\ iter' = Answered.iter
           /\ UNCHANGED frames
        \/ /\ full # {}
           /\ iter' = next'[Root(d)]
           /\ frames' = Append(frames, [layer |-> d, push |-> Answered.iter,
                                        begun |-> live', ran |-> <<next'[Root(d)]>>])
  /\ UNCHANGED <<rval, leaving, stale>>

\* The redraw of a step, or one by the code of an event other than Draw.
BeginDraw == frames = <<>> /\ Redraw /\ UNCHANGED calls

\* A redraw by the code of a Draw event.
NestedRedraw == frames # <<>> /\ Redraw /\ Call

\* room_goto and its like, by the code of a Draw event or of another.
RoomGoto ==
  /\ Call
  /\ leaving' = TRUE
  /\ UNCHANGED <<listVars, rval, myiter, request, iter, frames, stale>>

-----------------------------------------------------------------------------
(* draw_tiles, after a Draw event                                          *)

Loop == frames[Len(frames)]
Outer == SubSeq(frames, 1, Len(frames) - 1)
Later == {d \in Depths : d < Loop.layer /\ next[Root(d)] # NULL}

LoopStep ==
  /\ frames # <<>>
  /\ UNCHANGED <<listVars, rval, myiter, request, leaving, stale, calls>>

\* A room is asked for: draw_tiles returns, and leaves the iterator where it is.
Abandon ==
  /\ LoopStep
  /\ leaving
  /\ frames' = Outer
  /\ UNCHANGED iter

\* The loop comes to node x of the list of depth d.
ComesTo(d, x) ==
  /\ iter' = x
  /\ frames' = [frames EXCEPT ![Len(frames)] =
                  [Loop EXCEPT !.layer = d, !.ran = Append(@, x)]]

\* The next node of the list.
DrawNext ==
  /\ LoopStep
  /\ ~leaving /\ next[iter] # NULL
  /\ ComesTo(Loop.layer, next[iter])

\* The first node of the next list that has one.
DrawLayer ==
  /\ LoopStep
  /\ ~leaving /\ next[iter] = NULL /\ Later # {}
  /\ ComesTo(Greatest(Later), next[Root(Greatest(Later))])

\* There is none: the iterator gets back what it was when the redraw began.
EndDraw ==
  /\ LoopStep
  /\ ~leaving /\ next[iter] = NULL /\ Later = {}
  /\ iter' = Loop.push
  /\ frames' = Outer

\* The step ends: rooms_switch enters the room, if it exists, and the loops of
\* the next step set the iterator.
EndStep ==
  /\ frames = <<>> /\ leaving
  /\ leaving' \in BOOLEAN
  /\ iter' = NULL
  /\ UNCHANGED <<listVars, rval, myiter, request, frames, stale, calls>>

DepthNext ==
  \/ \E i \in Inst : Activate(i) \/ Deactivate(i) \/ \E d \in Depths : SetDepth(i, d)
  \/ BeginDraw \/ NestedRedraw \/ RoomGoto
  \/ Abandon \/ DrawNext \/ DrawLayer \/ EndDraw \/ EndStep

DepthSpec == DepthInit /\ [][DepthNext]_depthVars

-----------------------------------------------------------------------------
\* The type of every variable.  (depth_draw.h, graphics_object.h)
DepthTypeOK ==
  /\ used \in 0..MaxNode /\ live \subseteq 1..used
  /\ who \in [Node -> Inst \cup {NULL}]
  /\ next \in [Roots \cup Node -> Node \cup {NULL}]
  /\ prev \in [Roots \cup Node -> Roots \cup Node \cup {NULL}]
  /\ rval \in [Inst -> Depths \cup {0}]
  /\ myiter \in [Inst -> Node \cup {NULL}]
  /\ request \in [Inst -> {NoRequest} \cup (Depths \X Depths)]
  /\ iter \in Roots \cup Node \cup {NULL}
  /\ frames \in Seq([layer : Depths, push : Roots \cup Node \cup {NULL},
                     begun : SUBSET Node, ran : Seq(Node)])
  /\ frames # <<>> => iter # NULL
  /\ leaving \in BOOLEAN /\ stale \in BOOLEAN
  /\ calls \in 0..MaxCalls

\* The nodes a loop over the list of depth d meets.
Chain(d) ==
  LET from[k \in 0..MaxNode] ==
        IF k = 0 THEN {next[Root(d)]} \ {NULL}
        ELSE LET S == from[k-1] IN S \cup ({next[x] : x \in S} \ {NULL})
  IN from[MaxNode]

\* The last node of a list: where the next instance is appended.
LastIsLast == \A d \in Depths : /\ prev[Root(d)] \in {Root(d)} \cup Chain(d)
                                /\ next[prev[Root(d)]] = NULL

\* Until an id is activated under a request it had not answered, every linked
\* instance is in the list of the depth it had when the requests were last
\* carried out, in no other, and each list knows its last node, whatever was
\* assigned, linked, unlinked and redrawn.  (depthv, draw_insts)
OneLayerEach ==
  ~stale =>
    /\ \A d \in Depths : Chain(d) =
         {myiter[i] : i \in {i \in Inst : myiter[i] # NULL /\ Committed(i, rval[i]) = d}}
    /\ LastIsLast

\* A linked id with no request on file is linked at its local depth: what
\* depthv::remove says when it finds no request ("Local value is valid, use
\* it.").  The code does not keep it once stale is set; no run checks it.
LocalValueIsValid ==
  \A i \in Inst : myiter[i] # NULL /\ request[i] = NoRequest
                    => myiter[i] \in Chain(rval[i])

\* The iterator is at the node of the instance whose Draw event runs: what the
\* actions and an error report take for self.  (instance_event_iterator)  The
\* code does not keep it: draw_insts steps the iterator back.  No run checks it.
DrawLocated ==
  frames # <<>> => iter \in Node /\ who[iter] = who[Loop.ran[Len(Loop.ran)]]

\* A redraw that no room request cuts short has, when it ends, run the Draw
\* event of every instance whose node was linked when it began and still is,
\* once, whatever the events in it and the redraws within them linked, moved
\* and unlinked.  (draw_tiles, push_it, until an id is activated under a
\* request it had not answered)
DrawComplete ==
  [][Len(frames') < Len(frames) /\ ~leaving /\ ~stale
       => \A n \in Loop.begun \cap live :
            Cardinality({k \in 1..Len(Loop.ran) : Loop.ran[k] = n}) = 1]_depthVars

\* A redraw begins with every linked instance in the list of the depth it was
\* last given, until an id is activated under a request it had not answered:
\* no assignment is lost, whatever was linked and unlinked before draw_insts.
RequestsCarriedOut ==
  [][Len(frames') > Len(frames) /\ ~stale
       => \A i \in Inst : myiter'[i] # NULL
            => myiter'[i] \in Chain(rval[i])']_depthVars
=============================================================================
