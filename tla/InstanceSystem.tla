--------------------------- MODULE InstanceSystem ---------------------------
(***************************************************************************)
(* The instances of a running game: construction, destruction, (de)activa- *)
(* tion and instance_change, called by event code in any order and nested  *)
(* through the Create and Destroy events, over the lists of the instance   *)
(* system and the walks that stand on them meanwhile.                      *)
(*                                                                         *)
(* An instance p is an object in memory; id[p] is the number by which code *)
(* names it.  Each activation of an instance allocates one node in every   *)
(* list the instance is linked into; a node is named by the number of the  *)
(* activation.  The stack holds the C++ calls in progress: the event loop, *)
(* with() blocks, bodies of event code, and the loops of instance_destroy, *)
(* instance_deactivate_* and instance_activate_*.                          *)
(***************************************************************************)
EXTENDS Integers, Sequences, FiniteSets

CONSTANTS
  Obj,         \* the objects of the game
  Parent,      \* [Obj -> Obj \cup {NoParent}], the object hierarchy
  NoParent,
  RoomInsts,   \* the objects of the instances the room starts with
  MaxInst,     \* bound: instances constructed
  MaxAct,      \* bound: activations, that is nodes of each list
  MaxCalls,    \* bound: calls made by event code
  MaxDepth     \* bound: C++ calls in progress at once

ASSUME ConstantsAssumption ==
  /\ IsFiniteSet(Obj) /\ NoParent \notin Obj
  /\ Parent \in [Obj -> Obj \cup {NoParent}]
  /\ "event" \notin Obj /\ "main" \notin Obj /\ "temp" \notin Obj
  /\ MaxInst \in Nat /\ MaxAct \in Nat /\ MaxCalls \in Nat /\ MaxDepth \in Nat
  /\ RoomInsts \in Seq(Obj) /\ Len(RoomInsts) <= MaxInst

NULL == -1
Root == 0
Inst == 1..MaxInst
Id == 1..MaxInst       \* ids are handed out from 1: maxid counts them
Act == 1..MaxAct

VARIABLES
  insts,    \* number of instances constructed
  id, obj,  \* object_basic::id and object_index of every instance
  maxid,    \* enigma::maxid
  acts,     \* number of activations so far
  node,     \* ENOBJ_ITER_*: the last activation of an instance
  who,      \* inst_iter::inst of the nodes of an activation
  live,     \* history: the activations whose nodes are linked
  list,     \* next and prev of every list: the event, all instances, objects
  main,     \* instance_list: id -> node, 0 when absent
  count,    \* objectid_base::count
  total,    \* instance_count
  deact,    \* instance_deactivated_list: id -> instance, 0 when absent
  cleanups, \* the instances queued for deletion
  freed,    \* the instances deleted
  stack,    \* the calls in progress, the innermost first
  calls,    \* number of calls made by event code
  pass      \* history of the last event pass, see EventIter

instVars == <<insts, id, obj, maxid>>
listVars == <<acts, node, who, live, list, main, count>>
vars == <<insts, id, obj, maxid, acts, node, who, live, list, main, count,
          total, deact, cleanups, freed, stack, calls, pass>>

EmptyList == [next |-> [x \in 0..MaxAct |-> NULL],
              prev |-> [x \in 0..MaxAct |-> IF x = Root THEN Root ELSE NULL]]

Init ==
  /\ insts = 0
  /\ id = [p \in Inst |-> 0]
  /\ obj = [p \in Inst |-> NoParent]
  /\ maxid = Len(RoomInsts) + 1
  /\ acts = 0
  /\ node = [p \in Inst |-> 0]
  /\ who = [n \in Act |-> 0]
  /\ live = {}
  /\ list = [l \in Obj \cup {"event", "main"} |-> EmptyList]
  /\ main = [i \in Id |-> 0]
  /\ count = [o \in Obj |-> 0]
  /\ total = 0
  /\ deact = [i \in Id |-> 0]
  /\ cleanups = {}
  /\ freed = {}
  /\ stack = <<>>
  /\ calls = 0
  /\ pass = [start |-> {}, bound |-> 0, ran |-> {}]

-----------------------------------------------------------------------------
(* Lists                                                                   *)

\* The object and its ancestors: the object lists its instances are in.
Lineage(o) ==
  LET up[k \in 0..Cardinality(Obj)] ==
        IF k = 0 THEN {o}
        ELSE LET S == up[k-1] IN S \cup ({Parent[x] : x \in S} \ {NoParent})
  IN up[Cardinality(Obj)]

\* can_cast, or being of the object itself.
IsA(p, o) == o \in Lineage(obj[p])

\* Mutant: the list does not note its new last node.
AppendedNotLast(l, a) ==
  [next |-> [l.next EXCEPT ![l.prev[Root]] = a, ![a] = NULL],
   prev |-> [l.prev EXCEPT ![a] = l.prev[Root]]]

\* event_iter::add_inst and objectid_base::add_inst.
Appended(l, a) ==
  [next |-> [l.next EXCEPT ![l.prev[Root]] = a, ![a] = NULL],
   prev |-> [l.prev EXCEPT ![a] = l.prev[Root], ![Root] = a]]

\* Mutant: whatever its id, the instance becomes the last.
InsertedLast(l, a, i) == Appended(l, a)

\* link_instance: between the nodes of the ids next to i in instance_list.
Inserted(l, a, i) ==
  LET below == {j \in Id : j < i /\ main[j] # 0}
      above == {j \in Id : j > i /\ main[j] # 0}
      pred  == IF below = {} THEN Root
               ELSE main[CHOOSE j \in below : \A k \in below : k <= j]
      succ  == IF above = {} THEN NULL
               ELSE main[CHOOSE j \in above : \A k \in above : j <= k]
  IN [next |-> [l.next EXCEPT ![pred] = a, ![a] = succ],
      prev |-> [x \in 0..MaxAct |->
                  IF x = a THEN pred
                  ELSE IF x = succ \/ (x = Root /\ succ = NULL) THEN a ELSE l.prev[x]]]

\* The frames that hold a registered iterator, and the node it stands on in
\* list l: instance_destroy and instance_deactivate_* loop with one, a with()
\* block keeps one on its first node.
Registered(l) ==
  {stack[d].reg : d \in {d \in 1..Len(stack) : stack[d].list = l}} \ {NULL}

\* Mutant: the node is reset as it is unlinked.
UnlinkedReset(name, w) ==
  LET l == list[name]
  IN [next |-> [l.next EXCEPT ![l.prev[w]] = l.next[w], ![w] = NULL],
      prev |-> [x \in 0..MaxAct |->
                  IF x = l.next[w] \/ (x = Root /\ l.prev[x] = w)
                  THEN l.prev[w] ELSE l.prev[x]]]

\* event_iter::unlink, unlink_object_id_iter and unlink_main, each with
\* update_iterators_for_destroy.
Unlinked(name, w) ==
  LET l  == list[name]
      n1 == [x \in 0..MaxAct |->
               IF x = l.prev[w] THEN l.next[w]
               ELSE IF x = Root /\ l.next[x] = w THEN NULL ELSE l.next[x]]
      p1 == [x \in 0..MaxAct |->
               IF x = l.next[w] \/ (x = Root /\ l.prev[x] = w)
               THEN l.prev[w] ELSE l.prev[x]]
      R  == Registered(name)
  IN [next |-> [x \in 0..MaxAct |-> IF x \in R /\ n1[x] = w THEN n1[w] ELSE n1[x]],
      prev |-> [x \in 0..MaxAct |->
                  IF x \in R /\ n1[x] # w /\ p1[x] = w THEN p1[w] ELSE p1[x]]]

-----------------------------------------------------------------------------
(* What the generated code of an object does to the lists                  *)

ListsOf(p) == {"event", "main"} \cup Lineage(obj[p])

\* activate(): a node in instance_list, the object lists and the event list.
\* An id that instance_list holds already keeps its entry (link_instance).
Activate(p, i, o) ==
  LET a == acts + 1 IN
  /\ acts < MaxAct
  /\ acts' = a
  /\ node' = [node EXCEPT ![p] = a]
  /\ who' = [who EXCEPT ![a] = p]
  /\ live' = live \cup {a}
  /\ list' = [l \in DOMAIN list |->
                IF l = "main"
                THEN IF main[i] = 0 THEN Inserted(list[l], a, i) ELSE list[l]
                ELSE IF l = "event" \/ l \in Lineage(o)
                THEN Appended(list[l], a) ELSE list[l]]
  /\ main' = [main EXCEPT ![i] = IF @ = 0 THEN a ELSE @]
  /\ count' = [k \in Obj |-> IF k \in Lineage(o) THEN count[k] + 1 ELSE count[k]]

\* deactivate(): unlink_main erases the entry of the id.
Deactivate(p) ==
  /\ list' = [l \in DOMAIN list |->
                IF l = "main" THEN Unlinked(l, main[id[p]])
                ELSE IF l \in ListsOf(p) THEN Unlinked(l, node[p]) ELSE list[l]]
  /\ main' = [main EXCEPT ![id[p]] = 0]
  /\ count' = [k \in Obj |-> IF IsA(p, k) THEN count[k] - 1 ELSE count[k]]
  /\ live' = live \ {node[p]}
  /\ UNCHANGED <<acts, node, who>>

\* Mutant: an instance that is destroyed can still be activated.
UnlinkKeepsDeact(p) ==
  /\ cleanups' = cleanups \cup {p}
  /\ total' = total - 1
  /\ UNCHANGED deact
  /\ IF deact[id[p]] = 0 THEN Deactivate(p) ELSE UNCHANGED listVars

\* unlink(): queue for deletion, and deactivate unless deactivated already.
Unlink(p) ==
  /\ cleanups' = cleanups \cup {p}
  /\ total' = total - 1
  /\ deact' = [deact EXCEPT ![id[p]] = 0]
  /\ IF deact[id[p]] = 0 THEN Deactivate(p) ELSE UNCHANGED listVars

\* The constructor OBJ_o(x, y, i): a new instance with id i, activated.
Construct(i, o) ==
  LET p == insts + 1 IN
  /\ insts < MaxInst
  /\ insts' = p
  /\ id' = [id EXCEPT ![p] = i]
  /\ obj' = [obj EXCEPT ![p] = o]
  /\ total' = total + 1
  /\ Activate(p, i, o)

-----------------------------------------------------------------------------
(* Calls in progress                                                       *)

\* A frame: the call, the list it walks ("temp": a single instance), the node
\* of its registered iterator, its raw pointer, the instance it acts for, a
\* flag, and the nodes that were linked in its list when it was called.
Frame(op) == [op |-> op, list |-> "temp", reg |-> NULL, cur |-> NULL,
              self |-> 0, flag |-> FALSE, seen |-> {}]
Code(p) == [Frame("code") EXCEPT !.self = p]

Top == stack[1]
Below == Tail(stack)
Push(f) == stack' = <<f>> \o stack
Pop == stack' = Below
Replace(f) == stack' = <<f>> \o Below

\* The instance that instance_event_iterator holds while event code runs.
Self == Top.self

\* What code may name: an object, all, an id, self.
Target == [kind : {"object"}, of : Obj] \cup [kind : {"id"}, of : 1..(maxid - 1)]
            \cup {[kind |-> "all"], [kind |-> "self"]}

\* fetch_inst_iter_by_int: the walk f starts on.
Fetch(f, t) ==
  CASE t.kind = "object" -> [f EXCEPT !.list = t.of, !.reg = list[t.of].next[Root]]
    [] t.kind = "all"    -> [f EXCEPT !.list = "main", !.reg = list["main"].next[Root]]
    [] t.kind = "self"   -> [f EXCEPT !.reg = Root, !.self = Self]
    [] t.kind = "id"     -> IF main[t.of] = 0 THEN f
                            ELSE [f EXCEPT !.reg = Root, !.self = who[main[t.of]]]

\* The instance a registered iterator gives, and the node after x.
At(f) == IF f.list = "temp" THEN f.self ELSE who[f.reg]
After(f, x) == IF f.list = "temp" THEN NULL ELSE list[f.list].next[x]
\* operator++ once the body of the loop has changed the lists.
Step(f) == [f EXCEPT !.reg = IF f.list = "temp" THEN NULL ELSE list'[f.list].next[f.reg]]

\* Event code that may make another call.
Running == /\ stack # <<>>
           /\ Top.op = "code"
           /\ calls < MaxCalls
           /\ Len(stack) < MaxDepth
Call == Running /\ calls' = calls + 1

Active(p) == node[p] \in live

-----------------------------------------------------------------------------
(* The event loop and with()                                               *)

\* instance_create_id, as the room is entered.
LoadInstance ==
  /\ stack = <<>> /\ insts < Len(RoomInsts)
  /\ Construct(insts + 1, RoomInsts[insts + 1])
  /\ UNCHANGED <<maxid, deact, cleanups, freed, stack, calls, pass>>

\* A loop stands on node x of its list and runs the code of its instance.
Body(f, x) == <<Code(IF f.list = "temp" THEN f.self ELSE who[x]), [f EXCEPT !.cur = x]>>

BeginPass ==
  /\ stack = <<>> /\ insts >= Len(RoomInsts)
  /\ LET first == list["event"].next[Root]
     IN /\ stack' = IF first = NULL THEN <<>>
                    ELSE Body([Frame("loop") EXCEPT !.list = "event"], first)
        /\ pass' = [start |-> live, bound |-> acts, ran |-> {first} \ {NULL}]
  /\ UNCHANGED <<instVars, listVars, total, deact, cleanups, freed, calls>>

\* Event code returns to the call below it.
Return ==
  /\ stack # <<>> /\ Top.op = "code"
  /\ Pop
  /\ UNCHANGED <<instVars, listVars, total, deact, cleanups, freed, calls, pass>>

\* instance_event_iterator = instance_event_iterator->next
Advance ==
  /\ stack # <<>> /\ Top.op \in {"loop", "with"}
  /\ LET x == After(Top, Top.cur)
     IN /\ stack' = IF x = NULL THEN Below ELSE Body(Top, x) \o Below
        /\ pass' = IF Top.op = "loop"
                   THEN [pass EXCEPT !.ran = @ \cup ({x} \ {NULL})] ELSE pass
  /\ UNCHANGED <<instVars, listVars, total, deact, cleanups, freed, calls>>

\* with (t) { ... }
With(t) ==
  /\ Call
  /\ LET f == Fetch(Frame("with"), t)
     IN stack' = IF f.reg = NULL THEN stack ELSE Body(f, f.reg) \o stack
  /\ UNCHANGED <<instVars, listVars, total, deact, cleanups, freed, pass>>

\* dispose_destroyed_instances, after the events of a step.
Dispose ==
  /\ stack = <<>> /\ cleanups # {}
  /\ freed' = freed \cup cleanups
  /\ cleanups' = {}
  /\ UNCHANGED <<instVars, listVars, total, deact, stack, calls, pass>>

-----------------------------------------------------------------------------
(* The calls event code makes                                              *)

\* Mutant: maxid is not raised.
InstanceCreateSameId(o) ==
  /\ Call
  /\ maxid \in Id
  /\ Construct(maxid, o)
  /\ Push(Code(insts'))
  /\ UNCHANGED <<maxid, deact, cleanups, freed, pass>>

\* instance_create(x, y, o): a new instance of o, then its Create event.
InstanceCreate(o) ==
  /\ Call
  /\ maxid \in Id
  /\ Construct(maxid, o)
  /\ maxid' = maxid + 1
  /\ Push(Code(insts'))
  /\ UNCHANGED <<deact, cleanups, freed, pass>>

\* instance_destroy(t); instance_destroy() is instance_destroy(self).
InstanceDestroy(t) ==
  /\ Call
  /\ LET f == Fetch([Frame("destroy") EXCEPT !.flag = TRUE], t)
     IN Push([f EXCEPT !.seen = IF f.list = "temp" THEN {}
                                ELSE {n \in live : f.list \in ListsOf(who[n])}])
  /\ UNCHANGED <<instVars, listVars, total, deact, cleanups, freed, pass>>

\* One turn of its loop, up to the Destroy event.  flag: dest_ev.
DestroyTurn ==
  /\ stack # <<>> /\ Top.op = "destroy"
  /\ IF Top.reg = NULL THEN Pop
     ELSE IF At(Top) \in cleanups THEN Replace([Top EXCEPT !.reg = After(Top, @)])
     ELSE LET f == [Top EXCEPT !.op = "unlink"]
          IN stack' = IF Top.flag THEN <<Code(At(Top)), f>> \o Below ELSE <<f>> \o Below
  /\ UNCHANGED <<instVars, listVars, total, deact, cleanups, freed, calls, pass>>

\* Mutant: the Destroy event may have destroyed the instance already.
DestroyUnlinkAgain ==
  /\ stack # <<>> /\ Top.op = "unlink"
  /\ Unlink(At(Top))
  /\ Replace([Step(Top) EXCEPT !.op = "destroy"])
  /\ UNCHANGED <<instVars, freed, calls, pass>>

\* The rest of the turn, unless the Destroy event destroyed the instance.
DestroyUnlink ==
  /\ stack # <<>> /\ Top.op = "unlink"
  /\ IF At(Top) \in cleanups
     THEN UNCHANGED <<listVars, total, deact, cleanups>> ELSE Unlink(At(Top))
  /\ Replace([Step(Top) EXCEPT !.op = "destroy"])
  /\ UNCHANGED <<instVars, freed, calls, pass>>

\* instance_deactivate_object(t), instance_deactivate_all(notme).  Code that
\* deactivates a self that is not linked unlinks it a second time, which is
\* undefined; it is left out.
InstanceDeactivate(t, notme) ==
  /\ Call
  /\ notme => t.kind = "all"
  /\ t.kind = "self" => Active(Self)
  /\ Push(Fetch([Frame("deactivate") EXCEPT !.flag = notme, !.cur = id[Self]], t))
  /\ UNCHANGED <<instVars, listVars, total, deact, cleanups, freed, pass>>

DeactivateTurn ==
  /\ stack # <<>> /\ Top.op = "deactivate"
  /\ IF Top.reg = NULL
     THEN Pop /\ UNCHANGED <<listVars, deact>>
     ELSE IF Top.flag /\ id[At(Top)] = Top.cur
     THEN /\ Replace([Top EXCEPT !.reg = After(Top, @)])
          /\ UNCHANGED <<listVars, deact>>
     ELSE /\ Deactivate(At(Top))
          /\ deact' = [deact EXCEPT ![id[At(Top)]] = IF @ = 0 THEN At(Top) ELSE @]
          /\ Replace(Step(Top))
  /\ UNCHANGED <<instVars, total, cleanups, freed, calls, pass>>

\* instance_activate_object(t), instance_activate_all(): t = all.
InstanceActivate(t) ==
  /\ Call
  /\ t.kind # "self"
  /\ Push([Frame("activate") EXCEPT !.seen =
             {i \in Id : /\ deact[i] # 0
                         /\ CASE t.kind = "object" -> IsA(deact[i], t.of)
                              [] t.kind = "id" -> i = t.of
                              [] OTHER -> TRUE}])
  /\ UNCHANGED <<instVars, listVars, total, deact, cleanups, freed, pass>>

\* The next entry of instance_deactivated_list that the call selects.
ActivateTurn ==
  /\ stack # <<>> /\ Top.op = "activate"
  /\ IF Top.seen = {}
     THEN Pop /\ UNCHANGED <<listVars, deact>>
     ELSE LET i == CHOOSE i \in Top.seen : \A j \in Top.seen : i <= j
          IN /\ Activate(deact[i], i, obj[deact[i]])
             /\ deact' = [deact EXCEPT ![i] = 0]
             /\ Replace([Top EXCEPT !.seen = @ \ {i}])
  /\ UNCHANGED <<instVars, total, cleanups, freed, calls, pass>>

\* instance_change(o, true): destroys what instance_list holds under its id,
\* which need not be the caller and may be nothing, ...
InstanceChange(o) ==
  /\ Call
  /\ obj[Self] # o
  /\ LET i == id[Self]
         d == Fetch([Frame("destroy") EXCEPT !.flag = TRUE], [kind |-> "id", of |-> i])
     IN stack' = <<d, [Frame("change") EXCEPT !.list = o, !.self = i]>> \o stack
  /\ UNCHANGED <<instVars, listVars, total, deact, cleanups, freed, pass>>

\* ... constructs the new one with that id, whoever may hold it still, and
\* runs its Create event.
ChangeConstruct ==
  /\ stack # <<>> /\ Top.op = "change"
  /\ Construct(Top.self, Top.list)
  /\ Replace(Code(who'[main'[Top.self]]))
  /\ UNCHANGED <<maxid, deact, cleanups, freed, calls, pass>>

\* Constructed and not destroyed.
Alive == (1..insts) \ (cleanups \cup freed)

\* No two instances that are not destroyed have the same id: what the
\* constructors of an id "assumed to have been checked for conflict" rely on.
\* (instance_create_id, instance_change, maxid)
OneInstancePerId == \A p, q \in Alive : id[p] = id[q] => p = q

\* Two instances that share an id share the entry of instance_list that each
\* erases as it leaves; what the second does then is undefined, and the model
\* ends at the clash.
Clashed == ~OneInstancePerId /\ UNCHANGED vars

Steps ==
  \/ LoadInstance \/ BeginPass \/ Return \/ Advance \/ Dispose
  \/ \E o \in Obj : InstanceCreate(o) \/ InstanceChange(o)
  \/ \E t \in Target : \/ With(t) \/ InstanceDestroy(t) \/ InstanceActivate(t)
                       \/ \E notme \in BOOLEAN : InstanceDeactivate(t, notme)
  \/ DestroyTurn \/ DestroyUnlink \/ DeactivateTurn \/ ActivateTurn
  \/ ChangeConstruct

Next == (OneInstancePerId /\ Steps) \/ Clashed

Spec == Init /\ [][Next]_vars

-----------------------------------------------------------------------------
Frames == [op : {"code", "loop", "with", "destroy", "unlink", "deactivate",
                 "activate", "change"},
           list : DOMAIN list \cup {"temp"},
           reg : Act \cup {Root, NULL}, cur : 0..MaxInst \cup Act \cup {NULL},
           self : 0..MaxInst, flag : BOOLEAN, seen : SUBSET (Act \cup Id)]

\* The type of every variable.  (instance_system.cpp)
TypeOK ==
  /\ insts \in 0..MaxInst /\ acts \in 0..MaxAct /\ maxid \in 1..MaxInst + 1
  /\ id \in [Inst -> 0..MaxInst] /\ obj \in [Inst -> Obj \cup {NoParent}]
  /\ node \in [Inst -> 0..MaxAct] /\ who \in [Act -> 0..MaxInst]
  /\ live \subseteq 1..acts
  /\ list \in [Obj \cup {"event", "main"} ->
                 [next : [0..MaxAct -> Act \cup {NULL}],
                  prev : [0..MaxAct -> Act \cup {Root, NULL}]]]
  /\ main \in [Id -> 0..MaxAct] /\ deact \in [Id -> 0..MaxInst]
  /\ count \in [Obj -> 0..MaxInst] /\ total \in 0..MaxInst
  /\ cleanups \subseteq Inst /\ freed \subseteq Inst
  /\ stack \in Seq(Frames) /\ calls \in 0..MaxCalls

\* Until an id is reused, an instance that is neither destroyed nor
\* deactivated is in every list it belongs to, and no other is: linked,
\* deactivated and destroyed exclude each other and leave nobody out, and
\* instance_count is right.  (activate, deactivate, unlink, constructors)
Accounted ==
  OneInstancePerId =>
    /\ total = Cardinality(Alive)
    /\ \A p \in Alive : Active(p) <=> deact[id[p]] # p
    /\ \A p \in cleanups \cup freed : ~Active(p)
    /\ \A i \in Id : deact[i] # 0 => deact[i] \in Alive /\ id[deact[i]] = i

\* Walking an object list from either end meets the linked instances of the
\* object and its descendants, as many as instance_number says.
\* (link_obj_instance, unlink_object_id_iter)
ObjectLists ==
  \A o \in Obj :
    LET mine == {n \in live : IsA(who[n], o)}
        l    == list[o]
    IN /\ count[o] = Cardinality(mine)
       /\ \A x \in mine \cup {Root} :
            IF l.next[x] = NULL THEN \A y \in mine : y <= x
            ELSE /\ l.next[x] \in mine /\ x < l.next[x]
                 /\ \A y \in mine : ~(x < y /\ y < l.next[x])
       /\ \A x \in mine : l.next[l.prev[x]] = x

\* instance_list and its links give the active instances by ascending id.
\* (link_instance, unlink_main)
MainList ==
  LET l == list["main"]
      ids == {i \in Id : main[i] # 0}
  IN /\ {main[i] : i \in ids} = live
     /\ \A i \in ids : /\ id[who[main[i]]] = i
                       /\ \A j \in ids :
                            l.next[main[i]] = main[j]
                              <=> i < j /\ ~\E k \in ids : i < k /\ k < j

\* The lists that code walks, by object and by id, agree with each other and
\* with the counts over any sequence of calls that does not construct an
\* instance with the id of another.  (instance_system.cpp)
Lists == OneInstancePerId => ObjectLists /\ MainList

\* Only the construction of instance_change gives an id to two instances: no
\* other call does, whatever it is nested in and in whatever order ids were
\* deactivated, destroyed and activated.  (maxid, instance_create, activate)
IdsReused == [][OneInstancePerId /\ ~ChangeConstruct => OneInstancePerId']_vars

\* instance_destroy reaches every instance that its list held from the call
\* to the return, whatever the Destroy events do.
DestroyReachesAll ==
  stack # <<>> /\ Top.op = "destroy" /\ Top.reg = NULL
    => \A n \in Top.seen : n \notin live \/ who[n] \in cleanups

\* The event list and the event loop are those of EventIter.
LoopNode ==
  IF stack # <<>> /\ stack[Len(stack)].op = "loop" THEN stack[Len(stack)].cur ELSE NULL

EventList == INSTANCE EventIter WITH
  MaxNode <- MaxAct, Iter <- {}, used <- acts,
  next <- list["event"].next, prev <- list["event"].prev, it <- <<>>,
  cur <- LoopNode, cut <- FALSE,
  start <- pass.start, bound <- pass.bound, ran <- pass.ran

\* Every step of the system does to them what EventIter allows.
ImplementsEventIter == EventList!Spec
=============================================================================
