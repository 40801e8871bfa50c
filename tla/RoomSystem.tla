----------------------------- MODULE RoomSystem -----------------------------
(***************************************************************************)
(* Room changes: event code asks for a room (room_switching_id), the event *)
(* loops of the step are left, rooms_switch enters the room.  Entering     *)
(* runs Room End events, destroys what is not persistent, loads the room,  *)
(* and runs Create, Game Start and Room Start events; all of that is code  *)
(* that may create, destroy, (de)activate and ask for another room.        *)
(*                                                                         *)
(* An instance is named by its id.  InstanceSystem shows that              *)
(* instance_list gives the linked instances by ascending id; here it is    *)
(* the set of their ids, and a registered iterator is the record walk.     *)
(***************************************************************************)
EXTENDS Integers, Sequences

CONSTANTS
  Order,      \* roomorder: the rooms of the game, in order (Order[1] is first)
  RoomInsts,  \* [0..Len(Order)-1 -> SUBSET Nat]: the instances of the room data
  MaxRoom,    \* bound: rooms, those made by room_add included
  MaxId,      \* bound: instance ids
  MaxCalls,   \* bound: calls made by event code
  DebugMode   \* DEBUG_MODE: whether errcheck is compiled in

ASSUME OrderAssumption ==
  /\ Order \in Seq(0..Len(Order)-1) /\ Len(Order) > 0
  /\ \A r \in 0..Len(Order)-1 : \E k \in 1..Len(Order) : Order[k] = r

ASSUME BoundAssumption ==
  /\ MaxRoom \in Nat /\ MaxRoom >= Len(Order)
  /\ MaxId \in Nat /\ MaxCalls \in Nat
  /\ DebugMode \in BOOLEAN

\* The project gives every instance of the room data an id of its own.
ASSUME RoomInstsAssumption ==
  /\ RoomInsts \in [0..Len(Order)-1 -> SUBSET (1..MaxId)]
  /\ \A r, s \in 0..Len(Order)-1 : r # s => RoomInsts[r] \cap RoomInsts[s] = {}

NoRoom == -1
Id == 1..MaxId
End == 0              \* the end of a list
RoomId == 0..MaxRoom - 1

VARIABLES
  idmax,      \* room_idmax: roomdata holds the rooms 0..idmax-1
  data,       \* roomdata[r]->instances, as ids
  room,       \* the room that was entered last, NoRoom before game_start
  switching,  \* room_switching_id
  restart,    \* room_switching_restartgame
  live,       \* the linked instances
  persistent, \* the instances whose persistent variable is set
  deact,      \* instance_deactivated_list
  maxid,      \* enigma::maxid
  pc,         \* what the program is doing, see Phase
  target,     \* the room whose gotome is under way or was last
  gamestart,  \* its argument
  walk,       \* the registered iterator of end() and of the Room Start loop
  created,    \* gotome: the new instances whose event is still to be run
  fresh,      \* gotome: the new instances
  calls,      \* number of calls made by event code
  owed,       \* history: linked since the walk began
  met,        \* history: the instances the walk has come to, in order
  late        \* history: event bodies begun since a request can be met

roomVars == <<idmax, data, room>>
requestVars == <<switching, restart>>
instVars == <<live, persistent, deact, maxid>>
entryVars == <<target, gamestart, created, fresh>>
walkVars == <<walk, owed, met>>
vars == <<idmax, data, room, switching, restart, live, persistent, deact, maxid,
          pc, target, gamestart, walk, created, fresh, calls, owed, met, late>>

\* events: between event bodies of a step; body: in one; after: after_events.
\* The rest are the parts of gotome, in order; those in Coding run code.
Coding == {"body", "roomend", "precreate", "create", "gamestart", "createcode", "roomstart"}
Phase == Coding \cup {"events", "after", "destroying", "loading"}

Least(S) == IF S = {} THEN End ELSE CHOOSE i \in S : \A j \in S : i <= j

Succ(i) == Least({j \in live : j > i})

NoWalk == [at |-> End, gone |-> FALSE, nxt |-> End]

\* iterator::operator++: from a linked instance to the next one, from an
\* unlinked one to where its node still points.
Ahead == IF walk.gone THEN walk.nxt ELSE Succ(walk.at)
StandOn(i) == walk' = [at |-> i, gone |-> FALSE, nxt |-> End]

\* instance_list_first, as a loop begins.
BeginWalk ==
  LET i == Least(live')
  IN /\ StandOn(i)
     /\ owed' = live'
     /\ met' = IF i = End THEN <<>> ELSE <<i>>

\* Mutant: the end of the list is taken for an instance.
ContinueWalkPastEnd == StandOn(Ahead) /\ met' = Append(met, Ahead)

ContinueWalk ==
  /\ StandOn(Ahead)
  /\ met' = IF Ahead = End THEN met ELSE Append(met, Ahead)

\* Mutants: the unlinked node forgets where it pointed; it is not told when
\* the node it points at is unlinked too.
WalkPastReset(w) == IF walk.at = w THEN [walk EXCEPT !.gone = TRUE, !.nxt = End] ELSE walk
WalkPastStale(w) ==
  IF ~walk.gone /\ walk.at = w THEN [walk EXCEPT !.gone = TRUE, !.nxt = Succ(w)] ELSE walk

\* iterator::handle_unlink.
WalkPast(w) ==
  IF ~walk.gone /\ walk.at = w THEN [walk EXCEPT !.gone = TRUE, !.nxt = Succ(w)]
  ELSE IF walk.gone /\ walk.nxt = w THEN [walk EXCEPT !.nxt = Succ(w)]
  ELSE walk

\* room_highinstid: the highest id of the room data (100000 at least in the
\* code, where ids are no smaller; here they begin with 1).
HighId == Least({k \in 0..MaxId : \A r \in 0..Len(Order)-1 : \A i \in RoomInsts[r] : i <= k})

Init ==
  /\ idmax = Len(Order)
  /\ data = [r \in RoomId |-> IF r < Len(Order) THEN RoomInsts[r] ELSE {}]
  /\ room = NoRoom
  /\ switching = NoRoom /\ restart = FALSE
  /\ live = {} /\ persistent = {} /\ deact = {}
  /\ maxid = HighId + 1
  \* game_start: gotome(true) of the first room; end() has nothing to do.
  /\ pc = "loading" /\ target = Order[1] /\ gamestart = TRUE
  /\ walk = NoWalk
  /\ created = {} /\ fresh = {}
  /\ calls = 0
  /\ owed = {} /\ met = <<>> /\ late = 0

-----------------------------------------------------------------------------
(* What code does to the instances                                         *)

\* Event or room code is running.
Running ==
  /\ pc \in Coding
  /\ pc \in {"roomend", "roomstart"} => walk.at # End
  /\ pc \in {"create", "gamestart"} => created # {}
Call == Running /\ calls < MaxCalls /\ calls' = calls + 1

UnlinkInst(w) ==
  /\ live' = live \ {w}
  /\ walk' = WalkPast(w)
  /\ owed' = owed \ {w}

\* instance_create of an object that is persistent or not.
InstanceCreate(p) ==
  /\ Call
  /\ maxid \in Id
  /\ live' = live \cup {maxid}
  /\ persistent' = IF p THEN persistent \cup {maxid} ELSE persistent
  /\ maxid' = maxid + 1
  /\ UNCHANGED <<roomVars, requestVars, deact, pc, entryVars, walkVars, late>>

InstanceDestroy(i) ==
  /\ Call
  /\ i \in live
  /\ UnlinkInst(i)
  /\ UNCHANGED <<roomVars, requestVars, persistent, deact, maxid, pc, entryVars, met, late>>

InstanceDeactivate(i) ==
  /\ Call
  /\ i \in live
  /\ UnlinkInst(i)
  /\ deact' = deact \cup {i}
  /\ UNCHANGED <<roomVars, requestVars, persistent, maxid, pc, entryVars, met, late>>

InstanceActivate(i) ==
  /\ Call
  /\ i \in deact
  /\ live' = live \cup {i}
  /\ deact' = deact \ {i}
  /\ UNCHANGED <<roomVars, requestVars, persistent, maxid, pc, entryVars, walkVars, late>>

\* persistent = ...
SetPersistent(i) ==
  /\ Call
  /\ i \in live
  /\ persistent' = IF i \in persistent THEN persistent \ {i} ELSE persistent \cup {i}
  /\ UNCHANGED <<roomVars, requestVars, live, deact, maxid, pc, entryVars, walkVars, late>>

-----------------------------------------------------------------------------
(* What code does to the rooms                                             *)

RoomExists(r) == r >= 0 /\ r < idmax

\* roomstruct::order, -1 for a room made by room_add.
OrderOf(r) == IF r < Len(Order) THEN (CHOOSE k \in 1..Len(Order) : Order[k] = r) - 1 ELSE -1
InOrder(k) == k >= 0 /\ k < Len(Order)

\* errcheck: the call goes on.
Checked(r) == DebugMode => RoomExists(r)

Request(r, again) ==
  /\ switching' = r /\ restart' = again
  /\ late' = 0
  /\ UNCHANGED <<roomVars, instVars, pc, entryVars, walkVars>>
Refuse == UNCHANGED <<roomVars, requestVars, instVars, pc, entryVars, walkVars, late>>

\* room_goto, also through room = r and, for the room it is in, room_restart.
RoomGoto(r) == Call /\ IF Checked(r) THEN Request(r, FALSE) ELSE Refuse

\* room_goto_absolute
RoomGotoAbsolute(k) ==
  /\ Call
  /\ DebugMode \/ InOrder(k)
  /\ IF InOrder(k) THEN Request(Order[k + 1], FALSE) ELSE Refuse

\* room_goto_first; game_restart is room_goto_first(true).
RoomGotoFirst(again) == Call /\ Request(Order[1], again)

\* room_goto_next, room_goto_previous: by = 1, -1.  Beyond the ends of
\* roomorder both read outside the array, before any check: left out.
\* What they check is the place of the room they go to, moved once more.
HasNeighbour(by) == InOrder(OrderOf(room) + by)
Neighbour(by) == Order[OrderOf(room) + by + 1]
Refused(by) == ~Checked(OrderOf(Neighbour(by)) + by)
RoomGotoNextTo(by) ==
  /\ Call
  /\ HasNeighbour(by)
  /\ IF Refused(by) THEN Refuse ELSE Request(Neighbour(by), FALSE)

\* room_add
RoomAdd ==
  /\ Call
  /\ idmax < MaxRoom
  /\ idmax' = idmax + 1
  /\ UNCHANGED <<data, room, requestVars, instVars, pc, entryVars, walkVars, late>>

\* room_instance_add
RoomInstanceAdd(r) ==
  /\ Call
  /\ RoomExists(r) /\ maxid \in Id
  /\ data' = [data EXCEPT ![r] = @ \cup {maxid}]
  /\ maxid' = maxid + 1
  /\ UNCHANGED <<idmax, room, requestVars, live, persistent, deact, pc, entryVars, walkVars, late>>

Code ==
  \/ \E p \in BOOLEAN : InstanceCreate(p)
  \/ \E i \in Id : \/ InstanceDestroy(i) \/ InstanceDeactivate(i)
                   \/ InstanceActivate(i) \/ SetPersistent(i)
  \/ \E r \in 0..MaxRoom : RoomGoto(r)
  \/ \E k \in 0..Len(Order) : RoomGotoAbsolute(k)
  \/ \E again \in BOOLEAN : RoomGotoFirst(again)
  \/ \E by \in {-1, 1} : RoomGotoNextTo(by)
  \/ RoomAdd
  \/ \E r \in RoomId : RoomInstanceAdd(r)

-----------------------------------------------------------------------------
(* The step                                                                *)

\* An event loop reaches a linked instance.  (Which one: EventIter.)
BeginBody ==
  /\ pc = "events" /\ live # {}
  /\ pc' = "body"
  /\ late' = IF RoomExists(switching) THEN late + 1 ELSE 0
  /\ UNCHANGED <<roomVars, requestVars, instVars, entryVars, walkVars, calls>>

\* Mutant: the step goes on with a request pending.
EndBodyGoesOn ==
  /\ pc = "body"
  /\ pc' = "events"
  /\ UNCHANGED <<roomVars, requestVars, instVars, entryVars, walkVars, calls, late>>

\* if (room_switching_id != -1) goto after_events
EndBody ==
  /\ pc = "body"
  /\ pc' = IF switching # NoRoom THEN "after" ELSE "events"
  /\ UNCHANGED <<roomVars, requestVars, instVars, entryVars, walkVars, calls, late>>

\* The last event loop of the step is done.
EndEvents ==
  /\ pc = "events"
  /\ pc' = "after"
  /\ UNCHANGED <<roomVars, requestVars, instVars, entryVars, walkVars, calls, late>>

\* Begin gotome of the room asked for, with the Room End events of end(), or
\* go on with the next step.  left: room_switching_id afterwards.
SwitchLeaving(left) ==
  /\ pc = "after"
  /\ IF RoomExists(switching)
     THEN /\ target' = switching /\ gamestart' = restart
          /\ switching' = left /\ restart' = FALSE
          /\ pc' = "roomend"
          /\ UNCHANGED <<roomVars, instVars, created, fresh, calls, late>>
          /\ BeginWalk
     ELSE /\ pc' = "events"
          /\ UNCHANGED <<roomVars, requestVars, instVars, entryVars, walkVars, calls, late>>

\* Mutant: the request is not taken.
RoomsSwitchAgain == SwitchLeaving(switching)

\* rooms_switch
RoomsSwitch == SwitchLeaving(NoRoom)

-----------------------------------------------------------------------------
(* roomstruct::end and roomstruct::gotome                                  *)

\* The event of the instance the walk stands on returns; at the end of the
\* list the loop that destroys begins.
RoomEndNext ==
  /\ pc = "roomend"
  /\ UNCHANGED <<roomVars, requestVars, instVars, entryVars, calls, late>>
  /\ IF walk.at # End /\ Ahead # End
     THEN ContinueWalk /\ UNCHANGED <<pc, owed>>
     ELSE pc' = "destroying" /\ BeginWalk

\* instance_destroy(it->id, false), without a Destroy event, then ++it.
DestroyTurn ==
  /\ pc = "destroying"
  /\ IF walk.at = End THEN pc' = "loading" /\ UNCHANGED <<live, walkVars>>
     ELSE IF walk.at \in persistent
     THEN ContinueWalk /\ UNCHANGED <<pc, live, owed>>
     ELSE /\ live' = live \ {walk.at}
          /\ owed' = owed \ {walk.at}
          /\ StandOn(WalkPast(walk.at).nxt)
          /\ UNCHANGED <<pc, met>>
  /\ UNCHANGED <<roomVars, requestVars, persistent, deact, maxid, entryVars, calls, late>>

\* The room becomes the current one, and the instances of the room that are
\* not linked are constructed.  (Their ids are below maxid already.)
\* D: instance_deactivated_list afterwards.
LoadLeaving(D) ==
  /\ pc = "loading"
  /\ room' = target
  /\ deact' = D
  /\ fresh' = data[target] \ live
  /\ created' = fresh'
  /\ live' = live \cup fresh'
  /\ \E P \in SUBSET fresh' : persistent' = (persistent \ fresh') \cup P
  /\ pc' = "precreate"
  /\ UNCHANGED <<idmax, data, requestVars, maxid, target, gamestart, walkVars, calls, late>>

\* Mutant: the deactivated instances of the last room are held on to.
LoadKeepsDeact == LoadLeaving(deact)

\* Deactivated instances are forgotten.
Load == LoadLeaving({})

\* The precreation code of the room returns.
PreCreated ==
  /\ pc = "precreate"
  /\ pc' = "create"
  /\ UNCHANGED <<roomVars, requestVars, instVars, entryVars, walkVars, calls, late>>

\* The Create (Game Start) event of a new instance returns; after the last
\* come the Game Start events, if the game (re)starts, or the creation code.
CreatedNext ==
  /\ pc \in {"create", "gamestart"}
  /\ IF created # {}
     THEN created' = created \ {Least(created)} /\ UNCHANGED pc
     ELSE IF pc = "create" /\ gamestart
     THEN created' = fresh /\ pc' = "gamestart"
     ELSE pc' = "createcode" /\ UNCHANGED created
  /\ UNCHANGED <<roomVars, requestVars, instVars, target, gamestart, fresh, walkVars, calls, late>>

\* The creation code of the room returns.
CreateCodeDone ==
  /\ pc = "createcode"
  /\ pc' = "roomstart"
  /\ UNCHANGED <<roomVars, requestVars, instVars, entryVars, calls, late>>
  /\ BeginWalk

RoomStartNext ==
  /\ pc = "roomstart"
  /\ UNCHANGED <<roomVars, requestVars, instVars, entryVars, calls, late>>
  /\ IF walk.at # End /\ Ahead # End
     THEN ContinueWalk /\ UNCHANGED <<pc, owed>>
     ELSE pc' = "events" /\ walk' = NoWalk /\ UNCHANGED <<owed, met>>

Control ==
  \/ BeginBody \/ EndBody \/ EndEvents \/ RoomsSwitch
  \/ RoomEndNext \/ DestroyTurn \/ Load \/ PreCreated \/ CreatedNext
  \/ CreateCodeDone \/ RoomStartNext

Next == Control \/ Code

Spec == Init /\ [][Next]_vars

\* Event code returns, and the main loop goes on.
FairSpec == Spec /\ WF_vars(Control)

-----------------------------------------------------------------------------
Walks == [at : Id \cup {End}, gone : BOOLEAN, nxt : Id \cup {End}]

\* The type of every variable.  (roomsystem.cpp)
TypeOK ==
  /\ idmax \in Len(Order)..MaxRoom
  /\ data \in [RoomId -> SUBSET Id]
  /\ room \in RoomId \cup {NoRoom}
  /\ switching \in 0..MaxRoom \cup {NoRoom} /\ restart \in BOOLEAN
  /\ live \subseteq Id /\ persistent \subseteq Id /\ deact \subseteq Id
  /\ maxid \in 1..MaxId + 1
  /\ pc \in Phase
  /\ target \in RoomId /\ gamestart \in BOOLEAN
  /\ walk \in Walks
  /\ created \subseteq Id /\ fresh \subseteq Id
  /\ calls \in 0..MaxCalls
  /\ owed \subseteq Id /\ met \in Seq(Id) /\ late \in Nat

\* When a room is loaded, only persistent instances of the last one are still
\* linked, whatever the Room End events did.  (roomstruct::end)
EndLeavesPersistent == pc = "loading" => live \subseteq persistent

\* An id is never linked and deactivated at once: an instance that the room
\* constructs anew is not waiting to be activated.  (gotome clears
\* instance_deactivated_list)
LinkedOrDeactivated == live \cap deact = {}

\* The id handed out next names no instance, and none that a room will
\* construct.  (instance_create, room_instance_add)
NextIdUnused ==
  /\ \A i \in live \cup deact : i < maxid
  /\ \A r \in RoomId : \A i \in data[r] :
       /\ i < maxid
       /\ \A s \in RoomId : i \in data[s] => r = s

\* Ids mean one thing: no instance is both linked and deactivated, and the id
\* handed out next is in use nowhere.  (instance_system.cpp, roomsystem.cpp)
IdsApart == LinkedOrDeactivated /\ NextIdUnused

\* The Room End (Room Start) event reaches every instance that is linked from
\* the beginning to the end of its loop, none of them twice, and none that is
\* unlinked when its turn comes.  (end, gotome)
EveryoneMetOnce ==
  [][/\ pc \in {"roomend", "roomstart"} /\ pc' # pc
          => /\ owed \subseteq {met[k] : k \in 1..Len(met)}
             /\ \A j, k \in 1..Len(met) : j < k => met[j] < met[k]
     /\ walk'.at \notin {walk.at, End} => walk'.at \in live]_vars

\* While a request for a room is pending at most one event body begins: it
\* was pending when the step began, and the first body ends the step.
\* (goto after_events)
OneLateBody == RoomExists(switching) => late <= 1

\* A request for a room that exists is carried out, or replaced by one for a
\* room that does not exist.  (rooms_switch)
RequestEnds == RoomExists(switching) ~> ~RoomExists(switching)

(* What comments say of the code and it does not keep: no run checks these. *)

\* Game Start events run where no instance of an earlier room is left: "this
\* is the first time the game ran they won't even exist yet".  (gotome)
GameStartMeetsNobody == pc = "loading" /\ gamestart => live = {}

\* room_goto_next (room_goto_previous) refuses only to go "to next room after
\* last" ("before first"), so not when the room has a next (previous) one.
NeighbourIsReached ==
  Running => \A by \in {-1, 1} : HasNeighbour(by) => ~Refused(by)
=============================================================================
