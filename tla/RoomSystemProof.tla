-------------------------- MODULE RoomSystemProof --------------------------
(***************************************************************************)
(* Proofs about RoomSystem: ids, the walks of end() and of the Room Start  *)
(* loop, and pending requests, for every game and every bound.             *)
(***************************************************************************)
EXTENDS RoomSystem, TLAPS, WellFoundedInduction

USE BoundAssumption DEF NoRoom, Id, End, RoomId

-----------------------------------------------------------------------------
(* The invariant.                                                          *)

\* Code runs in a room.  (game_start)
RoomInv == room = NoRoom => pc = "loading"

\* What is still to be destroyed lies ahead of the walk.  (roomstruct::end)
EndInv ==
  pc = "destroying" =>
    /\ ~walk.gone
    /\ walk.at = End \/ walk.at \in live
    /\ \A i \in live : walk.at = End \/ i < walk.at => i \in persistent

\* A body that begins with a request pending is the last of its step.
LateInv ==
  late # 0 /\ switching # NoRoom =>
    late = 1 /\ RoomExists(switching) /\ pc \in {"body", "after"}

\* The instances the walk has come to.
Met == {met[k] : k \in 1..Len(met)}

\* Where the walk of a Room End (Room Start) loop goes next.
NextInv ==
  /\ walk.at # End /\ ~walk.gone => walk.at \in live
  /\ walk.gone => /\ walk.at # End
                  /\ walk.nxt # End => walk.nxt \in live /\ walk.nxt > walk.at

\* Whom the walk is still to meet.
OwedInv ==
  /\ owed \subseteq live
  /\ walk.at = End => owed = {}
  /\ \A i \in owed \ Met :
       i > walk.at /\ (walk.gone => walk.nxt # End /\ walk.nxt <= i)

\* Whom the walk has met.
MetInv ==
  /\ walk.at # End => Len(met) > 0 /\ met[Len(met)] = walk.at
  /\ \A j, k \in 1..Len(met) : j < k => met[j] < met[k]

WalkInv == pc \in {"roomend", "roomstart"} => NextInv /\ OwedInv /\ MetInv

\* The invariant: types, ids, the two loops of end(), pending requests.
IInv ==
  /\ TypeOK /\ RoomInv /\ IdsApart /\ EndLeavesPersistent /\ EndInv /\ LateInv /\ WalkInv

-----------------------------------------------------------------------------
(* The list of instances.                                                  *)

\* A nonempty set of numbers has a least one, and Least is that one.
LEMMA LeastOf ==
  ASSUME NEW S \in SUBSET Nat, S # {}
  PROVE  Least(S) \in S /\ \A j \in S : Least(S) <= j
<1> DEFINE R == {ss \in Nat \X Nat : ss[1] < ss[2]}
<1>1. PICK i \in S : \A j \in S : ~(<<j, i>> \in R)
  <2>1. IsWellFoundedOn(R, Nat)
    BY NatLessThanWellFounded DEF OpToRel
  <2> HIDE DEF R
  <2> QED BY <2>1, WFMin
<1>2. \A j \in S : ~(<<j, i>> \in R) => i <= j
  OBVIOUS
<1> HIDE DEF R
<1>3. \A j \in S : i <= j
  BY <1>1, <1>2
<1> QED BY <1>1, <1>3 DEF Least

\* The first of a set of ids is one of them, or the end of the list.
LEMMA LeastId ==
  ASSUME NEW S \in SUBSET Id
  PROVE  /\ Least(S) \in Id \cup {End}
         /\ Least(S) = End <=> S = {}
         /\ Least(S) # End => Least(S) \in S /\ \A j \in S : Least(S) <= j
<1>1. CASE S = {}
  BY <1>1 DEF Least
<1>2. CASE S # {}
  <2>1. S \in SUBSET Nat
    OBVIOUS
  <2>2. Least(S) \in S /\ \A j \in S : Least(S) <= j
    BY <1>2, <2>1, LeastOf
  <2>3. Least(S) \in Id
    BY <2>2
  <2>4. Least(S) # End
    BY <2>3
  <2> QED BY <1>2, <2>2, <2>3, <2>4
<1> QED BY <1>1, <1>2

\* The node after i is the next linked instance, or the end of the list.
LEMMA SuccOf ==
  ASSUME live \subseteq Id, NEW i \in Id \cup {End}
  PROVE  /\ Succ(i) \in Id \cup {End}
         /\ Succ(i) = End => \A j \in live : j <= i
         /\ Succ(i) # End => /\ Succ(i) \in live /\ Succ(i) > i
                             /\ \A j \in live : j > i => Succ(i) <= j
<1> DEFINE S == {j \in live : j > i}
<1>1. S \in SUBSET Id
  OBVIOUS
<1>2. /\ Least(S) \in Id \cup {End}
      /\ Least(S) = End <=> S = {}
      /\ Least(S) # End => Least(S) \in S /\ \A j \in S : Least(S) <= j
  BY <1>1, LeastId
<1> QED BY <1>2 DEF Succ

\* A registered iterator moves to a linked instance or the end of the list.
LEMMA AheadOf ==
  ASSUME TypeOK, NextInv
  PROVE  /\ Ahead \in Id \cup {End}
         /\ Ahead # End => Ahead \in live /\ Ahead > walk.at
<1>1. walk.at \in Id \cup {End} /\ walk.nxt \in Id \cup {End} /\ live \subseteq Id
  BY DEF TypeOK, Walks
<1>2. CASE walk.gone
  BY <1>1, <1>2 DEF Ahead, NextInv
<1>3. CASE ~walk.gone
  BY <1>1, <1>3, SuccOf DEF Ahead
<1> QED BY <1>2, <1>3

-----------------------------------------------------------------------------
(* The calls of event code, by what they leave alone.                      *)

\* A room is asked for, or the call is refused.
Asking ==
  /\ Call
  /\ \/ Refuse
     \/ \E r \in 0..MaxRoom, again \in BOOLEAN : Request(r, again)

\* An instance is unlinked, for good or to be activated later.
Unlinking(w) ==
  /\ Call /\ w \in live /\ UnlinkInst(w)
  /\ deact' = deact \/ deact' = deact \cup {w}
  /\ UNCHANGED <<roomVars, requestVars, persistent, maxid, pc, entryVars, met, late>>

\* room_goto and the calls like it ask for a room of the game, for one made
\* by room_add, or for the number just after the last.
LEMMA AskingStep ==
  ASSUME TypeOK, RoomInv,
         \/ \E r \in 0..MaxRoom : RoomGoto(r)
         \/ \E k \in 0..Len(Order) : RoomGotoAbsolute(k)
         \/ \E again \in BOOLEAN : RoomGotoFirst(again)
         \/ \E by \in {-1, 1} : RoomGotoNextTo(by)
  PROVE  Asking
<1> USE OrderAssumption
<1>1. \A k \in 1..Len(Order) : Order[k] \in 0..MaxRoom
  OBVIOUS
<1>2. ASSUME NEW r \in 0..MaxRoom, RoomGoto(r) PROVE Asking
  BY <1>2 DEF RoomGoto, Asking
<1>3. ASSUME NEW k \in 0..Len(Order), RoomGotoAbsolute(k) PROVE Asking
  <2>1. InOrder(k) => Order[k + 1] \in 0..MaxRoom
    BY <1>1 DEF InOrder
  <2> QED BY <1>3, <2>1 DEF RoomGotoAbsolute, Asking
<1>4. ASSUME NEW again \in BOOLEAN, RoomGotoFirst(again) PROVE Asking
  BY <1>1, <1>4 DEF RoomGotoFirst, Asking
<1>5. ASSUME NEW by \in {-1, 1}, RoomGotoNextTo(by) PROVE Asking
  <2>1. OrderOf(room) \in Int
    <3>1. room \in RoomId
      BY <1>5 DEF RoomGotoNextTo, Call, Running, Coding, RoomInv, TypeOK
    <3>2. CASE room < Len(Order)
      <4>1. \E k \in 1..Len(Order) : Order[k] = room
        <5>1. room \in 0..Len(Order)-1
          BY <3>1, <3>2
        <5> QED BY <5>1
      <4>2. (CHOOSE k \in 1..Len(Order) : Order[k] = room) \in 1..Len(Order)
        BY <4>1
      <4> QED BY <3>2, <4>2 DEF OrderOf
    <3>3. CASE ~(room < Len(Order))
      BY <3>3 DEF OrderOf
    <3> QED BY <3>2, <3>3
  <2>2. Neighbour(by) \in 0..MaxRoom
    BY <1>1, <1>5, <2>1 DEF RoomGotoNextTo, HasNeighbour, InOrder, Neighbour
  <2> QED BY <1>5, <2>2 DEF RoomGotoNextTo, Asking
<1> QED BY <1>2, <1>3, <1>4, <1>5

\* The calls of event code and the steps of the program are all the steps.
LEMMA Steps ==
  ASSUME TypeOK, RoomInv, Next
  PROVE  \/ Control
         \/ Asking
         \/ \E w \in Id : Unlinking(w)
         \/ \E p \in BOOLEAN : InstanceCreate(p)
         \/ \E i \in Id : InstanceActivate(i)
         \/ \E i \in Id : SetPersistent(i)
         \/ RoomAdd
         \/ \E r \in RoomId : RoomInstanceAdd(r)
<1>1. ASSUME NEW i \in Id, InstanceDestroy(i) \/ InstanceDeactivate(i)
      PROVE  Unlinking(i)
  BY <1>1 DEF InstanceDestroy, InstanceDeactivate, Unlinking, entryVars
<1> QED BY <1>1, AskingStep DEF Next, Code

-----------------------------------------------------------------------------
(* The walks.                                                              *)

\* A loop begins at the first instance and owes every one its event.
LEMMA WalkBegins ==
  ASSUME live' \subseteq Id, BeginWalk
  PROVE  /\ walk' \in Walks /\ owed' \subseteq Id /\ met' \in Seq(Id)
         /\ ~walk'.gone
         /\ walk'.at = End => live' = {}
         /\ walk'.at # End => walk'.at \in live' /\ \A i \in live' : walk'.at <= i
         /\ NextInv' /\ OwedInv' /\ MetInv'
<1> DEFINE i == Least(live')
<1>1. /\ i \in Id \cup {End}
      /\ i = End <=> live' = {}
      /\ i # End => i \in live' /\ \A j \in live' : i <= j
  BY LeastId
<1> HIDE DEF i
<1>2. /\ walk' = [at |-> i, gone |-> FALSE, nxt |-> End]
      /\ owed' = live'
      /\ met' = IF i = End THEN <<>> ELSE <<i>>
  BY DEF BeginWalk, StandOn, i
<1>3. walk'.at = i /\ walk'.gone = FALSE /\ walk' \in Walks
  BY <1>1, <1>2 DEF Walks
<1>4. CASE i = End
  <2>1. Len(met') = 0 /\ met' \in Seq(Id)
    BY <1>2, <1>4
  <2> QED BY <1>1, <1>2, <1>3, <1>4, <2>1 DEF NextInv, OwedInv, MetInv, Met
<1>5. CASE i # End
  <2>1. Len(met') = 1 /\ met'[1] = i /\ met' \in Seq(Id)
    BY <1>1, <1>2, <1>5
  <2>2. Met' = {i}
    BY <2>1 DEF Met
  <2>3. MetInv'
    BY <1>3, <2>1 DEF MetInv
  <2>4. OwedInv'
    BY <1>1, <1>2, <1>3, <1>5, <2>2 DEF OwedInv
  <2> QED BY <1>1, <1>2, <1>3, <1>5, <2>1, <2>3, <2>4 DEF NextInv
<1> QED BY <1>4, <1>5

\* A loop goes on to the next instance it has not met.
LEMMA WalkContinues ==
  ASSUME TypeOK, NextInv, OwedInv, MetInv,
         ContinueWalk, walk.at # End, Ahead # End, live' = live, owed' = owed
  PROVE  /\ walk' \in Walks /\ met' \in Seq(Id)
         /\ NextInv' /\ OwedInv' /\ MetInv'
<1>1. Ahead \in Id /\ Ahead \in live /\ Ahead > walk.at
  BY AheadOf
<1>2. walk' = [at |-> Ahead, gone |-> FALSE, nxt |-> End] /\ met' = Append(met, Ahead)
  BY DEF ContinueWalk, StandOn
<1>3. walk'.at = Ahead /\ walk'.gone = FALSE /\ walk' \in Walks
  BY <1>1, <1>2 DEF Walks
<1>4. met \in Seq(Id) /\ walk.at \in Id /\ live \subseteq Id /\ owed \subseteq live
  BY DEF TypeOK, Walks, OwedInv
<1>5. /\ Len(met') = Len(met) + 1 /\ met' \in Seq(Id)
      /\ \A k \in 1..Len(met) : met'[k] = met[k]
      /\ met'[Len(met) + 1] = Ahead
  BY <1>1, <1>2, <1>4
<1>6. Met' = Met \cup {Ahead}
  <2>1. 1..Len(met') = 1..Len(met) \cup {Len(met) + 1}
    <3>1. Len(met) \in Nat
      BY <1>4
    <3>2. Len(met') = Len(met) + 1
      BY <1>5
    <3>3. \A n \in Nat : 1..n+1 = 1..n \cup {n + 1}
      OBVIOUS
    <3> QED BY <3>1, <3>2, <3>3
  <2>2. Met' = {met'[k] : k \in 1..Len(met)} \cup {met'[Len(met) + 1]}
    BY <2>1 DEF Met
  <2>3. {met'[k] : k \in 1..Len(met)} = Met
    BY <1>5, Zenon DEF Met
  <2> QED BY <1>5, <2>2, <2>3
<1>7. NextInv'
  BY <1>1, <1>3 DEF NextInv
<1>8. OwedInv'
  <2>1. ASSUME NEW i \in owed \ Met, i # Ahead PROVE i > Ahead
    <3>1. i \in live /\ i > walk.at /\ i \in Id
      BY <1>4, <2>1 DEF OwedInv
    <3>2. CASE walk.gone
      BY <1>1, <2>1, <3>1, <3>2 DEF OwedInv, Ahead
    <3>3. CASE ~walk.gone
      BY <1>1, <1>4, <2>1, <3>1, <3>3, SuccOf DEF Ahead
    <3> QED BY <3>2, <3>3
  <2> QED BY <1>1, <1>3, <1>4, <1>6, <2>1 DEF OwedInv
<1>9. MetInv'
  <2>1. \A k \in 1..Len(met) : met[k] <= walk.at
    <3>1. Len(met) \in Nat /\ \A k \in 1..Len(met) : met[k] \in Id
      BY <1>4
    <3>2. met[Len(met)] = walk.at
      BY DEF MetInv
    <3>3. ASSUME NEW k \in 1..Len(met), k # Len(met) PROVE met[k] < met[Len(met)]
      <4>1. Len(met) \in 1..Len(met) /\ k < Len(met)
        BY <3>1, <3>3
      <4> QED BY <4>1 DEF MetInv
    <3>4. ASSUME NEW k \in 1..Len(met) PROVE met[k] <= walk.at
      <4>1. CASE k = Len(met)
        BY <1>4, <3>2, <4>1
      <4>2. CASE k # Len(met)
        <5>1. met[k] < met[Len(met)]
          BY <3>3, <4>2
        <5>2. met[k] \in Id
          BY <3>1
        <5> QED BY <1>4, <3>2, <5>1, <5>2
      <4> QED BY <4>1, <4>2
    <3> QED BY <3>4
  <2>2. ASSUME NEW j \in 1..Len(met'), NEW k \in 1..Len(met'), j < k
        PROVE  met'[j] < met'[k]
    <3>1. j \in 1..Len(met)
      BY <1>4, <1>5, <2>2
    <3>2. CASE k \in 1..Len(met)
      BY <1>5, <2>2, <3>1, <3>2 DEF MetInv
    <3>3. CASE k = Len(met) + 1
      <4>1. met[j] \in Id
        BY <1>4, <3>1
      <4> QED BY <1>1, <1>4, <1>5, <2>1, <3>1, <3>3, <4>1
    <3> QED BY <1>4, <1>5, <3>2, <3>3
  <2> QED BY <1>3, <1>4, <1>5, <2>2 DEF MetInv
<1> QED BY <1>3, <1>5, <1>7, <1>8, <1>9

\* An unlinked instance is taken out of the way of the walk.
LEMMA WalkIsPast ==
  ASSUME TypeOK, NextInv, OwedInv, MetInv,
         NEW w \in live, UnlinkInst(w), met' = met
  PROVE  NextInv' /\ OwedInv' /\ MetInv'
<1>1. /\ walk \in Walks /\ live \subseteq Id /\ w \in Id /\ owed \subseteq live
      /\ walk.at \in Id \cup {End} /\ walk.nxt \in Id \cup {End} /\ walk.gone \in BOOLEAN
  BY DEF TypeOK, Walks, OwedInv
<1>2. live' = live \ {w} /\ walk' = WalkPast(w) /\ owed' = owed \ {w} /\ Met' = Met
  BY DEF UnlinkInst, Met
<1>3. walk'.at = walk.at
  BY <1>1, <1>2 DEF WalkPast, Walks
<1>4. MetInv'
  BY <1>3 DEF MetInv
<1>5. /\ Succ(w) \in Id \cup {End}
      /\ Succ(w) = End => \A j \in live : j <= w
      /\ Succ(w) # End => /\ Succ(w) \in live /\ Succ(w) > w
                          /\ \A j \in live : j > w => Succ(w) <= j
  BY <1>1, SuccOf
<1>6. CASE ~walk.gone /\ walk.at = w
  <2>1. walk'.gone = TRUE /\ walk'.nxt = Succ(w)
    BY <1>1, <1>2, <1>6 DEF WalkPast, Walks
  <2>2. NextInv'
    BY <1>1, <1>2, <1>3, <1>5, <1>6, <2>1 DEF NextInv
  <2>3. OwedInv'
    BY <1>1, <1>2, <1>3, <1>5, <1>6, <2>1 DEF OwedInv
  <2> QED BY <1>4, <2>2, <2>3
<1>7. CASE walk.gone /\ walk.nxt = w
  <2>1. walk'.gone = TRUE /\ walk'.nxt = Succ(w)
    BY <1>1, <1>2, <1>7 DEF WalkPast, Walks
  <2>2. w > walk.at /\ walk.at # End
    BY <1>1, <1>7 DEF NextInv
  <2>3. NextInv'
    BY <1>1, <1>2, <1>3, <1>5, <2>1, <2>2 DEF NextInv
  <2>4. OwedInv'
    BY <1>1, <1>2, <1>3, <1>5, <1>7, <2>1, <2>2 DEF OwedInv
  <2> QED BY <1>4, <2>3, <2>4
<1>8. CASE ~(~walk.gone /\ walk.at = w) /\ ~(walk.gone /\ walk.nxt = w)
  <2>1. walk' = walk
    BY <1>2, <1>8 DEF WalkPast
  <2>2. NextInv'
    BY <1>1, <1>2, <1>8, <2>1 DEF NextInv
  <2>3. OwedInv'
    BY <1>1, <1>2, <2>1 DEF OwedInv
  <2> QED BY <1>4, <2>2, <2>3
<1> QED BY <1>6, <1>7, <1>8

-----------------------------------------------------------------------------
(* The parts of the invariant, one by one.                                 *)

\* The types, by what steps leave alone together.
RoomsOK ==
  /\ idmax \in Len(Order)..MaxRoom
  /\ data \in [RoomId -> SUBSET Id]
  /\ room \in RoomId \cup {NoRoom}
AskedOK == switching \in 0..MaxRoom \cup {NoRoom} /\ restart \in BOOLEAN
InstsOK ==
  /\ live \subseteq Id /\ persistent \subseteq Id /\ deact \subseteq Id
  /\ maxid \in 1..MaxId + 1
EntryOK ==
  /\ target \in RoomId /\ gamestart \in BOOLEAN
  /\ created \subseteq Id /\ fresh \subseteq Id
WalkOK == walk \in Walks /\ owed \subseteq Id /\ met \in Seq(Id)
CodeOK == calls \in 0..MaxCalls /\ late \in Nat

\* The type invariant is its parts.
LEMMA TypeParts ==
  TypeOK <=> RoomsOK /\ AskedOK /\ InstsOK /\ EntryOK /\ WalkOK /\ CodeOK /\ pc \in Phase
BY DEF TypeOK, RoomsOK, AskedOK, InstsOK, EntryOK, WalkOK, CodeOK

\* The same after a step.
LEMMA TypePartsPrimed ==
  ASSUME RoomsOK', AskedOK', InstsOK', EntryOK', WalkOK', CodeOK', pc' \in Phase
  PROVE  TypeOK'
BY DEF TypeOK, RoomsOK, AskedOK, InstsOK, EntryOK, WalkOK, CodeOK

\* What a step leaves alone keeps its types.
LEMMA TypeKept ==
  ASSUME TypeOK
  PROVE  /\ UNCHANGED roomVars => RoomsOK'
         /\ UNCHANGED requestVars => AskedOK'
         /\ UNCHANGED instVars => InstsOK'
         /\ UNCHANGED entryVars => EntryOK'
         /\ UNCHANGED walkVars => WalkOK'
         /\ Call \/ UNCHANGED calls => calls' \in 0..MaxCalls
         /\ UNCHANGED pc => pc' \in Phase
<1>1. UNCHANGED roomVars => RoomsOK'
  BY DEF TypeOK, RoomsOK, roomVars
<1>2. UNCHANGED requestVars => AskedOK'
  BY DEF TypeOK, AskedOK, requestVars
<1>3. UNCHANGED instVars => InstsOK'
  BY DEF TypeOK, InstsOK, instVars
<1>4. UNCHANGED entryVars => EntryOK'
  BY DEF TypeOK, EntryOK, entryVars
<1>5. UNCHANGED walkVars => WalkOK'
  BY DEF TypeOK, WalkOK, walkVars
<1>6. Call \/ UNCHANGED calls => calls' \in 0..MaxCalls
  BY DEF TypeOK, Call
<1> QED BY <1>1, <1>2, <1>3, <1>4, <1>5, <1>6 DEF TypeOK

\* Every call of event code keeps the types.
LEMMA TypeCode == ASSUME IInv, Next, ~Control PROVE TypeOK'
<1>0. /\ TypeOK /\ RoomInv /\ Len(Order) \in Nat
      /\ RoomsOK /\ AskedOK /\ InstsOK /\ EntryOK /\ WalkOK /\ CodeOK
      /\ walk.at \in Id \cup {End} /\ walk.nxt \in Id \cup {End}
  BY OrderAssumption, TypeParts DEF IInv, WalkOK, Walks
<1>1. CASE Asking
  <2>1. AskedOK' /\ late' \in Nat
    BY <1>0, <1>1 DEF Asking, Request, Refuse, requestVars, AskedOK, CodeOK
  <2>2. UNCHANGED <<roomVars, instVars, entryVars, walkVars, pc>> /\ Call
    BY <1>1 DEF Asking, Request, Refuse
  <2> QED BY <1>0, <2>1, <2>2, TypeKept, TypePartsPrimed DEF CodeOK
<1>2. ASSUME NEW w \in Id, Unlinking(w) PROVE TypeOK'
  <2>1. WalkPast(w) \in Walks
    BY <1>0, SuccOf DEF WalkPast, Walks, WalkOK, InstsOK
  <2>2. WalkOK'
    BY <1>0, <1>2, <2>1 DEF Unlinking, UnlinkInst, WalkOK
  <2>3. InstsOK'
    BY <1>0, <1>2 DEF Unlinking, UnlinkInst, InstsOK
  <2>4. UNCHANGED <<roomVars, requestVars, entryVars, pc, late>> /\ Call
    BY <1>2 DEF Unlinking
  <2> QED BY <1>0, <2>2, <2>3, <2>4, TypeKept, TypePartsPrimed DEF CodeOK
<1>3. ASSUME NEW p \in BOOLEAN, InstanceCreate(p) PROVE TypeOK'
  <2>1. InstsOK'
    BY <1>0, <1>3 DEF InstanceCreate, InstsOK
  <2>2. UNCHANGED <<roomVars, requestVars, entryVars, walkVars, pc, late>> /\ Call
    BY <1>3 DEF InstanceCreate
  <2> QED BY <1>0, <2>1, <2>2, TypeKept, TypePartsPrimed DEF CodeOK
<1>4. ASSUME NEW i \in Id, InstanceActivate(i) \/ SetPersistent(i) PROVE TypeOK'
  <2>1. InstsOK'
    BY <1>0, <1>4 DEF InstanceActivate, SetPersistent, InstsOK
  <2>2. UNCHANGED <<roomVars, requestVars, entryVars, walkVars, pc, late>> /\ Call
    BY <1>4 DEF InstanceActivate, SetPersistent
  <2> QED BY <1>0, <2>1, <2>2, TypeKept, TypePartsPrimed DEF CodeOK
<1>5. CASE RoomAdd
  <2>1. RoomsOK'
    BY <1>0, <1>5 DEF RoomAdd, RoomsOK
  <2>2. UNCHANGED <<requestVars, instVars, entryVars, walkVars, pc, late>> /\ Call
    BY <1>5 DEF RoomAdd
  <2> QED BY <1>0, <2>1, <2>2, TypeKept, TypePartsPrimed DEF CodeOK
<1>6. ASSUME NEW r \in RoomId, RoomInstanceAdd(r) PROVE TypeOK'
  <2>1. RoomsOK' /\ InstsOK'
    BY <1>0, <1>6 DEF RoomInstanceAdd, RoomsOK, InstsOK
  <2>2. UNCHANGED <<requestVars, entryVars, walkVars, pc, late>> /\ Call
    BY <1>6 DEF RoomInstanceAdd
  <2> QED BY <1>0, <2>1, <2>2, TypeKept, TypePartsPrimed DEF CodeOK
<1> QED BY <1>0, <1>1, <1>2, <1>3, <1>4, <1>5, <1>6, Steps

\* Every step of the program keeps the types.
LEMMA TypeControl == ASSUME IInv, Control PROVE TypeOK'
<1>0. /\ TypeOK
      /\ RoomsOK /\ AskedOK /\ InstsOK /\ EntryOK /\ WalkOK /\ CodeOK /\ pc \in Phase
      /\ walk.at \in Id \cup {End} /\ walk.nxt \in Id \cup {End} /\ walk.gone \in BOOLEAN
  BY TypeParts DEF IInv, WalkOK, Walks
<1>1. CASE BeginBody \/ EndBody \/ EndEvents \/ PreCreated
  <2>1. late' \in Nat /\ pc' \in Phase
    BY <1>0, <1>1 DEF BeginBody, EndBody, EndEvents, PreCreated, CodeOK, Phase, Coding
  <2>2. UNCHANGED <<roomVars, requestVars, instVars, entryVars, walkVars, calls>>
    BY <1>1 DEF BeginBody, EndBody, EndEvents, PreCreated
  <2> QED BY <1>0, <2>1, <2>2, TypeKept, TypePartsPrimed DEF CodeOK
<1>2. CASE RoomsSwitch
  <2>1. CASE RoomExists(switching)
    <3>1. UNCHANGED <<roomVars, instVars, created, fresh, calls, late>> /\ BeginWalk
      BY <1>2, <2>1 DEF RoomsSwitch, SwitchLeaving
    <3>2. WalkOK'
      <4>1. live' \subseteq Id
        BY <1>0, <3>1 DEF InstsOK, instVars
      <4> QED BY <3>1, <4>1, WalkBegins DEF WalkOK
    <3>3. target' = switching /\ gamestart' = restart /\ switching' = NoRoom /\ restart' = FALSE
      BY <1>2, <2>1 DEF RoomsSwitch, SwitchLeaving
    <3>4. EntryOK' /\ AskedOK'
      <4>1. switching \in RoomId /\ restart \in BOOLEAN
        BY <1>0, <2>1 DEF AskedOK, RoomsOK, RoomExists
      <4>2. EntryOK'
        BY <1>0, <3>1, <3>3, <4>1 DEF EntryOK
      <4> QED BY <3>3, <4>2 DEF AskedOK
    <3>5. pc' \in Phase /\ late' \in Nat
      BY <1>0, <1>2, <2>1 DEF RoomsSwitch, SwitchLeaving, Phase, Coding, CodeOK
    <3> QED BY <1>0, <3>1, <3>2, <3>4, <3>5, TypeKept, TypePartsPrimed DEF CodeOK
  <2>2. CASE ~RoomExists(switching)
    <3>1. UNCHANGED <<roomVars, requestVars, instVars, entryVars, walkVars, calls, late>>
      BY <1>2, <2>2 DEF RoomsSwitch, SwitchLeaving
    <3>2. pc' \in Phase
      BY <1>2, <2>2 DEF RoomsSwitch, SwitchLeaving, Phase
    <3> QED BY <1>0, <3>1, <3>2, TypeKept, TypePartsPrimed DEF CodeOK
  <2> QED BY <2>1, <2>2
<1>3. CASE RoomEndNext \/ CreateCodeDone \/ RoomStartNext
  <2>1. UNCHANGED <<roomVars, requestVars, instVars, entryVars, calls, late>>
    BY <1>3 DEF RoomEndNext, CreateCodeDone, RoomStartNext
  <2>2. live' = live /\ live' \subseteq Id
    BY <1>0, <2>1 DEF InstsOK, instVars
  <2>3. pc' \in Phase
    BY <1>0, <1>3 DEF RoomEndNext, CreateCodeDone, RoomStartNext, Phase, Coding
  <2>4. WalkOK'
    <3>1. CASE BeginWalk
      BY <2>2, <3>1, WalkBegins DEF WalkOK
    <3>2. CASE pc \in {"roomend", "roomstart"} /\ walk.at # End /\ Ahead # End
               /\ ContinueWalk /\ UNCHANGED owed
      <4>1. NextInv /\ OwedInv /\ MetInv
        BY <3>2 DEF IInv, WalkInv
      <4> QED BY <1>0, <2>2, <3>2, <4>1, WalkContinues DEF WalkOK
    <3>3. CASE walk' = NoWalk /\ UNCHANGED <<owed, met>>
      BY <1>0, <3>3 DEF WalkOK, NoWalk, Walks
    <3> QED BY <1>3, <3>1, <3>2, <3>3 DEF RoomEndNext, CreateCodeDone, RoomStartNext
  <2> QED BY <1>0, <2>1, <2>3, <2>4, TypeKept, TypePartsPrimed DEF CodeOK
<1>4. CASE DestroyTurn
  <2>1. UNCHANGED <<roomVars, requestVars, persistent, deact, maxid, entryVars, calls, late>>
    BY <1>4 DEF DestroyTurn
  <2>2. InstsOK' /\ pc' \in Phase
    BY <1>0, <1>4 DEF DestroyTurn, InstsOK, Phase, walkVars
  <2>3. WalkOK'
    <3>1. ~walk.gone
      BY <1>4 DEF IInv, EndInv, DestroyTurn
    <3>2. walk.at # End =>
            Succ(walk.at) \in Id \cup {End} /\ (Succ(walk.at) # End => Succ(walk.at) \in Id)
      BY <1>0, SuccOf DEF InstsOK
    <3>3. CASE walk.at = End
      BY <1>0, <1>4, <3>3, TypeKept DEF DestroyTurn
    <3>4. CASE walk.at # End /\ walk.at \in persistent
      <4>1. Ahead = Succ(walk.at) /\ owed' = owed
        BY <1>4, <3>1, <3>4 DEF DestroyTurn, Ahead
      <4>2. walk' = [at |-> Ahead, gone |-> FALSE, nxt |-> End]
            /\ met' = IF Ahead = End THEN met ELSE Append(met, Ahead)
        BY <1>4, <3>4 DEF DestroyTurn, ContinueWalk, StandOn
      <4>3. walk' \in Walks
        BY <3>2, <3>4, <4>1, <4>2 DEF Walks
      <4>4. met' \in Seq(Id)
        <5>1. CASE Ahead = End
          BY <1>0, <4>2, <5>1 DEF WalkOK
        <5>2. CASE Ahead # End
          <6>1. Ahead \in Id /\ met' = Append(met, Ahead)
            BY <3>2, <3>4, <4>1, <4>2, <5>2
          <6> QED BY <1>0, <6>1 DEF WalkOK
        <5> QED BY <5>1, <5>2
      <4> QED BY <1>0, <4>1, <4>3, <4>4 DEF WalkOK
    <3>5. CASE walk.at # End /\ walk.at \notin persistent
      <4>1. WalkPast(walk.at).nxt = Succ(walk.at)
        BY <1>0, <3>1 DEF WalkPast, WalkOK, Walks
      <4>2. walk' = [at |-> Succ(walk.at), gone |-> FALSE, nxt |-> End]
            /\ owed' = owed \ {walk.at} /\ met' = met
        BY <1>4, <3>5, <4>1 DEF DestroyTurn, StandOn
      <4>3. walk' \in Walks
        BY <3>2, <3>5, <4>2 DEF Walks
      <4> QED BY <1>0, <4>2, <4>3 DEF WalkOK
    <3> QED BY <3>3, <3>4, <3>5
  <2> QED BY <1>0, <2>1, <2>2, <2>3, TypeKept, TypePartsPrimed DEF CodeOK
<1>5. CASE Load
  <2>1. UNCHANGED <<idmax, data, requestVars, maxid, target, gamestart, walkVars, calls, late>>
    BY <1>5 DEF Load, LoadLeaving
  <2>2. data[target] \subseteq Id
    BY <1>0 DEF RoomsOK, EntryOK
  <2>3. RoomsOK' /\ pc' \in Phase
    BY <1>0, <1>5 DEF Load, LoadLeaving, RoomsOK, EntryOK, Phase, Coding
  <2>4. InstsOK' /\ EntryOK'
    BY <1>0, <1>5, <2>2 DEF Load, LoadLeaving, InstsOK, EntryOK
  <2> QED BY <1>0, <2>1, <2>3, <2>4, TypeKept, TypePartsPrimed DEF CodeOK
<1>6. CASE CreatedNext
  <2>1. UNCHANGED <<roomVars, requestVars, instVars, target, gamestart, fresh, walkVars, calls, late>>
    BY <1>6 DEF CreatedNext
  <2>2. EntryOK' /\ pc' \in Phase
    BY <1>0, <1>6 DEF CreatedNext, EntryOK, Phase, Coding
  <2> QED BY <1>0, <2>1, <2>2, TypeKept, TypePartsPrimed DEF CodeOK
<1> QED BY <1>1, <1>2, <1>3, <1>4, <1>5, <1>6 DEF Control

\* Every step keeps the types.
LEMMA TypeStep == ASSUME IInv, Next PROVE TypeOK'
BY TypeCode, TypeControl

\* No id of the room data is above the highest.  (room_highinstid)
LEMMA HighestId ==
  /\ HighId \in 0..MaxId
  /\ \A r \in 0..Len(Order)-1 : \A i \in RoomInsts[r] : i <= HighId
<1> DEFINE S == {k \in 0..MaxId : \A r \in 0..Len(Order)-1 : \A i \in RoomInsts[r] : i <= k}
<1>1. MaxId \in S
  BY RoomInstsAssumption
<1>2. S \in SUBSET Nat /\ S # {}
  <2>1. S \subseteq 0..MaxId
    OBVIOUS
  <2> HIDE DEF S
  <2> QED BY <1>1, <2>1
<1>3. HighId \in S
  <2> HIDE DEF S
  <2>1. Least(S) \in S
    BY <1>2, LeastOf
  <2> QED BY <2>1 DEF HighId, S
<1> QED BY <1>3

\* Before anything ran the program is loading its first room.
LEMMA TypeInit == ASSUME Init PROVE TypeOK
<1>1. Len(Order) \in Nat /\ Order[1] \in RoomId
  BY OrderAssumption
<1>2. data \in [RoomId -> SUBSET Id]
  <2>1. \A r \in RoomId : (IF r < Len(Order) THEN RoomInsts[r] ELSE {}) \in SUBSET Id
    <3>1. \A r \in RoomId : r < Len(Order) => r \in 0..Len(Order)-1
      BY <1>1
    <3>2. \A r \in 0..Len(Order)-1 : RoomInsts[r] \subseteq Id
      BY RoomInstsAssumption
    <3> QED BY <3>1, <3>2, Zenon
  <2> QED BY <2>1 DEF Init
<1>3. maxid \in 1..MaxId + 1
  BY HighestId DEF Init
<1>4. RoomsOK /\ AskedOK
  BY <1>1, <1>2 DEF Init, RoomsOK, AskedOK
<1>5. InstsOK /\ EntryOK
  BY <1>1, <1>3 DEF Init, InstsOK, EntryOK
<1>6. WalkOK /\ CodeOK /\ pc \in Phase
  BY DEF Init, WalkOK, Walks, NoWalk, CodeOK, Phase, Coding
<1> QED BY <1>4, <1>5, <1>6, TypeParts

\* Ids mean one thing at the start, when nothing is linked.
LEMMA IdsInit == ASSUME Init PROVE IdsApart
<1>1. /\ Len(Order) \in Nat
      /\ \A r, s \in 0..Len(Order)-1 : r # s => RoomInsts[r] \cap RoomInsts[s] = {}
      /\ HighId \in 0..MaxId
      /\ \A r \in 0..Len(Order)-1 : \A i \in RoomInsts[r] : i <= HighId /\ i \in Id
  <2>1. Len(Order) \in Nat
    BY OrderAssumption
  <2>2. \A r \in 0..Len(Order)-1 : RoomInsts[r] \subseteq Id
    BY RoomInstsAssumption
  <2> QED BY <2>1, <2>2, RoomInstsAssumption, HighestId
<1>2. live = {} /\ deact = {} /\ maxid = HighId + 1
  BY DEF Init
<1>3. \A r \in RoomId : data[r] = IF r < Len(Order) THEN RoomInsts[r] ELSE {}
  BY DEF Init
<1>4. ASSUME NEW r \in RoomId, NEW i \in data[r]
      PROVE  i < maxid /\ \A s \in RoomId : i \in data[s] => r = s
  <2>1. r \in 0..Len(Order)-1 /\ i \in RoomInsts[r]
    BY <1>1, <1>3, <1>4
  <2>2. i <= HighId /\ i \in Id
    BY <1>1, <2>1
  <2>3. ASSUME NEW s \in RoomId, i \in data[s] PROVE r = s
    <3>1. s \in 0..Len(Order)-1 /\ i \in RoomInsts[s]
      BY <1>1, <1>3, <2>3
    <3> QED BY <1>1, <2>1, <3>1
  <2> QED BY <1>1, <1>2, <2>2, <2>3
<1> QED BY <1>2, <1>4 DEF IdsApart, LinkedOrDeactivated, NextIdUnused

\* Ids go on to mean one thing.
LEMMA IdsStep == ASSUME IInv, Next PROVE IdsApart'
<1>0. /\ TypeOK /\ RoomInv
      /\ live \cap deact = {}
      /\ \A i \in live \cup deact : i < maxid
      /\ \A r \in RoomId : \A i \in data[r] :
           i < maxid /\ \A s \in RoomId : i \in data[s] => r = s
      /\ maxid \in Nat /\ live \subseteq Id /\ deact \subseteq Id
      /\ data \in [RoomId -> SUBSET Id] /\ target \in RoomId
  BY DEF IInv, IdsApart, LinkedOrDeactivated, NextIdUnused, TypeOK
<1> USE DEF IdsApart, LinkedOrDeactivated, NextIdUnused
<1>1. CASE UNCHANGED <<live, deact, maxid, data>>
  BY <1>0, <1>1
<1>2. CASE Control
  <2>1. CASE Load
    <3>1. /\ deact' = {} /\ live' = live \cup (data[target] \ live)
          /\ maxid' = maxid /\ data' = data
      BY <2>1 DEF Load, LoadLeaving
    <3> QED BY <1>0, <3>1
  <2>2. CASE DestroyTurn
    <3>1. live' \subseteq live /\ UNCHANGED <<deact, maxid, data>>
      BY <2>2 DEF DestroyTurn, roomVars
    <3> QED BY <1>0, <3>1
  <2>3. CASE ~Load /\ ~DestroyTurn
    <3>1. UNCHANGED <<roomVars, instVars>>
      BY <1>2, <2>3 DEF Control, BeginBody, EndBody, EndEvents, RoomsSwitch,
         SwitchLeaving, RoomEndNext, PreCreated, CreatedNext, CreateCodeDone, RoomStartNext
    <3> QED BY <1>1, <3>1 DEF roomVars, instVars
  <2> QED BY <2>1, <2>2, <2>3
<1>3. CASE Asking
  <2>1. UNCHANGED <<roomVars, instVars>>
    BY <1>3 DEF Asking, Request, Refuse
  <2> QED BY <1>1, <2>1 DEF roomVars, instVars
<1>4. ASSUME NEW w \in Id, Unlinking(w) PROVE IdsApart'
  <2>1. /\ w \in live /\ live' = live \ {w} /\ deact' \subseteq deact \cup {w}
        /\ maxid' = maxid /\ data' = data
    BY <1>4 DEF Unlinking, UnlinkInst, roomVars
  <2> QED BY <1>0, <2>1
<1>5. ASSUME NEW p \in BOOLEAN, InstanceCreate(p) PROVE IdsApart'
  <2>1. /\ live' = live \cup {maxid} /\ maxid' = maxid + 1
        /\ deact' = deact /\ data' = data
    BY <1>5 DEF InstanceCreate, roomVars
  <2>2. maxid \notin live \cup deact
    BY <1>0
  <2>3. \A i \in live' \cup deact' : i < maxid'
    BY <1>0, <2>1
  <2>4. \A r \in RoomId : \A i \in data[r] : i < maxid + 1
    BY <1>0
  <2> QED BY <1>0, <2>1, <2>2, <2>3, <2>4
<1>6. ASSUME NEW i \in Id, InstanceActivate(i) PROVE IdsApart'
  <2>1. /\ i \in deact /\ live' = live \cup {i} /\ deact' = deact \ {i}
        /\ maxid' = maxid /\ data' = data
    BY <1>6 DEF InstanceActivate, roomVars
  <2> QED BY <1>0, <2>1
<1>7. ASSUME NEW i \in Id, SetPersistent(i) PROVE IdsApart'
  BY <1>1, <1>7 DEF SetPersistent, roomVars
<1>8. CASE RoomAdd
  BY <1>1, <1>8 DEF RoomAdd, instVars
<1>9. ASSUME NEW r \in RoomId, RoomInstanceAdd(r) PROVE IdsApart'
  <2>1. /\ live' = live /\ deact' = deact /\ maxid' = maxid + 1
        /\ data' = [data EXCEPT ![r] = @ \cup {maxid}]
    BY <1>9 DEF RoomInstanceAdd
  <2>2. \A s \in RoomId : data'[s] = IF s = r THEN data[r] \cup {maxid} ELSE data[s]
    BY <1>0, <2>1
  <2>3. \A s \in RoomId : maxid \notin data[s]
    BY <1>0
  <2>4. \A i \in live' \cup deact' : i < maxid'
    BY <1>0, <2>1
  <2>5. ASSUME NEW s \in RoomId, NEW i \in data'[s]
        PROVE  i < maxid' /\ \A t \in RoomId : i \in data'[t] => s = t
    <3>1. CASE i = maxid
      BY <1>0, <2>1, <2>2, <2>3, <2>5, <3>1
    <3>2. CASE i # maxid
      <4>1. i \in data[s]
        BY <2>2, <2>5, <3>2
      <4>2. i < maxid /\ i \in Id
        BY <1>0, <4>1
      <4>3. \A t \in RoomId : i \in data'[t] => i \in data[t]
        BY <2>2, <3>2
      <4> QED BY <1>0, <2>1, <4>1, <4>2, <4>3
    <3> QED BY <3>1, <3>2
  <2> QED BY <1>0, <2>1, <2>4, <2>5
<1> QED BY <1>0, <1>2, <1>3, <1>4, <1>5, <1>6, <1>7, <1>8, <1>9, Steps

\* Code runs in a room.
LEMMA RoomStep == ASSUME IInv, Next PROVE RoomInv'
<1>0. /\ TypeOK /\ RoomInv /\ target \in RoomId
      /\ room = NoRoom => pc = "loading"
  BY DEF IInv, RoomInv, TypeOK
<1>1. CASE Control
  <2>1. CASE Load
    BY <1>0, <2>1 DEF Load, LoadLeaving, RoomInv
  <2>2. CASE ~Load
    <3>1. pc # "loading" /\ room' = room
      BY <1>1, <2>2 DEF Control, BeginBody, EndBody, EndEvents, RoomsSwitch,
         SwitchLeaving, RoomEndNext, DestroyTurn, PreCreated, CreatedNext,
         CreateCodeDone, RoomStartNext, roomVars
    <3> QED BY <1>0, <3>1 DEF RoomInv
  <2> QED BY <2>1, <2>2
<1>2. CASE ~Control
  <2>1. Call /\ room' = room
    BY <1>0, <1>2, Steps DEF Asking, Request, Refuse, Unlinking, InstanceCreate,
       InstanceActivate, SetPersistent, RoomAdd, RoomInstanceAdd, roomVars
  <2> QED BY <1>0, <2>1 DEF Call, Running, Coding, RoomInv
<1> QED BY <1>1, <1>2

\* The loop that destroys leaves persistent instances behind it, and no code
\* runs until the room is loaded.
LEMMA EndStep == ASSUME IInv, Next PROVE EndInv' /\ EndLeavesPersistent'
<1>0. /\ TypeOK /\ RoomInv /\ EndInv /\ EndLeavesPersistent
      /\ live \subseteq Id /\ walk \in Walks
      /\ walk.at \in Id \cup {End}
  BY DEF IInv, TypeOK, Walks
<1>1. CASE Control
  <2>1. CASE RoomEndNext
    <3>1. CASE BeginWalk /\ pc' = "destroying"
      <4>1. live' = live /\ persistent' = persistent
        BY <2>1 DEF RoomEndNext, instVars
      <4>2. /\ ~walk'.gone
            /\ walk'.at = End => live' = {}
            /\ walk'.at # End => walk'.at \in live' /\ \A i \in live' : walk'.at <= i
        BY <1>0, <3>1, <4>1, WalkBegins
      <4>3. ASSUME NEW i \in live', walk'.at = End \/ i < walk'.at PROVE FALSE
        <5>1. walk'.at # End /\ walk'.at <= i /\ walk'.at \in Id /\ i \in Id
          BY <1>0, <4>1, <4>2, <4>3
        <5> QED BY <4>3, <5>1
      <4> QED BY <3>1, <4>2, <4>3 DEF EndInv, EndLeavesPersistent
    <3>2. CASE ~(BeginWalk /\ pc' = "destroying")
      BY <2>1, <3>2 DEF RoomEndNext, EndInv, EndLeavesPersistent
    <3> QED BY <3>1, <3>2
  <2>2. CASE DestroyTurn
    <3>0. /\ ~walk.gone /\ persistent' = persistent
          /\ walk.at = End \/ walk.at \in live
          /\ \A i \in live : walk.at = End \/ i < walk.at => i \in persistent
      BY <1>0, <2>2 DEF DestroyTurn, EndInv
    <3>1. /\ Succ(walk.at) \in Id \cup {End}
          /\ Succ(walk.at) = End => \A j \in live : j <= walk.at
          /\ Succ(walk.at) # End => /\ Succ(walk.at) \in live /\ Succ(walk.at) > walk.at
                                    /\ \A j \in live : j > walk.at => Succ(walk.at) <= j
      BY <1>0, SuccOf
    <3>2. CASE walk.at = End
      <4>1. pc' = "loading" /\ live' = live
        BY <2>2, <3>2 DEF DestroyTurn
      <4> QED BY <3>0, <3>2, <4>1 DEF EndInv, EndLeavesPersistent
    <3>3. CASE walk.at # End
      <4>1. /\ walk'.gone = FALSE /\ walk'.at = Succ(walk.at) /\ pc' = "destroying"
            /\ live' = IF walk.at \in persistent THEN live ELSE live \ {walk.at}
        <5>1. CASE walk.at \in persistent
          BY <2>2, <3>0, <3>3, <5>1 DEF DestroyTurn, ContinueWalk, StandOn, Ahead
        <5>2. CASE walk.at \notin persistent
          <6>1. WalkPast(walk.at).nxt = Succ(walk.at)
            BY <1>0, <3>0 DEF WalkPast, Walks
          <6> QED BY <2>2, <3>3, <5>2, <6>1 DEF DestroyTurn, StandOn
        <5> QED BY <5>1, <5>2
      <4>2. walk'.at = End \/ walk'.at \in live'
        BY <1>0, <3>1, <3>3, <4>1
      <4>3. ASSUME NEW i \in live', walk'.at = End \/ i < walk'.at
            PROVE  i \in persistent
        <5>1. i \in live /\ i \in Id /\ i <= walk.at
          BY <1>0, <3>1, <4>1, <4>3
        <5>2. i = walk.at => i \in persistent
          BY <4>1, <4>3
        <5> QED BY <1>0, <3>0, <5>1, <5>2
      <4> QED BY <3>0, <4>1, <4>2, <4>3 DEF EndInv, EndLeavesPersistent
    <3> QED BY <3>2, <3>3
  <2>3. CASE ~RoomEndNext /\ ~DestroyTurn
    <3>1. pc' \notin {"destroying", "loading"}
      BY <1>1, <2>3 DEF Control, BeginBody, EndBody, EndEvents, RoomsSwitch,
         SwitchLeaving, Load, LoadLeaving, PreCreated, CreatedNext,
         CreateCodeDone, RoomStartNext
    <3> QED BY <3>1 DEF EndInv, EndLeavesPersistent
  <2> QED BY <2>1, <2>2, <2>3
<1>2. CASE ~Control
  <2>1. Call /\ pc' = pc
    BY <1>0, <1>2, Steps DEF Asking, Request, Refuse, Unlinking, InstanceCreate,
       InstanceActivate, SetPersistent, RoomAdd, RoomInstanceAdd
  <2> QED BY <2>1 DEF Call, Running, Coding, EndInv, EndLeavesPersistent
<1> QED BY <1>1, <1>2

\* A body with a request pending remains the last of its step.
LEMMA LateStep == ASSUME IInv, Next PROVE LateInv'
<1>0. /\ TypeOK /\ RoomInv /\ LateInv
      /\ late \in Nat /\ idmax \in Nat /\ switching \in 0..MaxRoom \cup {NoRoom}
  BY OrderAssumption DEF IInv, TypeOK
<1> USE DEF LateInv, RoomExists
<1>1. CASE Control
  <2>1. CASE BeginBody
    BY <1>0, <2>1 DEF BeginBody, roomVars, requestVars
  <2>2. CASE RoomsSwitch
    <3>1. CASE RoomExists(switching)
      BY <2>2, <3>1 DEF RoomsSwitch, SwitchLeaving
    <3>2. CASE ~RoomExists(switching)
      BY <1>0, <2>2, <3>2 DEF RoomsSwitch, SwitchLeaving, roomVars, requestVars
    <3> QED BY <3>1, <3>2
  <2>3. CASE EndBody \/ EndEvents
    BY <1>0, <2>3 DEF EndBody, EndEvents, roomVars, requestVars
  <2>4. CASE ~(BeginBody \/ RoomsSwitch \/ EndBody \/ EndEvents)
    <3>1. /\ UNCHANGED <<idmax, switching, late>>
          /\ pc \notin {"body", "after"}
      BY <1>1, <2>4 DEF Control, RoomEndNext, DestroyTurn, Load, LoadLeaving,
         PreCreated, CreatedNext, CreateCodeDone, RoomStartNext, roomVars, requestVars
    <3> QED BY <1>0, <3>1
  <2> QED BY <2>1, <2>2, <2>3, <2>4
<1>2. CASE ~Control
  <2>1. CASE \E r \in 0..MaxRoom, again \in BOOLEAN : Request(r, again)
    BY <2>1 DEF Request
  <2>2. CASE ~\E r \in 0..MaxRoom, again \in BOOLEAN : Request(r, again)
    <3>1. UNCHANGED <<requestVars, pc, late>> /\ idmax' >= idmax
      BY <1>0, <1>2, <2>2, Steps DEF Asking, Refuse, Unlinking, InstanceCreate,
         InstanceActivate, SetPersistent, RoomAdd, RoomInstanceAdd, roomVars
    <3>2. idmax' \in Nat
      <4>1. TypeOK'
        BY TypeStep
      <4> QED BY <4>1, OrderAssumption DEF TypeOK
    <3> QED BY <1>0, <3>1, <3>2 DEF requestVars
  <2> QED BY <2>1, <2>2
<1> QED BY <1>1, <1>2

\* The walks go on to owe and to have met whom they should.
LEMMA WalkStep == ASSUME IInv, Next PROVE WalkInv'
<1>0. TypeOK /\ RoomInv /\ WalkInv /\ live \subseteq Id
  BY DEF IInv, TypeOK
<1>1. CASE Control
  <2>1. CASE BeginWalk
    <3>1. live' \subseteq Id
      <4>1. TypeOK'
        BY TypeStep
      <4> QED BY <4>1 DEF TypeOK
    <3> QED BY <2>1, <3>1, WalkBegins DEF WalkInv
  <2>2. CASE ~BeginWalk /\ pc' \in {"roomend", "roomstart"}
    <3>1. /\ pc \in {"roomend", "roomstart"} /\ ContinueWalk
          /\ walk.at # End /\ Ahead # End /\ UNCHANGED owed
          /\ UNCHANGED live
      BY <1>1, <2>2 DEF Control, BeginBody, EndBody, EndEvents, RoomsSwitch,
         SwitchLeaving, Load, LoadLeaving, PreCreated, CreatedNext,
         CreateCodeDone, RoomStartNext, RoomEndNext, DestroyTurn, instVars
    <3> QED BY <1>0, <2>2, <3>1, WalkContinues DEF WalkInv
  <2>3. CASE pc' \notin {"roomend", "roomstart"}
    BY <2>3 DEF WalkInv
  <2> QED BY <2>1, <2>2, <2>3
<1>2. ASSUME NEW w \in Id, Unlinking(w) PROVE WalkInv'
  <2>1. w \in live /\ UnlinkInst(w) /\ met' = met /\ pc' = pc
    BY <1>2 DEF Unlinking
  <2> QED BY <1>0, <2>1, WalkIsPast DEF WalkInv
<1>3. CASE ~Control /\ ~\E w \in Id : Unlinking(w)
  <2>1. UNCHANGED <<walkVars, pc>> /\ live \subseteq live'
    BY <1>0, <1>3, Steps DEF Asking, Request, Refuse, InstanceCreate,
       InstanceActivate, SetPersistent, RoomAdd, RoomInstanceAdd, instVars
  <2>2. walk' = walk /\ owed' = owed /\ met' = met /\ pc' = pc
    BY <2>1 DEF walkVars
  <2>3. CASE pc \in {"roomend", "roomstart"}
    <3>1. NextInv /\ OwedInv /\ MetInv
      BY <1>0, <2>3 DEF WalkInv
    <3>2. Met' = Met
      BY <2>2 DEF Met
    <3>3. NextInv'
      BY <2>1, <2>2, <3>1 DEF NextInv
    <3>4. OwedInv'
      BY <2>1, <2>2, <3>1, <3>2 DEF OwedInv
    <3>5. MetInv'
      BY <2>2, <3>1 DEF MetInv
    <3> QED BY <3>3, <3>4, <3>5 DEF WalkInv
  <2>4. CASE pc \notin {"roomend", "roomstart"}
    BY <2>2, <2>4 DEF WalkInv
  <2> QED BY <2>3, <2>4
<1> QED BY <1>1, <1>2, <1>3

-----------------------------------------------------------------------------
(* The theorems.                                                           *)

\* The invariant holds when the game starts.
LEMMA InvInit == ASSUME Init PROVE IInv
<1>1. RoomInv /\ EndInv /\ LateInv /\ WalkInv /\ EndLeavesPersistent
  BY DEF Init, RoomInv, EndInv, LateInv, WalkInv, EndLeavesPersistent
<1> QED BY <1>1, TypeInit, IdsInit DEF IInv

\* Every step, of code or of the program, keeps the invariant.
LEMMA InvStep == ASSUME IInv, [Next]_vars PROVE IInv'
<1>1. CASE Next
  BY <1>1, TypeStep, RoomStep, IdsStep, EndStep, LateStep, WalkStep DEF IInv
<1>2. CASE UNCHANGED vars
  BY <1>2 DEF vars, IInv, TypeOK, RoomInv, IdsApart, LinkedOrDeactivated,
     NextIdUnused, EndLeavesPersistent, EndInv, LateInv, RoomExists, WalkInv,
     NextInv, OwedInv, MetInv, Met
<1> QED BY <1>1, <1>2

\* The invariant holds in every run of every game.  (roomsystem.cpp)
THEOREM RoomInvariant == Spec => []IInv
BY InvInit, InvStep, PTL DEF Spec

\* Every variable keeps its type.  (roomsystem.cpp)
THEOREM RoomTypeCorrect == Spec => []TypeOK
<1>1. IInv => TypeOK
  BY DEF IInv
<1> QED BY <1>1, RoomInvariant, PTL

\* Ids mean one thing: none is linked and deactivated at once, and the next
\* one is in use nowhere.  (instance_create, room_instance_add, gotome)
THEOREM IdsStayApart == Spec => []IdsApart
<1>1. IInv => IdsApart
  BY DEF IInv
<1> QED BY <1>1, RoomInvariant, PTL

\* Only persistent instances are left when a room is loaded.
\* (roomstruct::end)
THEOREM EndLeaves == Spec => []EndLeavesPersistent
<1>1. IInv => EndLeavesPersistent
  BY DEF IInv
<1> QED BY <1>1, RoomInvariant, PTL

\* At most one event body begins with a request for a room pending.
\* (goto after_events)
THEOREM LateBodies == Spec => []OneLateBody
<1>1. IInv => OneLateBody
  <2>1. ASSUME IInv, RoomExists(switching) PROVE late <= 1
    <3>1. switching # NoRoom /\ late \in Nat
      BY <2>1 DEF IInv, TypeOK, RoomExists
    <3> QED BY <2>1, <3>1 DEF IInv, LateInv
  <2> QED BY <2>1 DEF OneLateBody
<1> QED BY <1>1, RoomInvariant, PTL

\* Room End and Room Start events reach everyone that stays linked, once.
\* (end, gotome, iterator::handle_unlink)
THEOREM WalksMeetEveryone == Spec => EveryoneMetOnce
<1> DEFINE Ended ==
      pc \in {"roomend", "roomstart"} /\ pc' # pc
        => /\ owed \subseteq {met[k] : k \in 1..Len(met)}
           /\ \A j, k \in 1..Len(met) : j < k => met[j] < met[k]
<1> DEFINE Reached == walk'.at \notin {walk.at, End} => walk'.at \in live
<1>1. ASSUME IInv, Next PROVE Ended
  <2>1. SUFFICES ASSUME pc \in {"roomend", "roomstart"}, pc' # pc
                 PROVE  owed \subseteq Met /\ MetInv
    BY DEF Met, MetInv
  <2>2. /\ TypeOK /\ RoomInv /\ NextInv /\ OwedInv /\ MetInv
        /\ live \subseteq Id /\ owed \subseteq live /\ walk.at \in Id \cup {End}
    BY <1>1, <2>1 DEF IInv, WalkInv, OwedInv, TypeOK, Walks
  <2>3. walk.at = End \/ Ahead = End
    <3>1. Control
      BY <1>1, <2>1, <2>2, Steps DEF Asking, Request, Refuse, Unlinking,
         InstanceCreate, InstanceActivate, SetPersistent, RoomAdd, RoomInstanceAdd
    <3> QED BY <2>1, <3>1 DEF Control, BeginBody, EndBody, EndEvents, RoomsSwitch,
         SwitchLeaving, Load, LoadLeaving, PreCreated, CreatedNext,
         CreateCodeDone, RoomStartNext, RoomEndNext, DestroyTurn
  <2>4. ASSUME NEW i \in owed, i \notin Met PROVE FALSE
    <3>1. i \in live /\ i \in Id /\ i > walk.at /\ walk.at # End
      BY <2>2, <2>4 DEF OwedInv
    <3>2. CASE walk.gone
      BY <2>2, <2>3, <2>4, <3>1, <3>2 DEF OwedInv, Ahead
    <3>3. CASE ~walk.gone
      BY <2>2, <2>3, <3>1, <3>3, SuccOf DEF Ahead
    <3> QED BY <3>2, <3>3
  <2> QED BY <2>2, <2>4
<1>2. ASSUME IInv, Next PROVE Reached
  <2>0. /\ TypeOK /\ RoomInv /\ live \subseteq Id /\ walk \in Walks
        /\ walk.at \in Id \cup {End}
    BY <1>2 DEF IInv, TypeOK, Walks
  <2>1. CASE BeginWalk /\ live' = live
    BY <2>0, <2>1, WalkBegins
  <2>2. CASE walk'.at = Ahead /\ ~walk.gone
    BY <2>0, <2>2, SuccOf DEF Ahead
  <2>3. CASE walk'.at = Ahead /\ pc \in {"roomend", "roomstart"}
    BY <1>2, <2>0, <2>3, AheadOf DEF IInv, WalkInv
  <2>4. CASE walk'.at \in {walk.at, End}
    BY <2>4
  <2>5. CASE Control
    <3>1. CASE DestroyTurn
      <4>1. ~walk.gone
        BY <1>2, <3>1 DEF IInv, EndInv, DestroyTurn
      <4>2. WalkPast(walk.at).nxt = Ahead
        BY <2>0, <4>1 DEF WalkPast, Walks, Ahead
      <4>3. walk'.at = Ahead \/ walk' = walk
        BY <3>1, <4>2 DEF DestroyTurn, ContinueWalk, StandOn, walkVars
      <4> QED BY <2>2, <2>4, <4>1, <4>3
    <3>2. CASE RoomEndNext \/ RoomStartNext
      <4>1. \/ BeginWalk /\ live' = live
            \/ walk'.at = Ahead
            \/ walk'.at = End
        BY <3>2 DEF RoomEndNext, RoomStartNext, ContinueWalk, StandOn, NoWalk, instVars
      <4>2. pc \in {"roomend", "roomstart"}
        BY <3>2 DEF RoomEndNext, RoomStartNext
      <4> QED BY <2>1, <2>3, <2>4, <4>1, <4>2
    <3>3. CASE ~DestroyTurn /\ ~RoomEndNext /\ ~RoomStartNext
      <4>1. (BeginWalk /\ live' = live) \/ walk' = walk
        BY <2>5, <3>3 DEF Control, BeginBody, EndBody, EndEvents, RoomsSwitch,
           SwitchLeaving, Load, LoadLeaving, PreCreated, CreatedNext,
           CreateCodeDone, instVars, walkVars
      <4> QED BY <2>1, <2>4, <4>1
    <3> QED BY <3>1, <3>2, <3>3
  <2>6. ASSUME NEW w \in Id, Unlinking(w) PROVE Reached
    BY <2>0, <2>6 DEF Unlinking, UnlinkInst, WalkPast, Walks
  <2>7. CASE ~Control /\ ~\E w \in Id : Unlinking(w)
    <3>1. walk' = walk
      BY <1>2, <2>0, <2>7, Steps DEF Asking, Request, Refuse, InstanceCreate,
         InstanceActivate, SetPersistent, RoomAdd, RoomInstanceAdd, walkVars
    <3> QED BY <2>4, <3>1
  <2> QED BY <2>5, <2>6, <2>7
<1>3. ASSUME IInv, [Next]_vars
      PROVE  [/\ Ended /\ Reached]_vars
  BY <1>1, <1>2, <1>3
<1> QED BY <1>3, RoomInvariant, PTL DEF Spec, EveryoneMetOnce

=============================================================================
