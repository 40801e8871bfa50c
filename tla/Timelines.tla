----------------------------- MODULE Timelines -----------------------------
(***************************************************************************)
(* The timeline of an instance: every Step event advances its position by  *)
(* its speed and then runs the moments that were passed, in order; the End *)
(* Step event loops it.  The code of the moments, and of the other events, *)
(* assigns the timeline variables.                                         *)
(*                                                                         *)
(* Positions and speeds are fractions: they are counted in units, Unit of  *)
(* which make one step of time.                                            *)
(***************************************************************************)
EXTENDS Integers, Sequences, FiniteSets

CONSTANTS
  Moments,    \* [Timeline -> Seq(Nat)]: the times of the moments, ascending,
              \* at least one
  Unit,
  TimelineSpeeds, \* the speeds code assigns, in units
  Positions,  \* the positions code assigns, in units
  Limit,      \* bound: how far from 0 the position may get
  MaxCalls    \* bound: assignments made by code

VARIABLES
  index, running, speed, position, looping,  \* timeline_index, ...
  pc,       \* "moments" in advance_curr_timeline, "code" in a moment or an
            \* event after it, "rest" between End Step and Step
  todo,     \* the rest of moment_ids
  calls,    \* number of assignments made
  owner,    \* history: the timeline that todo is of
  base,     \* history: where the present stretch in one direction began
  stretch,  \* history: the moments passed since, in order
  given     \* history: the speed code has assigned

historyVars == <<base, stretch, given>>
timelineVars == <<index, running, speed, position, looping, pc, todo, calls,
                  owner, base, stretch, given>>

None == -1
Timeline == DOMAIN Moments
Moment(t) == 1..Len(Moments[t])
Time(t, m) == Unit * Moments[t][m]
Last(t) == Time(t, Len(Moments[t]))

\* Moments are in order of time, and within the bound.
ASSUME TimelinesAssumption ==
  /\ Unit \in Nat \ {0} /\ Limit \in Nat /\ MaxCalls \in Nat
  /\ TimelineSpeeds \subseteq Int /\ Positions \subseteq -Limit..Limit
  /\ \A t \in Timeline :
       /\ Moments[t] \in Seq(Nat) /\ Len(Moments[t]) > 0 /\ Last(t) <= Limit
       /\ \A j, k \in Moment(t) : j < k => Moments[t][j] < Moments[t][k]

Direction(s) == IF s >= 0 THEN 1 ELSE -1

\* The constructor, under the compliance mode that leaves timelines paused.
TimelineInit ==
  /\ index = None /\ running = FALSE /\ speed = Unit /\ position = 0
  /\ looping = FALSE
  /\ pc = "rest" /\ todo = <<>>
  /\ calls = 0 /\ owner = None
  /\ base = [at |-> 0, dir |-> 1] /\ stretch = <<>> /\ given = Unit

-----------------------------------------------------------------------------
(* advance_curr_timeline and loop_curr_timeline                            *)

\* A turn that ends at p does not pass the moment at x: landing on it leaves
\* it to the next turn.  Mutant: it does not.
StopsBefore(dir, p, x) == dir * (p - x) < 0
Stops(dir, p, x) == dir * (p - x) <= 0

\* The speed that is left after the way d.
Left(s, d) == s - d

\* The loop of advance_curr_timeline, of timeline t from position p with speed
\* s: at[k] is the state after k moments, nth(k) the k-th moment it meets.
Advanced(t, p, s) ==
  LET dir    == Direction(s)
      ahead  == Cardinality({m \in Moment(t) : dir * (Time(t, m) - p) >= 0})
      nth(k) == IF dir = 1 THEN Len(Moments[t]) - ahead + k ELSE ahead + 1 - k
      at[k \in 0..ahead] ==
        IF k = 0 THEN [position |-> p, speed |-> s]
        ELSE LET x == Time(t, nth(k))
             IN [position |-> x, speed |-> Left(at[k-1].speed, x - at[k-1].position)]
      lands(k) == \/ k = ahead
                  \/ Stops(dir, at[k].position + at[k].speed, Time(t, nth(k + 1)))
      passed == CHOOSE k \in 0..ahead : lands(k) /\ \A j \in 0..k-1 : ~lands(j)
  IN [position |-> at[passed].position + at[passed].speed,
      speed    |-> at[passed].speed,
      ids      |-> [k \in 1..passed |-> nth(k)]]

Moving == running /\ speed # 0 /\ index \in Timeline

\* The Step event of an instance that has a running timeline.
Advance ==
  /\ pc = "rest" /\ Moving
  /\ LET a == Advanced(index, position, speed)
     IN /\ a.position \in -Limit..Limit
        /\ position' = a.position
        /\ speed' = a.speed
        /\ todo' = a.ids /\ owner' = index
        /\ pc' = "moments"
        /\ IF base.dir = Direction(speed)
           THEN base' = base /\ stretch' = stretch \o a.ids
           ELSE base' = [at |-> position, dir |-> Direction(speed)] /\ stretch' = a.ids
  /\ UNCHANGED <<index, running, looping, calls, given>>

\* The Step event of any other.
Rest ==
  /\ pc = "rest" /\ ~Moving
  /\ pc' = "moments"
  /\ UNCHANGED <<index, running, speed, position, looping, todo, calls, owner, historyVars>>

\* timeline_call_moment_script is called with the timeline of now: its code for
\* a moment of that number runs, if it has one.
Called(t, m) == t \in Timeline /\ m \in Moment(t)

\* The call for the next of the moments passed.
CallMoment ==
  /\ pc \in {"moments", "code"} /\ todo # <<>>
  /\ todo' = Tail(todo)
  /\ pc' = IF Called(index, Head(todo)) THEN "code" ELSE "moments"
  /\ UNCHANGED <<index, running, speed, position, looping, calls, owner, historyVars>>

\* Mutant: the turn that lands on the last moment begins the lap anew.
LoopedEarly(t, p, s) ==
  IF s >= 0 THEN IF p >= Last(t) THEN 0 ELSE p
            ELSE IF p <= 0 THEN Last(t) ELSE p

\* loop_curr_timeline: the position after the End Step event.
Looped(t, p, s) ==
  IF s >= 0 THEN IF p > Last(t) THEN 0 ELSE p
            ELSE IF p < 0 THEN Last(t) ELSE p

\* A new stretch begins at p.
NewStretch(p) == base' = [base EXCEPT !.at = p] /\ stretch' = <<>>

\* The End Step event, with the moments of S still to run.
EndStepLeaving(S) ==
  /\ pc \in {"moments", "code"} /\ todo \in S
  /\ pc' = "rest"
  /\ position' = IF Moving /\ looping THEN Looped(index, position, speed) ELSE position
  /\ IF position' = position THEN UNCHANGED <<base, stretch>> ELSE NewStretch(position')
  /\ UNCHANGED <<index, running, speed, looping, todo, calls, owner, given>>

\* Mutant: the moments passed are not all run.
EndStepEarly == EndStepLeaving({todo})

EndStepEvent == EndStepLeaving({<<>>})

\* The instance is as far away as Limit allows: nothing more is looked at.
BoundReached ==
  /\ pc = "rest" /\ Moving
  /\ Advanced(index, position, speed).position \notin -Limit..Limit
  /\ UNCHANGED timelineVars

-----------------------------------------------------------------------------
(* Assignments (actions.h)                                                 *)

Call ==
  /\ pc = "moments" => todo = <<>>
  /\ calls < MaxCalls /\ calls' = calls + 1
  /\ UNCHANGED <<pc, todo, owner>>

\* action_set_timeline
SetTimeline(t, p, start, loop) ==
  /\ Call
  /\ index' = t /\ position' = p /\ running' = start /\ looping' = loop
  /\ NewStretch(p)
  /\ UNCHANGED <<speed, given>>

\* action_set_timeline_position
SetPosition(p) ==
  /\ Call
  /\ position' = p
  /\ NewStretch(p)
  /\ UNCHANGED <<index, running, speed, looping, given>>

\* timeline_index = t
SetIndex(t) ==
  /\ Call
  /\ index' = t
  /\ NewStretch(position)
  /\ UNCHANGED <<running, speed, position, looping, given>>

\* action_set_timeline_speed
SetSpeed(s) ==
  /\ Call
  /\ speed' = s /\ given' = s
  /\ UNCHANGED <<index, running, position, looping, base, stretch>>

\* action_timeline_stop
StopTimeline ==
  /\ Call
  /\ running' = FALSE /\ position' = 0
  /\ NewStretch(0)
  /\ UNCHANGED <<index, speed, looping, given>>

\* action_timeline_start, action_timeline_pause
SetRunning(r) ==
  /\ Call
  /\ running' = r
  /\ UNCHANGED <<index, speed, position, looping, historyVars>>

TimelineNext ==
  \/ Advance \/ Rest \/ CallMoment \/ EndStepEvent \/ BoundReached
  \/ \E t \in Timeline \cup {None}, p \in Positions, start, loop \in BOOLEAN :
       SetTimeline(t, p, start, loop)
  \/ \E t \in Timeline \cup {None} : SetIndex(t)
  \/ StopTimeline
  \/ \E p \in Positions : SetPosition(p)
  \/ \E s \in TimelineSpeeds : SetSpeed(s)
  \/ \E r \in BOOLEAN : SetRunning(r)

TimelineSpec == TimelineInit /\ [][TimelineNext]_timelineVars

-----------------------------------------------------------------------------
\* The type of every variable.  (timelines_object.h)
TimelineTypeOK ==
  /\ index \in Timeline \cup {None} /\ running \in BOOLEAN /\ looping \in BOOLEAN
  /\ speed \in Int /\ position \in Int
  /\ pc \in {"rest", "moments", "code"} /\ todo \in Seq(Nat)
  /\ pc = "rest" => todo = <<>>
  /\ calls \in 0..MaxCalls /\ owner \in Timeline \cup {None}
  /\ base \in [at : Int, dir : {-1, 1}] /\ stretch \in Seq(Nat) /\ given \in Int

\* The moments of timeline t between p and q, in the direction d: p is
\* included, q is not.
Between(t, p, q, d) == {m \in Moment(t) : d * (Time(t, m) - p) >= 0 /\ d * (q - Time(t, m)) > 0}

\* From where the position was set, or its direction changed, to where it is
\* now, every moment is passed once and in order, however many turns it took:
\* one that a turn lands on belongs to the next turn.  (advance_curr_timeline)
NoneSkipped ==
  index \in Timeline =>
    /\ {stretch[k] : k \in 1..Len(stretch)} = Between(index, base.at, position, base.dir)
    /\ \A j, k \in 1..Len(stretch) : j < k => base.dir * (stretch[k] - stretch[j]) > 0

\* A looping timeline begins anew only when the lap has passed every moment
\* behind its start, the last one included.  (loop_curr_timeline)
LapComplete ==
  [][EndStepEvent /\ position' # position /\ base.dir = Direction(speed)
       => \A m \in Moment(index) : base.dir * (Time(index, m) - base.at) >= 0
            => \E k \in 1..Len(stretch) : stretch[k] = m]_timelineVars

\* "We now advance the timeline_position by timeline_speed": the speed that
\* code has set.
AdvancesByGivenSpeed == [][Advance => position' - position = given]_timelineVars

\* "Now, trigger each moment that we've passed": what runs is code of the
\* timeline the moments were passed on.  (advance_curr_timeline)  A moment that
\* sets timeline_index breaks it; no run checks it.
TriggersPassed ==
  [][CallMoment /\ Called(index, Head(todo)) => index = owner]_timelineVars

\* "How far along 'time' is in this timeline. Bounded by [0,lastMoment)": a turn
\* of a stretch that began within the bounds ends within them.
\* (object_timelines)  The code does not keep it; no run checks it.
PositionBounded ==
  [][EndStepEvent /\ index \in Timeline /\ 0 <= base.at /\ base.at < Last(index)
       => 0 <= position' /\ position' < Last(index)]_timelineVars
=============================================================================
