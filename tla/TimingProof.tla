----------------------------- MODULE TimingProof -----------------------------
(***************************************************************************)
(* Proofs about what a game does in time.  Of MainLoop, for every length   *)
(* of a second, catchup limit and set of speeds: types, the edges of a     *)
(* key, and the limit of the rate.  Of Timelines, for all timelines: what  *)
(* a turn passes, and what a stretch of turns does.                        *)
(***************************************************************************)
EXTENDS MainLoop, Timelines, WellFoundedInduction, FiniteSetTheorems, TLAPS

\* The time a step stands for.
Cost == Second \div room_speed

\* How far the game is ahead by the clock that is slowed, and what was taken
\* off that clock since the last full second.
Over == ahead + slowed - frames_count * Cost
Lost == passed - slowed

\* Either no step has been run that the clock has not made up for, or what was
\* lost bounds what the next full second gives back.
Rate ==
  room_speed > 0 =>
    \/ ahead = 0
    \/ /\ frames_count <= room_speed
       /\ frames_count * Cost + Lost <= Second + Cost
       /\ Over <= Catchup + Cost
       /\ Over + Lost <= Catchup + Cost \/ Over <= Catchup

\* The timer has let a step through.
Ready ==
  phase = "events" /\ room_speed > 0 =>
    /\ frames_count < room_speed
    /\ frames_count * Cost <= slowed /\ slowed <= frames_count * Cost + Catchup

RateInv == TypeOK /\ passed < Second /\ Rate /\ Ready /\ NotTooFast

\* The speeds divide the second: no rounding.
Divides == \A s \in Speeds \ {0} : \E k \in Nat : Second = k * s

KeyInv ==
  /\ changes \in Nat
  /\ changes <= 1 => lastKey = was
  /\ changes = 0 => key = was

-----------------------------------------------------------------------------
(* Numbers                                                                 *)

LEMMA DivideExact ==
  ASSUME NEW q \in Nat, NEW r \in Nat \ {0}
  PROVE  (q * r) \div r = q
<1> DEFINE d == (q * r) \div r
<1>1. d \in Int /\ q * r \in Int
  OBVIOUS
<1>2. r * d <= q * r /\ q * r < r * (d + 1)
  OBVIOUS
<1> HIDE DEF d
<1>3. d <= q
  BY <1>1, <1>2
<1>4. d >= q
  BY <1>1, <1>2
<1> QED
  BY <1>1, <1>3, <1>4 DEF d

LEMMA DivideBound ==
  ASSUME NEW a \in Int, NEW q \in Nat, NEW r \in Nat \ {0}, a <= q * r
  PROVE  a \div r \in Int /\ a \div r <= q
<1> DEFINE d == a \div r
<1>1. d \in Int /\ q * r \in Int
  OBVIOUS
<1>2. r * d <= a
  OBVIOUS
<1> HIDE DEF d
<1>3. d <= q
  BY <1>1, <1>2
<1> QED
  BY <1>1, <1>3 DEF d

LEMMA DivideNat ==
  ASSUME NEW a \in Nat, NEW r \in Nat \ {0} PROVE a \div r \in Nat
OBVIOUS

LEMMA NeededBound ==
  ASSUME room_speed \in Nat \ {0}, NEW f \in Nat
  PROVE  /\ Needed(f) \in Int /\ Needed(f) <= Second
         /\ f > room_speed => Needed(f) <= 0
<1> DEFINE left == Second * (room_speed - f)
<1>1. left \in Int /\ left <= Second * room_speed /\ (f > room_speed => left < 0)
  BY ConstantsAssumption
<1> HIDE DEF left
<1>2. left \div room_speed \in Int /\ left \div room_speed <= Second
  BY <1>1, DivideBound, ConstantsAssumption
<1>3. left < 0 => (-left) \div room_speed \in Nat
  BY <1>1
<1> QED
  BY <1>1, <1>2, <1>3, ConstantsAssumption DEF Needed, left

LEMMA NeededExact ==
  ASSUME room_speed \in Nat \ {0}, NEW k \in Nat, Second = k * room_speed,
         NEW f \in Nat, f <= room_speed
  PROVE  Needed(f) = Second - f * k
<1> DEFINE q == k * (room_speed - f)
<1>1. q \in Nat /\ q = Second - f * k
  OBVIOUS
<1>2. Second * (room_speed - f) = q * room_speed
  OBVIOUS
<1> HIDE DEF q
<1>3. (q * room_speed) \div room_speed = q
  BY <1>1, DivideExact
<1>4. ~(q * room_speed < 0)
  BY <1>1
<1> QED
  BY <1>1, <1>2, <1>3, <1>4 DEF Needed

LEMMA SlowedBound ==
  ASSUME room_speed \in Nat, NEW f \in Nat, NEW t \in Nat
  PROVE  Slowed(t, f) \in Nat /\ Slowed(t, f) <= t
<1>1. CASE room_speed = 0
  BY <1>1 DEF Slowed
<1>2. CASE room_speed > 0
  <2>1. Needed(f) \in Int /\ Needed(f) <= Second
    BY <1>2, NeededBound
  <2> QED
    BY <1>2, <2>1, ConstantsAssumption DEF Slowed, Clamped
<1> QED
  BY <1>1, <1>2

\* Within a second, at a speed that divides it.
LEMMA SlowedExact ==
  ASSUME room_speed \in Nat \ {0}, NEW k \in Nat, Second = k * room_speed,
         NEW f \in Nat, f <= room_speed, NEW t \in Nat, t < Second
  PROVE  /\ Slowed(t, f) = IF t > f * k + Catchup THEN f * k + Catchup ELSE t
         /\ Early(Slowed(t, f), f) <=> Slowed(t, f) < f * k
<1> DEFINE F == f * k
<1>1. F \in Nat /\ Needed(f) = Second - F
  BY NeededExact
<1> HIDE DEF F
<1>2. Slowed(t, f) = IF t > F + Catchup THEN F + Catchup ELSE t
  BY <1>1, ConstantsAssumption DEF Slowed, Clamped
<1>3. Slowed(t, f) \in Nat /\ Slowed(t, f) < Second
  BY <1>1, <1>2, ConstantsAssumption
<1>4. Early(Slowed(t, f), f) <=> Slowed(t, f) < F
  BY <1>1, <1>3, ConstantsAssumption DEF Early, Clamped
<1> QED
  BY <1>2, <1>4 DEF F

-----------------------------------------------------------------------------
(* Types                                                                   *)

LEMMA InitType == Init => TypeOK
<1> SUFFICES ASSUME Init PROVE TypeOK
  OBVIOUS
<1>1. slept \in BOOLEAN /\ focused \in BOOLEAN /\ key \in BOOLEAN /\ lastKey \in BOOLEAN /\ was \in BOOLEAN
  BY Zenon DEF Init
<1>2. freeze \in BOOLEAN
  BY DEF Init
<1> QED
  BY <1>1, <1>2, ConstantsAssumption DEF Init, TypeOK

LEMMA UpdateTimerType ==
  ASSUME TypeOK, NEW d \in 0..MaxStall, UpdateTimer(d)
  PROVE  TypeOK'
<1> DEFINE f == Frames(passed + d >= Second)
           p == IF passed + d >= Second THEN passed + d - Second ELSE passed + d
           u == IF passed + d >= Second THEN passed + d - Second ELSE slowed + d
           t == Slowed(u, f)
<1>1. /\ passed + d <= MaxPassed /\ passed' = p /\ slowed' = t /\ frames_count' = f
      /\ slept' = Early(t, f)
      /\ phase' = IF Early(t, f) THEN "timer" ELSE "events"
      /\ ahead' = IF ahead > d THEN ahead - d ELSE 0
      /\ UNCHANGED <<room_speed, focused, freeze, pausedSteps, key, lastKey, was, changes>>
  BY DEF UpdateTimer, window, input
<1>2. d \in Nat /\ passed \in Nat /\ slowed \in Nat /\ slowed <= passed /\ Second \in Nat
  BY ConstantsAssumption DEF TypeOK
<1>3. f \in Nat
  BY DEF TypeOK, Frames
<1>4. p \in Nat /\ u \in Nat /\ u <= p /\ p <= passed + d
  BY <1>2
<1>5. room_speed \in Nat
  BY ConstantsAssumption DEF TypeOK
<1> HIDE DEF f, p, u
<1>6. t \in Nat /\ t <= u
  BY <1>3, <1>4, <1>5, SlowedBound
<1> HIDE DEF t
<1>7. slept' \in BOOLEAN /\ phase' \in {"timer", "events"}
  BY <1>1 DEF Early
<1>8. passed' \in 0..MaxPassed /\ slowed' \in Int /\ slowed' <= passed' /\ slowed' >= 0
  BY <1>1, <1>2, <1>4, <1>6, ConstantsAssumption
<1>9. ahead' \in Nat /\ frames_count' \in Nat
  BY <1>1, <1>2, <1>3 DEF TypeOK
<1> QED
  BY <1>1, <1>7, <1>8, <1>9 DEF TypeOK

LEMMA GameWaitType == ASSUME TypeOK, GameWait PROVE TypeOK'
<1>1. Second \div room_speed \in Nat \/ room_speed = 0
  BY ConstantsAssumption DEF TypeOK
<1>2. ahead' \in Nat /\ frames_count' \in Nat /\ pausedSteps' \in 0..1
  BY <1>1 DEF GameWait, TypeOK
<1> QED
  BY <1>2 DEF GameWait, TypeOK, input

LEMMA TypeStep == TypeOK /\ [Next]_vars => TypeOK'
<1> SUFFICES ASSUME TypeOK, [Next]_vars PROVE TypeOK'
  OBVIOUS
<1>1. ASSUME NEW d \in 0..MaxStall, UpdateTimer(d) PROVE TypeOK'
  BY <1>1, UpdateTimerType
<1>2. ASSUME NEW down \in BOOLEAN, KeyEvent(down) PROVE TypeOK'
  BY <1>2 DEF KeyEvent, Changed, TypeOK, timer, window
<1>3. CASE FocusLost
  <2>1. focused' \in BOOLEAN /\ lastKey' \in BOOLEAN /\ key' \in BOOLEAN
    BY <1>3, Zenon DEF FocusLost, TypeOK
  <2> QED
    BY <1>3, <2>1 DEF FocusLost, Changed, TypeOK, timer
<1>4. CASE FocusGained
  <2>1. focused' \in BOOLEAN /\ lastKey' \in BOOLEAN /\ key' \in BOOLEAN
    BY <1>4, Zenon DEF FocusGained
  <2> QED
    BY <1>4, <2>1 DEF FocusGained, TypeOK, timer
<1>5. CASE Close
  BY <1>5 DEF Close, TypeOK, timer, window, input
<1>6. CASE GameWait
  BY <1>6, GameWaitType
<1>7. ASSUME NEW on \in BOOLEAN, SetFreeze(on) PROVE TypeOK'
  BY <1>7 DEF SetFreeze, TypeOK, timer, input
<1>8. CASE IoClear
  <2>1. lastKey' \in BOOLEAN /\ key' \in BOOLEAN /\ was' \in BOOLEAN
    BY <1>8, Zenon DEF IoClear
  <2> QED
    BY <1>8, <2>1 DEF IoClear, TypeOK, timer, window
<1>9. CASE IoHandle
  BY <1>9 DEF IoHandle, Push, TypeOK, timer, window
<1>10. CASE IoHandled
  BY <1>10 DEF IoHandled, TypeOK, timer, window, input
<1>11. ASSUME NEW v \in Speeds, EndStep(v) PROVE TypeOK'
  BY <1>11 DEF EndStep, Push, TypeOK, window
<1>12. CASE Ended \/ UNCHANGED vars
  BY <1>12 DEF Ended, vars, TypeOK, timer, window, input
<1> QED
  BY <1>1, <1>2, <1>3, <1>4, <1>5, <1>6, <1>7, <1>8, <1>9, <1>10, <1>11, <1>12 DEF Next

\* Every variable keeps its type; what updateTimer takes off the offset of the
\* slowed clock never moves it past the present, or before timer_offset.
THEOREM TypeCorrect == Spec => []TypeOK
BY InitType, TypeStep, PTL DEF Spec

-----------------------------------------------------------------------------
(* Input                                                                   *)

LEMMA KeyStep == KeyInv /\ [Next]_vars => KeyInv'
<1> SUFFICES ASSUME KeyInv, [Next]_vars PROVE KeyInv'
  OBVIOUS
<1>1. CASE UNCHANGED input
  BY <1>1 DEF KeyInv, input
<1>2. ASSUME NEW down \in BOOLEAN, KeyEvent(down) PROVE KeyInv'
  BY <1>2 DEF KeyEvent, Changed, KeyInv
<1>3. CASE FocusLost
  BY <1>3 DEF FocusLost, Changed, KeyInv
<1>4. CASE FocusGained
  <2>1. changes' = 2
    BY <1>4 DEF FocusGained
  <2> QED
    BY <2>1 DEF KeyInv
<1>10. CASE IoClear
  <2>1. lastKey' = was' /\ key' = was'
    BY <1>10, Zenon DEF IoClear
  <2>2. changes' = 0
    BY <1>10 DEF IoClear
  <2> QED
    BY <2>1, <2>2 DEF KeyInv
<1>5. CASE IoHandle
  BY <1>5 DEF IoHandle, Push, KeyInv
<1>6. ASSUME NEW v \in Speeds, EndStep(v) PROVE KeyInv'
  BY <1>6 DEF EndStep, Push, KeyInv
<1>7. ASSUME NEW d \in 0..MaxStall, UpdateTimer(d) PROVE UNCHANGED input
  BY <1>7 DEF UpdateTimer
<1>8. ASSUME NEW on \in BOOLEAN, SetFreeze(on) PROVE UNCHANGED input
  BY <1>8 DEF SetFreeze
<1>9. ASSUME Close \/ GameWait \/ IoHandled \/ Ended \/ UNCHANGED vars PROVE UNCHANGED input
  BY <1>9 DEF Close, GameWait, IoHandled, Ended, vars
<1> QED
  BY <1>1, <1>2, <1>3, <1>4, <1>5, <1>6, <1>7, <1>8, <1>9, <1>10 DEF Next

\* A step sees each single change of a key as an edge, and sees no other edge,
\* however many turns of the loop there were without a step.
THEOREM EdgesSeen == Spec => []EdgeSeen
<1>1. Init => KeyInv
  <2> SUFFICES ASSUME Init PROVE KeyInv
    OBVIOUS
  <2>1. lastKey = was /\ key = was
    BY Zenon DEF Init
  <2>2. changes = 0
    BY DEF Init
  <2> QED
    BY <2>1, <2>2 DEF KeyInv
<1>2. KeyInv => EdgeSeen
  BY DEF KeyInv, EdgeSeen, Pressed, Released
<1> QED
  BY <1>1, <1>2, KeyStep, PTL DEF Spec

-----------------------------------------------------------------------------
(* The rate of steps                                                       *)

LEMMA CostIs ==
  ASSUME room_speed \in Nat \ {0}, NEW k \in Nat, Second = k * room_speed
  PROVE  Cost = k
BY DivideExact DEF Cost

LEMMA UpdateTimerRate ==
  ASSUME RateInv, Divides, MaxStall <= Second, NEW d \in 0..MaxStall, UpdateTimer(d)
  PROVE  RateInv'
<1> DEFINE reset == passed + d >= Second
           f == Frames(reset)
           p == IF reset THEN passed + d - Second ELSE passed + d
           u == IF reset THEN passed + d - Second ELSE slowed + d
           t == Slowed(u, f)
<1>1. /\ passed' = p /\ slowed' = t /\ frames_count' = f
      /\ phase' = IF Early(t, f) THEN "timer" ELSE "events"
      /\ ahead' = IF ahead > d THEN ahead - d ELSE 0
      /\ room_speed' = room_speed
  BY DEF UpdateTimer
<1>2. TypeOK'
  BY UpdateTimerType DEF RateInv
<1>3. /\ d \in Nat /\ passed \in Nat /\ slowed \in Nat /\ slowed <= passed /\ Second \in Nat
      /\ ahead \in Nat /\ passed < Second /\ d <= Second /\ Catchup \in Nat
      /\ frames_count \in Nat /\ room_speed \in Nat /\ room_speed \in Speeds
  BY ConstantsAssumption DEF RateInv, TypeOK
<1>4. p \in Nat /\ u \in Nat /\ u <= p /\ p < Second /\ f \in Nat
  BY <1>3 DEF Frames
<1>5. passed' < Second
  BY <1>1, <1>4
<1>6. CASE room_speed = 0
  BY <1>1, <1>2, <1>5, <1>6 DEF RateInv, Rate, Ready, NotTooFast
<1>7. CASE room_speed > 0
  <2>0. room_speed \in Speeds \ {0}
    BY <1>3, <1>7
  <2>1. PICK k \in Nat : Second = k * room_speed
    BY <2>0 DEF Divides
  <2>2. Cost = k /\ Cost' = k
    BY <1>1, <1>3, <1>7, <2>1, CostIs DEF Cost
  <2>3. ahead' \in Nat /\ ahead' <= ahead
    BY <1>1, <1>3
  <2>4. NotTooFast'
    BY <1>1, <1>3, <1>7, <2>2, <2>3 DEF RateInv, NotTooFast, Cost
  <2>5. CASE f <= room_speed
    <3> DEFINE F == f * k
    <3>1. /\ t = IF u > F + Catchup THEN F + Catchup ELSE u
          /\ Early(t, f) <=> t < F
      <4>1. u \in Nat /\ u < Second /\ f \in Nat /\ room_speed \in Nat \ {0}
        BY <1>3, <1>4, <1>7
      <4> HIDE DEF u, f, p
      <4> QED
        BY <2>1, <2>5, <4>1, SlowedExact
    <3>2. F \in Nat /\ t \in Nat /\ t <= u
      BY <1>3, <1>4, <3>1
    <3>3. Ready'
      <4>1. SUFFICES ASSUME ~(t < F) PROVE f < room_speed /\ F <= t /\ t <= F + Catchup
        BY <1>1, <2>2, <3>1 DEF Ready
      <4>2. F <= t /\ t <= F + Catchup
        BY <1>3, <3>1, <3>2, <4>1
      <4>3. f * k < room_speed * k
        <5>1. F < Second
          <6> HIDE DEF F, t, u, p
          <6> QED
            BY <1>3, <1>4, <3>2, <4>2
        <5>2. Second = room_speed * k
          BY <1>3, <2>1
        <5> QED
          BY <5>1, <5>2
      <4>4. f < room_speed
        BY <1>3, <1>4, <2>1, <2>5, <4>3
      <4> QED
        BY <4>2, <4>4
    <3>4. Rate'
      <4> SUFFICES ASSUME ahead > d
                   PROVE  /\ F + (p - t) <= Second + k
                          /\ ahead - d + t - F <= Catchup + k
                          /\ \/ ahead - d + t - F + (p - t) <= Catchup + k
                             \/ ahead - d + t - F <= Catchup
        BY <1>1, <2>2, <2>5 DEF Rate, Over, Lost
      <4> DEFINE F0 == frames_count * k
      <4>1. /\ frames_count <= room_speed
            /\ F0 + (passed - slowed) <= Second + k
            /\ ahead + slowed - F0 <= Catchup + k
            /\ \/ ahead + slowed - F0 + (passed - slowed) <= Catchup + k
               \/ ahead + slowed - F0 <= Catchup
        BY <1>3, <1>7, <2>2 DEF RateInv, Rate, Over, Lost
      <4>2. F0 \in Nat /\ F0 <= Second
        <5>1. frames_count * k <= room_speed * k
          BY <1>3, <2>1, <4>1
        <5> QED
          BY <1>3, <2>1, <5>1
      <4>3. CASE reset
        <5>1. F = 0 /\ p = passed + d - Second /\ u = p
          BY <4>3 DEF Frames
        <5> HIDE DEF F, F0, f, p, u, t, reset
        <5> QED
          BY <1>3, <1>4, <2>1, <3>1, <3>2, <4>1, <4>2, <5>1
      <4>4. CASE ~reset
        <5>1. F = F0 /\ p = passed + d /\ u = slowed + d
          BY <4>4 DEF Frames
        <5> HIDE DEF F, F0, f, p, u, t, reset
        <5> QED
          BY <1>3, <1>4, <2>1, <3>1, <3>2, <4>1, <4>2, <5>1
      <4> QED
        BY <4>3, <4>4
    <3> QED
      BY <1>2, <1>5, <2>4, <3>3, <3>4 DEF RateInv
  <2>6. CASE f > room_speed
    <3>1. f = frames_count
      BY <1>3, <2>6 DEF Frames
    <3>2. ahead = 0
      <4>1. frames_count > room_speed
        BY <2>6, <3>1
      <4> QED
        BY <1>3, <1>7, <4>1 DEF RateInv, Rate
    <3>3. ahead' = 0
      BY <1>1, <1>3, <3>2
    <3>4. Needed(f) \in Int /\ Needed(f) <= 0 /\ t \in Nat /\ t <= u
      <4>1. u \in Nat /\ f \in Nat /\ room_speed \in Nat \ {0}
        BY <1>3, <1>4, <1>7
      <4> HIDE DEF u, f, p
      <4> QED
        BY <2>6, <4>1, NeededBound, SlowedBound
    <3>5. Early(t, f)
      BY <1>3, <1>4, <1>7, <3>4 DEF Early, Clamped
    <3>6. Rate' /\ Ready'
      BY <1>1, <3>3, <3>5 DEF Rate, Ready
    <3> QED
      BY <1>2, <1>5, <2>4, <3>6 DEF RateInv
  <2> QED
    BY <1>3, <1>4, <2>5, <2>6
<1> QED
  BY <1>3, <1>6, <1>7

LEMMA GameWaitRate == ASSUME RateInv, Divides, GameWait PROVE RateInv'
<1>1. TypeOK'
  BY GameWaitType DEF RateInv
<1>2. phase' \in {"timer", "step"} /\ UNCHANGED <<passed, slowed, room_speed>>
  BY DEF GameWait
<1>3. /\ passed \in Nat /\ slowed \in Nat /\ slowed <= passed /\ passed < Second /\ Second \in Nat
      /\ ahead \in Nat /\ frames_count \in Nat /\ room_speed \in Nat /\ room_speed \in Speeds /\ Catchup \in Nat
  BY ConstantsAssumption DEF RateInv, TypeOK
<1>4. Ready' /\ passed' < Second
  BY <1>2, <1>3 DEF Ready
<1>5. CASE UNCHANGED <<frames_count, ahead>>
  BY <1>1, <1>2, <1>4, <1>5 DEF RateInv, Rate, NotTooFast, Over, Lost, Cost
<1>6. CASE room_speed = 0
  BY <1>1, <1>2, <1>4, <1>6 DEF RateInv, Rate, NotTooFast
<1>7. CASE room_speed > 0 /\ ~UNCHANGED <<frames_count, ahead>>
  <2>1. PICK k \in Nat : Second = k * room_speed
    BY <1>3, <1>7 DEF Divides
  <2>2. Cost = k /\ Cost' = k
    BY <1>2, <1>3, <1>7, <2>1, CostIs DEF Cost
  <2>3. frames_count' = frames_count + 1 /\ ahead' = ahead + k /\ phase = "events"
    BY <1>7, <2>2 DEF GameWait, Cost
  <2> DEFINE F == frames_count * k
  <2>4. frames_count < room_speed /\ F <= slowed /\ slowed <= F + Catchup
    BY <1>7, <2>2, <2>3 DEF RateInv, Ready
  <2>5. F \in Nat /\ (frames_count + 1) * k = F + k
    BY <1>3
  <2>6. \/ ahead = 0
        \/ /\ F + (passed - slowed) <= Second + k
           /\ ahead + slowed - F <= Catchup + k
           /\ ahead + slowed - F + (passed - slowed) <= Catchup + k \/ ahead + slowed - F <= Catchup
    BY <1>7, <2>2 DEF RateInv, Rate, Over, Lost
  <2> HIDE DEF F
  <2>7. ahead + slowed - F <= Catchup + k
    BY <1>3, <2>4, <2>5, <2>6
  <2>8. /\ F + k + (passed - slowed) <= Second + k
        /\ ahead + k + slowed - (F + k) <= Catchup + k
        /\ \/ ahead + k + slowed - (F + k) + (passed - slowed) <= Catchup + k
           \/ ahead + k + slowed - (F + k) <= Catchup
    BY <1>3, <2>4, <2>5, <2>6
  <2>9. Rate'
    <3>1. frames_count' * Cost' = F + k
      BY <2>2, <2>3, <2>5
    <3> QED
      BY <1>2, <1>3, <2>2, <2>3, <2>4, <2>8, <3>1 DEF Rate, Over, Lost
  <2>10. ahead + k <= Catchup + 2 * k
    BY <1>3, <2>4, <2>5, <2>7
  <2>11. NotTooFast'
    BY <1>2, <2>2, <2>3, <2>10 DEF NotTooFast, Cost
  <2> QED
    BY <1>1, <1>4, <2>9, <2>11 DEF RateInv
<1> QED
  BY <1>3, <1>5, <1>6, <1>7

LEMMA EndStepRate == ASSUME RateInv, NEW v \in Speeds, EndStep(v) PROVE RateInv'
<1>1. /\ UNCHANGED <<passed, slowed, frames_count>> /\ phase' # "events" /\ room_speed' = v
      /\ ahead' = IF v = room_speed THEN ahead ELSE 0
  BY DEF EndStep
<1>2. TypeOK'
  <2>1. [Next]_vars
    BY DEF Next
  <2> QED
    BY <2>1, TypeStep DEF RateInv
<1>3. Ready' /\ passed' < Second
  BY <1>1 DEF Ready, RateInv
<1>4. CASE v = room_speed
  BY <1>1, <1>2, <1>3, <1>4 DEF RateInv, Rate, NotTooFast, Over, Lost, Cost
<1>5. CASE v # room_speed
  <2>1. ahead' = 0
    BY <1>1, <1>5
  <2>2. room_speed' > 0 => Second \div room_speed' \in Nat
    <3>1. v \in Nat /\ Second \in Nat
      BY ConstantsAssumption
    <3>2. v > 0 => Second \div v \in Nat
      <4>1. CASE v = 0
        BY <4>1
      <4>2. CASE v \in Nat \ {0}
        BY <3>1, <4>2, DivideNat
      <4> QED
        BY <3>1, <4>1, <4>2
    <3> QED
      BY <1>1, <3>2
  <2>3. NotTooFast'
    BY <2>1, <2>2, ConstantsAssumption DEF NotTooFast
  <2> QED
    BY <1>2, <1>3, <2>1, <2>3 DEF RateInv, Rate
<1> QED
  BY <1>4, <1>5

LEMMA RateStep ==
  ASSUME Divides, MaxStall <= Second
  PROVE  RateInv /\ [Next]_vars => RateInv'
<1> SUFFICES ASSUME RateInv, [Next]_vars PROVE RateInv'
  OBVIOUS
<1>1. TypeOK'
  BY TypeStep DEF RateInv
<1>2. ASSUME UNCHANGED timer, phase' = phase \/ phase' # "events" PROVE RateInv'
  BY <1>1, <1>2 DEF RateInv, Rate, Ready, NotTooFast, Over, Lost, Cost, timer
<1>3. ASSUME NEW d \in 0..MaxStall, UpdateTimer(d) PROVE RateInv'
  BY <1>3, UpdateTimerRate
<1>4. CASE GameWait
  BY <1>4, GameWaitRate
<1>5. ASSUME NEW v \in Speeds, EndStep(v) PROVE RateInv'
  BY <1>5, EndStepRate
<1>6. ASSUME NEW down \in BOOLEAN, KeyEvent(down) PROVE RateInv'
  BY <1>2, <1>6 DEF KeyEvent
<1>7. CASE FocusLost \/ FocusGained \/ Close
  BY <1>2, <1>7 DEF FocusLost, FocusGained, Close
<1>8. ASSUME NEW on \in BOOLEAN, SetFreeze(on) PROVE RateInv'
  BY <1>2, <1>8 DEF SetFreeze
<1>9. CASE IoClear \/ IoHandle \/ IoHandled
  BY <1>2, <1>9 DEF IoClear, IoHandle, IoHandled
<1>10. CASE Ended \/ UNCHANGED vars
  BY <1>2, <1>10 DEF Ended, vars
<1> QED
  BY <1>3, <1>4, <1>5, <1>6, <1>7, <1>8, <1>9, <1>10 DEF Next

\* While no stall is longer than a second, and the speeds divide one, the game
\* is never ahead of the clock by more than the catchup limit and two steps.
THEOREM RateLimited ==
  ASSUME Divides, MaxStall <= Second
  PROVE  Spec => []NotTooFast
<1>1. Init => RateInv
  <2> SUFFICES ASSUME Init PROVE RateInv
    OBVIOUS
  <2>1. TypeOK
    BY InitType
  <2>2. room_speed > 0 => Second \div room_speed \in Nat
    BY <2>1, ConstantsAssumption DEF TypeOK
  <2> QED
    BY <2>1, <2>2, ConstantsAssumption DEF Init, RateInv, Rate, Ready, NotTooFast
<1>2. RateInv => NotTooFast
  BY DEF RateInv
<1> QED
  BY <1>1, <1>2, RateStep, PTL DEF Spec

-----------------------------------------------------------------------------
(* Timelines: the moments ahead                                            *)

\* A set of numbers that is not empty has a least element.
LEMMA LeastOf ==
  ASSUME NEW S \in SUBSET Nat, S # {}
  PROVE  \E i \in S : \A j \in S : i <= j
<1> DEFINE R == {ss \in Nat \X Nat : ss[1] < ss[2]}
<1>1. PICK i \in S : \A j \in S : ~(<<j, i>> \in R)
  <2>1. IsWellFoundedOn(R, Nat)
    BY NatLessThanWellFounded DEF OpToRel
  <2> HIDE DEF R
  <2> QED BY <2>1, WFMin
<1>2. \A j \in S : ~(<<j, i>> \in R) => i <= j
  OBVIOUS
<1> HIDE DEF R
<1> QED BY <1>1, <1>2

\* What the constants say of a timeline: its moments are numbered from 1, and
\* the later ones have the later times.
LEMMA TimelineFacts ==
  ASSUME NEW t \in Timeline
  PROVE  /\ Unit \in Nat \ {0} /\ Len(Moments[t]) \in Nat \ {0} /\ Last(t) <= Limit
         /\ Moment(t) = 1..Len(Moments[t])
         /\ \A m \in Moment(t) : Time(t, m) \in Nat
         /\ \A j, k \in Moment(t) : j < k => Time(t, j) < Time(t, k)
         /\ Last(t) = Time(t, Len(Moments[t])) /\ Last(t) \in Nat
<1>1. /\ Unit \in Nat \ {0} /\ Moments[t] \in Seq(Nat) /\ Len(Moments[t]) \in Nat \ {0}
      /\ Last(t) <= Limit
      /\ \A j, k \in Moment(t) : j < k => Moments[t][j] < Moments[t][k]
  BY TimelinesAssumption
<1>2. ASSUME NEW m \in Moment(t) PROVE Moments[t][m] \in Nat /\ Time(t, m) \in Nat
  <2>1. Moments[t][m] \in Nat
    BY <1>1 DEF Moment
  <2> QED BY <1>1, <2>1 DEF Time
<1>3. ASSUME NEW j \in Moment(t), NEW k \in Moment(t), j < k PROVE Time(t, j) < Time(t, k)
  <2>1. Moments[t][j] \in Nat /\ Moments[t][k] \in Nat /\ Moments[t][j] < Moments[t][k]
    BY <1>1, <1>2, <1>3
  <2> DEFINE a == Moments[t][j] b == Moments[t][k]
  <2> HIDE DEF a, b
  <2>2. ASSUME a \in Nat, b \in Nat, a < b PROVE Unit * a < Unit * b
    BY <1>1, <2>2
  <2> QED BY <2>1, <2>2 DEF Time, a, b
<1>4. Len(Moments[t]) \in Moment(t)
  BY <1>1 DEF Moment
<1> QED BY <1>1, <1>2, <1>3, <1>4 DEF Last, Moment

\* The moments from p on, and the k-th of them.
AheadOf(t, p, dir) == {m \in Moment(t) : dir * (Time(t, m) - p) >= 0}
Count(t, p, dir) == Cardinality(AheadOf(t, p, dir))
Nth(t, p, dir, k) ==
  IF dir = 1 THEN Len(Moments[t]) - Count(t, p, dir) + k ELSE Count(t, p, dir) + 1 - k

\* The moments ahead are the last ones, or going backwards the first ones.
LEMMA AheadInterval ==
  ASSUME NEW t \in Timeline, NEW p \in Int, NEW dir \in {-1, 1}
  PROVE  /\ Count(t, p, dir) \in 0..Len(Moments[t])
         /\ AheadOf(t, p, dir) = IF dir = 1
              THEN Len(Moments[t]) - Count(t, p, dir) + 1 .. Len(Moments[t])
              ELSE 1 .. Count(t, p, dir)
<1> DEFINE n == Len(Moments[t])
           A == AheadOf(t, p, dir)
<1>1. n \in Nat /\ A \subseteq 1..n /\ Moment(t) = 1..n
  BY TimelineFacts DEF AheadOf
<1>2. \A m \in 1..n : m \in A <=> IF dir = 1 THEN Time(t, m) >= p ELSE Time(t, m) <= p
  BY <1>1, TimelineFacts DEF AheadOf
<1>3. \A j, k \in 1..n : j < k => Time(t, j) < Time(t, k) /\ Time(t, j) \in Int /\ Time(t, k) \in Int
  BY <1>1, TimelineFacts
<1> HIDE DEF n, A
<1>4. CASE dir = 1
  <2>1. \E i \in 1..n+1 : A = i..n
    <3>1. CASE A = {}
      <4>1. n + 1 \in 1..n+1 /\ A = n+1..n
        BY <1>1, <3>1
      <4> QED BY <4>1
    <3>2. CASE A # {}
      <4>1. A \in SUBSET Nat
        BY <1>1
      <4>2. PICK i \in A : \A j \in A : i <= j
        BY <3>2, <4>1, LeastOf
      <4>3. \A j \in 1..n : i <= j => j \in A
        BY <1>1, <1>2, <1>3, <1>4, <4>2
      <4>a. i \in 1..n
        BY <1>1
      <4>b. i \in 1..n+1
        BY <1>1, <4>a
      <4>c. ASSUME NEW m \in A PROVE m \in i..n
        <5>1. m \in 1..n /\ i <= m
          BY <1>1, <4>2
        <5> QED BY <1>1, <4>a, <5>1
      <4>4. i \in 1..n+1 /\ \A m : m \in A => m \in i..n
        BY <4>b, <4>c
      <4>5. \A m : m \in i..n => m \in A
        BY <1>1, <4>3, <4>4
      <4>6. A = i..n
        BY <4>4, <4>5
      <4> QED BY <4>4, <4>6
    <3> QED BY <3>1, <3>2
  <2>2. PICK i \in 1..n+1 : A = i..n
    BY <2>1
  <2>3. Cardinality(A) = n - i + 1
    <3>1. i \in Int /\ n \in Int /\ (IF i > n THEN 0 ELSE n - i + 1) = n - i + 1
      BY <1>1
    <3> QED BY <2>2, <3>1, FS_Interval
  <2>4. n - Cardinality(A) + 1 = i /\ Cardinality(A) \in 0..n
    BY <1>1, <2>2, <2>3
  <2> QED BY <1>4, <2>2, <2>4 DEF Count, A, n
<1>5. CASE dir = -1
  <2>1. \E i \in 0..n : A = 1..i
    <3> DEFINE B == (1..n) \ A
    <3>1. CASE B = {}
      <4>1. (\A m : m \in 1..n => m \in A) /\ n \in 0..n
        BY <1>1, <3>1
      <4>2. A = 1..n
        BY <1>1, <4>1
      <4> QED BY <4>1, <4>2
    <3>2. CASE B # {}
      <4>1. B \in SUBSET Nat
        BY <1>1
      <4>2. PICK i \in B : \A j \in B : i <= j
        <5> HIDE DEF B
        <5> QED BY <3>2, <4>1, LeastOf
      <4>3. \A j \in 1..n : i <= j => j \notin A
        BY <1>1, <1>2, <1>3, <1>5, <4>2
      <4>4. i \in 1..n /\ i - 1 \in 0..n
        BY <1>1, <4>2
      <4>5. ASSUME NEW m \in A PROVE m \in 1..i-1
        <5>1. m \in 1..n
          BY <1>1
        <5> HIDE DEF B
        <5> QED BY <4>3, <4>4, <5>1
      <4>6. ASSUME NEW m \in 1..i-1 PROVE m \in A
        <5>1. m \in 1..n /\ ~(i <= m)
          BY <1>1, <4>4
        <5>2. m \notin B
          <6> HIDE DEF B
          <6> QED BY <4>2, <5>1
        <5> QED BY <5>1, <5>2
      <4>7. A = 1..i-1
        BY <4>5, <4>6
      <4> QED BY <4>4, <4>7
    <3> QED BY <3>1, <3>2
  <2>2. PICK i \in 0..n : A = 1..i
    BY <2>1
  <2>3. Cardinality(A) = i
    <3>1. i \in Int /\ 1 \in Int /\ (IF 1 > i THEN 0 ELSE i - 1 + 1) = i
      BY <1>1
    <3> QED BY <2>2, <3>1, FS_Interval
  <2> QED BY <1>1, <1>5, <2>2, <2>3 DEF Count, A, n
<1> QED BY <1>4, <1>5

\* Numbered as the loop meets them, the moments ahead come one after the other
\* in the direction, and all of them have a number.
LEMMA NthFacts ==
  ASSUME NEW t \in Timeline, NEW p \in Int, NEW dir \in {-1, 1}
  PROVE  /\ Count(t, p, dir) \in Nat
         /\ \A k \in 1..Count(t, p, dir) :
              /\ Nth(t, p, dir, k) \in Moment(t) /\ dir * (Time(t, Nth(t, p, dir, k)) - p) >= 0
         /\ \A j, k \in 1..Count(t, p, dir) : j < k => dir * (Nth(t, p, dir, k) - Nth(t, p, dir, j)) > 0
         /\ \A m \in AheadOf(t, p, dir) : \E k \in 1..Count(t, p, dir) : m = Nth(t, p, dir, k)
<1> DEFINE n == Len(Moments[t])
           c == Count(t, p, dir)
<1>1. n \in Nat /\ c \in 0..n
      /\ AheadOf(t, p, dir) = IF dir = 1 THEN n - c + 1 .. n ELSE 1 .. c
  BY AheadInterval, TimelineFacts
<1>2. \A k : Nth(t, p, dir, k) = IF dir = 1 THEN n - c + k ELSE c + 1 - k
  BY DEF Nth
<1> HIDE DEF n, c
<1>3. \A k \in 1..c : Nth(t, p, dir, k) \in AheadOf(t, p, dir)
  BY <1>1, <1>2
<1>4. \A j, k \in 1..c : j < k => dir * (Nth(t, p, dir, k) - Nth(t, p, dir, j)) > 0
  <2>1. CASE dir = 1
    BY <1>1, <1>2, <2>1
  <2>2. CASE dir = -1
    BY <1>1, <1>2, <2>2
  <2> QED BY <2>1, <2>2
<1>5. ASSUME NEW m \in AheadOf(t, p, dir) PROVE \E k \in 1..c : m = Nth(t, p, dir, k)
  <2>1. CASE dir = 1
    <3>1. m - (n - c) \in 1..c /\ m = Nth(t, p, dir, m - (n - c))
      BY <1>1, <1>2, <2>1
    <3> QED BY <3>1
  <2>2. CASE dir = -1
    <3>1. c + 1 - m \in 1..c /\ m = Nth(t, p, dir, c + 1 - m)
      BY <1>1, <1>2, <2>2
    <3> QED BY <3>1
  <2> QED BY <2>1, <2>2
<1> QED BY <1>1, <1>3, <1>4, <1>5 DEF AheadOf, c

\* The direction of a speed that is not 0 is its sign.
LEMMA DirectionIs ==
  ASSUME NEW s \in Int PROVE Direction(s) \in {-1, 1} /\ (Direction(s) = 1 <=> s >= 0)
  BY DEF Direction

\* The loop of advance_curr_timeline, and where it stops.
Walked(t, p, s) ==
  CHOOSE at : at = [k \in 0..Count(t, p, Direction(s)) |->
    IF k = 0 THEN [position |-> p, speed |-> s]
    ELSE LET x == Time(t, Nth(t, p, Direction(s), k))
         IN [position |-> x, speed |-> Left(at[k-1].speed, x - at[k-1].position)]]
Lands(t, p, s, k) ==
  \/ k = Count(t, p, Direction(s))
  \/ Stops(Direction(s), Walked(t, p, s)[k].position + Walked(t, p, s)[k].speed,
           Time(t, Nth(t, p, Direction(s), k + 1)))
Passed(t, p, s) ==
  CHOOSE k \in 0..Count(t, p, Direction(s)) :
    Lands(t, p, s, k) /\ \A j \in 0..k-1 : ~Lands(t, p, s, j)

\* What a turn computes, by the names given to its parts.
LEMMA AdvancedIs ==
  ASSUME NEW t, NEW p, NEW s
  PROVE  Advanced(t, p, s) =
           [position |-> Walked(t, p, s)[Passed(t, p, s)].position
                         + Walked(t, p, s)[Passed(t, p, s)].speed,
            speed    |-> Walked(t, p, s)[Passed(t, p, s)].speed,
            ids      |-> [k \in 1..Passed(t, p, s) |-> Nth(t, p, Direction(s), k)]]
  BY Zenon DEF Advanced, Passed, Lands, Walked, Nth, Count, AheadOf

\* The state after k moments, without the recursion: the loop stands on the
\* k-th moment, and what it has gone and what is left are the whole speed.
LEMMA WalkedIs ==
  ASSUME NEW t \in Timeline, NEW p \in Int, NEW s \in Int
  PROVE  \A k \in 0..Count(t, p, Direction(s)) :
           Walked(t, p, s)[k] =
             IF k = 0 THEN [position |-> p, speed |-> s]
             ELSE [position |-> Time(t, Nth(t, p, Direction(s), k)),
                   speed |-> (p + s) - Time(t, Nth(t, p, Direction(s), k))]
<1> DEFINE dir == Direction(s)
           n == Count(t, p, dir)
           X(k) == Time(t, Nth(t, p, dir, k))
           Eq(f) == [k \in 0..n |->
             IF k = 0 THEN [position |-> p, speed |-> s]
             ELSE [position |-> X(k), speed |-> Left(f[k-1].speed, X(k) - f[k-1].position)]]
           closed == [k \in 0..n |->
             IF k = 0 THEN [position |-> p, speed |-> s]
             ELSE [position |-> X(k), speed |-> (p + s) - X(k)]]
           at == Walked(t, p, s)
<1>0. n \in Nat /\ \A k \in 1..n : X(k) \in Int
  <2>1. dir \in {-1, 1}
    BY DirectionIs
  <2> HIDE DEF dir
  <2>2. n \in Nat /\ \A k \in 1..n : Nth(t, p, dir, k) \in Moment(t)
    BY <2>1, NthFacts
  <2>3. \A m \in Moment(t) : Time(t, m) \in Int
    BY TimelineFacts
  <2> QED BY <2>2, <2>3
<1>a. Walked(t, p, s) = CHOOSE f : f = Eq(f)
  BY Zenon DEF Walked
<1> HIDE DEF n, X
<1>1. closed = Eq(closed)
  <2>1. ASSUME NEW k \in 1..n PROVE closed[k].speed = Left(closed[k-1].speed, X(k) - closed[k-1].position)
    <3>1. k - 1 \in 0..n
      BY <1>0
    <3>2. closed[k-1].speed \in Int /\ closed[k-1].position \in Int
          /\ closed[k-1].speed + closed[k-1].position = p + s
      BY <1>0, <3>1
    <3> HIDE DEF closed
    <3>3. Left(closed[k-1].speed, X(k) - closed[k-1].position) = (p + s) - X(k)
      BY <1>0, <3>2 DEF Left
    <3> QED BY <3>3 DEF closed
  <2>2. ASSUME NEW k \in 1..n PROVE closed[k] = Eq(closed)[k]
    <3>1. k \in 0..n /\ k # 0
      OBVIOUS
    <3>2. closed[k] = [position |-> X(k), speed |-> closed[k].speed]
      BY <3>1
    <3> HIDE DEF closed
    <3> QED BY <2>1, <3>1, <3>2
  <2>3. closed[0] = Eq(closed)[0]
    <3>1. 0 \in 0..n
      BY <1>0
    <3> QED BY <3>1
  <2>4. \A k \in 0..n : closed[k] = Eq(closed)[k]
    <3> HIDE DEF closed, Eq
    <3> QED BY <2>2, <2>3
  <2>5. closed = [k \in 0..n |-> closed[k]]
    OBVIOUS
  <2> HIDE DEF closed
  <2> QED BY <2>4, <2>5
<1>2. at = Eq(at)
  <2>1. \E f : f = Eq(f)
    BY <1>1
  <2> HIDE DEF closed
  <2> QED BY <2>1, <1>a, Zenon
<1> HIDE DEF at
<1> DEFINE Wrong == {k \in 0..n : at[k] # closed[k]}
<1>3. Wrong = {}
  <2> SUFFICES ASSUME Wrong # {} PROVE FALSE
    OBVIOUS
  <2>1. PICK k \in Wrong : \A j \in Wrong : k <= j
    <3>1. Wrong \in SUBSET Nat
      OBVIOUS
    <3> HIDE DEF Wrong
    <3> QED BY <3>1, LeastOf
  <2>2. k \in 1..n
    <3>1. 0 \in 0..n /\ at[0] = Eq(at)[0]
      BY <1>0, <1>2
    <3> QED BY <2>1, <3>1
  <2>3. k - 1 \in 0..n /\ k - 1 \notin Wrong
    BY <1>0, <2>1, <2>2
  <2>4. at[k - 1] = closed[k - 1]
    BY <2>3
  <2>5. at[k] = Eq(at)[k] /\ closed[k] = Eq(closed)[k]
    BY <1>1, <1>2, Zenon
  <2>6. Eq(at)[k] = Eq(closed)[k]
    BY <2>2, <2>4
  <2> QED BY <2>1, <2>5, <2>6
<1>4. \A k \in 0..n : at[k] = closed[k]
  BY <1>3
<1> QED BY <1>4, Zenon DEF at, closed, n, X

\* A turn goes all the way from p to p + s, meets the moments between, in order,
\* and leaves a speed of the same direction.
LEMMA Advancing ==
  ASSUME NEW t \in Timeline, NEW p \in Int, NEW s \in Int, s # 0
  PROVE  /\ Advanced(t, p, s).position = p + s
         /\ Advanced(t, p, s).speed \in Int
         /\ Direction(Advanced(t, p, s).speed) = Direction(s)
         /\ Advanced(t, p, s).ids \in Seq(Moment(t))
         /\ \A m : m \in Between(t, p, p + s, Direction(s)) <=>
              \E k \in 1..Len(Advanced(t, p, s).ids) : m = Advanced(t, p, s).ids[k]
         /\ \A j, k \in 1..Len(Advanced(t, p, s).ids) :
              j < k => Direction(s) * (Advanced(t, p, s).ids[k] - Advanced(t, p, s).ids[j]) > 0
<1> DEFINE dir == Direction(s)
           c == Count(t, p, dir)
           X(k) == Time(t, Nth(t, p, dir, k))
           at == Walked(t, p, s)
           lands(k) == Lands(t, p, s, k)
           met == Passed(t, p, s)
<1>1. dir \in {-1, 1} /\ (dir = 1 <=> s >= 0)
  BY DirectionIs
<1>2. /\ c \in Nat
      /\ \A k \in 1..c : Nth(t, p, dir, k) \in Moment(t) /\ X(k) \in Nat /\ dir * (X(k) - p) >= 0
      /\ \A j, k \in 1..c : j < k => dir * (Nth(t, p, dir, k) - Nth(t, p, dir, j)) > 0
      /\ \A m \in AheadOf(t, p, dir) : \E k \in 1..c : m = Nth(t, p, dir, k)
  BY <1>1, NthFacts, TimelineFacts
<1>3. \A k \in 0..c : at[k] = IF k = 0 THEN [position |-> p, speed |-> s]
                              ELSE [position |-> X(k), speed |-> (p + s) - X(k)]
  BY WalkedIs, Zenon
<1>4. \A k : lands(k) <=> k = c \/ Stops(dir, at[k].position + at[k].speed, X(k + 1))
  BY Zenon DEF Lands
<1>5. met = CHOOSE k \in 0..c : lands(k) /\ \A j \in 0..k-1 : ~lands(j)
  BY Zenon DEF Passed
<1>6. Advanced(t, p, s) = [position |-> at[met].position + at[met].speed,
                           speed |-> at[met].speed,
                           ids |-> [k \in 1..met |-> Nth(t, p, dir, k)]]
  BY AdvancedIs, Zenon
<1> HIDE DEF dir, c, X, at, lands, met
<1>7. \A k \in 0..c : at[k].position + at[k].speed = p + s
  <2> SUFFICES ASSUME NEW k \in 0..c PROVE at[k].position + at[k].speed = p + s
    OBVIOUS
  <2>1. CASE k = 0
    <3>1. at[k] = [position |-> p, speed |-> s]
      BY <1>3, <2>1
    <3> QED BY <3>1
  <2>2. CASE k # 0
    <3>1. k \in 1..c
      BY <1>2, <2>2
    <3>2. X(k) \in Nat /\ at[k] = [position |-> X(k), speed |-> (p + s) - X(k)]
      BY <1>2, <1>3, <2>2, <3>1
    <3> QED BY <3>2
  <2> QED BY <2>1, <2>2
<1>8. \A k \in 0..c : lands(k) <=> k = c \/ dir * ((p + s) - X(k + 1)) <= 0
  <2> SUFFICES ASSUME NEW k \in 0..c PROVE lands(k) <=> k = c \/ dir * ((p + s) - X(k + 1)) <= 0
    OBVIOUS
  <2>1. lands(k) <=> k = c \/ Stops(dir, p + s, X(k + 1))
    BY <1>4, <1>7
  <2> DEFINE x == X(k + 1) q == p + s
  <2> HIDE DEF x, q
  <2>2. Stops(dir, q, x) <=> dir * (q - x) <= 0
    BY DEF Stops
  <2> QED BY <2>1, <2>2, Zenon DEF q, x
<1>9. met \in 0..c /\ lands(met) /\ \A j \in 0..met-1 : ~lands(j)
  <2> DEFINE L == {k \in 0..c : lands(k)}
  <2>1. c \in L /\ L \in SUBSET Nat
    BY <1>2, <1>8
  <2>2. PICK k \in L : \A j \in L : k <= j
    <3> HIDE DEF L
    <3> QED BY <2>1, LeastOf
  <2>3. k \in 0..c /\ lands(k)
    OBVIOUS
  <2>4. ASSUME NEW j \in 0..k-1 PROVE ~lands(j)
    <3>1. j \in 0..c /\ ~(k <= j)
      BY <1>2, <2>3
    <3> QED BY <2>2, <3>1
  <2>5. \E i \in 0..c : lands(i) /\ \A j \in 0..i-1 : ~lands(j)
    BY <2>3, <2>4
  <2> QED BY <1>5, <2>5, Zenon
<1>10. \A k \in 1..met : k \in 1..c /\ dir * ((p + s) - X(k)) > 0
  <2> SUFFICES ASSUME NEW k \in 1..met PROVE k \in 1..c /\ dir * ((p + s) - X(k)) > 0
    OBVIOUS
  <2>1. k \in 1..c /\ k - 1 \in 0..met-1 /\ k - 1 \in 0..c /\ k - 1 # c
    BY <1>2, <1>9
  <2>2. ~(dir * ((p + s) - X(k - 1 + 1)) <= 0)
    BY <1>8, <1>9, <2>1
  <2>3. k - 1 + 1 = k
    BY <2>1
  <2>4. X(k) \in Nat
    BY <1>2, <2>1
  <2> QED BY <1>1, <2>1, <2>2, <2>3, <2>4
<1>11. \A k \in met+1..c : ~(dir * ((p + s) - X(k)) > 0)
  <2>1. \A j, k \in 1..c : j <= k => dir * (X(k) - X(j)) >= 0
    <3> SUFFICES ASSUME NEW j \in 1..c, NEW k \in 1..c, j < k PROVE dir * (X(k) - X(j)) >= 0
      BY <1>1, <1>2
    <3> DEFINE a == Nth(t, p, dir, j) b == Nth(t, p, dir, k)
    <3>1. a \in Moment(t) /\ b \in Moment(t) /\ dir * (b - a) > 0
      BY <1>2
    <3>2. X(j) = Time(t, a) /\ X(k) = Time(t, b) /\ X(j) \in Nat /\ X(k) \in Nat
      BY <1>2 DEF X
    <3> HIDE DEF a, b
    <3>3. a \in Int /\ b \in Int /\ (a < b => X(j) < X(k)) /\ (b < a => X(k) < X(j))
      BY <3>1, <3>2, TimelineFacts
    <3> QED BY <1>1, <3>1, <3>2, <3>3
  <2>2. ASSUME met # c PROVE dir * ((p + s) - X(met + 1)) <= 0 /\ met + 1 \in 1..c
    BY <1>2, <1>8, <1>9, <2>2
  <2> SUFFICES ASSUME NEW k \in met+1..c PROVE ~(dir * ((p + s) - X(k)) > 0)
    OBVIOUS
  <2>3. met # c /\ met + 1 \in 1..c /\ k \in 1..c /\ met + 1 <= k
    BY <1>2, <1>9
  <2>4. X(k) \in Nat /\ X(met + 1) \in Nat
    BY <1>2, <2>3
  <2>5. dir * (X(k) - X(met + 1)) >= 0 /\ dir * ((p + s) - X(met + 1)) <= 0
    BY <2>1, <2>2, <2>3
  <2> QED BY <1>1, <2>4, <2>5
<1>12. Advanced(t, p, s).position = p + s /\ Advanced(t, p, s).speed = at[met].speed
       /\ Advanced(t, p, s).ids = [k \in 1..met |-> Nth(t, p, dir, k)]
  BY <1>6, <1>7, <1>9
<1>13. at[met].speed \in Int /\ Direction(at[met].speed) = dir
  <2>1. CASE met = 0
    <3>1. at[met] = [position |-> p, speed |-> s]
      BY <1>3, <1>9, <2>1
    <3> QED BY <3>1 DEF dir
  <2>2. CASE met # 0
    <3>1. met \in 1..met /\ met \in 1..c
      BY <1>2, <1>9, <2>2
    <3>a. at[met] = [position |-> X(met), speed |-> (p + s) - X(met)]
      BY <1>3, <1>9, <2>2
    <3>2. at[met].speed = (p + s) - X(met) /\ X(met) \in Nat /\ dir * ((p + s) - X(met)) > 0
      BY <1>2, <1>10, <3>a, <3>1
    <3> QED BY <1>1, <3>2 DEF Direction
  <2> QED BY <2>1, <2>2
<1> DEFINE ids == [k \in 1..met |-> Nth(t, p, dir, k)]
<1>14. met \in Nat /\ Len(ids) = met /\ ids \in Seq(Moment(t))
       /\ \A k \in 1..met : ids[k] = Nth(t, p, dir, k)
  BY <1>2, <1>9, <1>10
<1>15. ASSUME NEW m PROVE m \in Between(t, p, p + s, dir) <=> \E k \in 1..met : m = ids[k]
  <2>1. ASSUME NEW k \in 1..met, m = ids[k] PROVE m \in Between(t, p, p + s, dir)
    <3>1. k \in 1..c /\ m = Nth(t, p, dir, k) /\ m \in Moment(t) /\ X(k) = Time(t, m)
      BY <1>2, <1>10, <1>14, <2>1 DEF X
    <3> QED BY <1>2, <1>10, <3>1 DEF Between
  <2>2. ASSUME m \in Between(t, p, p + s, dir) PROVE \E k \in 1..met : m = ids[k]
    <3> DEFINE q == p + s
    <3> HIDE DEF q
    <3>0. m \in Between(t, p, q, dir)
      BY <2>2 DEF q
    <3>a. m \in Moment(t) /\ dir * (Time(t, m) - p) >= 0 /\ dir * (q - Time(t, m)) > 0
      BY <3>0 DEF Between
    <3>1. m \in AheadOf(t, p, dir) /\ dir * ((p + s) - Time(t, m)) > 0
      <4>1. m \in AheadOf(t, p, dir)
        BY <3>a DEF AheadOf
      <4>2. dir * ((p + s) - Time(t, m)) > 0
        BY <3>a, Zenon DEF q
      <4> QED BY <4>1, <4>2
    <3>2. PICK k \in 1..c : m = Nth(t, p, dir, k)
      BY <1>2, <3>1
    <3>3. X(k) = Time(t, m)
      BY <3>2 DEF X
    <3>4. k \in 1..met
      BY <1>2, <1>9, <1>11, <3>1, <3>3
    <3> QED BY <1>14, <3>2, <3>4
  <2> QED BY <2>1, <2>2
<1>16. \A j, k \in 1..met : j < k => dir * (ids[k] - ids[j]) > 0
  BY <1>2, <1>10, <1>14
<1> QED BY <1>12, <1>13, <1>14, <1>15, <1>16 DEF dir

-----------------------------------------------------------------------------
(* Timelines: the invariant                                                *)

\* The stretch leads from base.at to the position.
Onward == base.dir * (position - base.at) >= 0

\* The moments of the stretch, said of every moment.
StretchInv ==
  index \in Timeline =>
    /\ \A m : m \in Between(index, base.at, position, base.dir)
              <=> \E k \in 1..Len(stretch) : m = stretch[k]
    /\ \A j, k \in 1..Len(stretch) : j < k => base.dir * (stretch[k] - stretch[j]) > 0

\* The inductive invariant.
TimelineInv == TimelineTypeOK /\ Onward /\ StretchInv

\* StretchInv says the same as NoneSkipped.
LEMMA StretchSkipsNone == StretchInv <=> NoneSkipped
<1> DEFINE S == {stretch[k] : k \in 1..Len(stretch)}
           B == Between(index, base.at, position, base.dir)
<1>1. S = B <=> \A m : m \in B <=> \E k \in 1..Len(stretch) : m = stretch[k]
  <2> HIDE DEF B
  <2> QED OBVIOUS
<1> QED BY <1>1, Zenon DEF StretchInv, NoneSkipped

\* The types of a stretch.
LEMMA BaseFacts ==
  ASSUME TimelineTypeOK
  PROVE  /\ base.at \in Int /\ base.dir \in {-1, 1} /\ position \in Int /\ speed \in Int
         /\ base = [at |-> base.at, dir |-> base.dir]
  BY TimelinesAssumption DEF TimelineTypeOK

\* Nothing has been met where a stretch begins.
LEMMA StretchBegins ==
  ASSUME TimelineTypeOK, NEW p \in Int, position' = p, NewStretch(p)
  PROVE  /\ base' \in [at : Int, dir : {-1, 1}] /\ stretch' \in Seq(Nat)
         /\ Onward' /\ StretchInv'
<1>1. p \in Int /\ base.dir \in {-1, 1}
  BY BaseFacts, TimelinesAssumption
<1>2. base' = [at |-> p, dir |-> base.dir] /\ stretch' = <<>>
  BY BaseFacts DEF NewStretch, TimelineTypeOK
<1>3. base'.at = p /\ base'.dir = base.dir
  BY <1>2
<1>4. Onward'
  BY <1>1, <1>3 DEF Onward
<1>5. ASSUME index' \in Timeline, NEW m PROVE m \notin Between(index', p, p, base.dir)
  <2> SUFFICES ASSUME m \in Between(index', p, p, base.dir) PROVE FALSE
    OBVIOUS
  <2>1. /\ m \in Moment(index') /\ base.dir * (Time(index', m) - p) >= 0
        /\ base.dir * (p - Time(index', m)) > 0
    BY Zenon DEF Between
  <2>2. Time(index', m) \in Int
    BY <1>5, <2>1, TimelineFacts
  <2> QED BY <1>1, <2>1, <2>2
<1>6. StretchInv'
  BY <1>2, <1>3, <1>5 DEF StretchInv
<1> QED BY <1>1, <1>2, <1>4, <1>6

\* A stretch goes on from where it has come to.
LEMMA StretchGoesOn ==
  ASSUME NEW t \in Timeline, NEW at \in Int, NEW p \in Int, NEW q \in Int, NEW dir \in {-1, 1},
         dir * (p - at) >= 0, dir * (q - p) >= 0, NEW m
  PROVE  m \in Between(t, at, q, dir) <=> m \in Between(t, at, p, dir) \/ m \in Between(t, p, q, dir)
<1>1. CASE m \in Moment(t)
  <2>1. Time(t, m) \in Int
    BY <1>1, TimelineFacts
  <2> DEFINE x == Time(t, m)
  <2> HIDE DEF x
  <2>2. ASSUME NEW a \in Int, NEW b \in Int
        PROVE  m \in Between(t, a, b, dir) <=> dir * (x - a) >= 0 /\ dir * (b - x) > 0
    BY <1>1 DEF Between, x
  <2>3. x \in Int
    BY <2>1 DEF x
  <2>4. dir * (x - at) >= 0 /\ dir * (q - x) > 0
        <=> \/ dir * (x - at) >= 0 /\ dir * (p - x) > 0
            \/ dir * (x - p) >= 0 /\ dir * (q - x) > 0
    <3>1. CASE dir = 1
      BY <2>3, <3>1
    <3>2. CASE dir = -1
      BY <2>3, <3>2
    <3> QED BY <3>1, <3>2
  <2> QED BY <2>2, <2>4
<1>2. CASE m \notin Moment(t)
  BY <1>2 DEF Between
<1> QED BY <1>1, <1>2

\* The initial states satisfy the invariant: no moment lies between 0 and 0.
LEMMA TimelineBegins == TimelineInit => TimelineInv
<1> SUFFICES ASSUME TimelineInit PROVE TimelineInv
  OBVIOUS
<1>1. TimelineTypeOK
  <2>1. 0 \in Int /\ Unit \in Int /\ 0 \in 0..MaxCalls /\ <<>> \in Seq(Nat)
    BY TimelinesAssumption
  <2>2. [at |-> 0, dir |-> 1] \in [at : Int, dir : {-1, 1}]
    OBVIOUS
  <2> QED BY <2>1, <2>2 DEF TimelineInit, TimelineTypeOK
<1>2. Onward
  BY DEF TimelineInit, Onward
<1>3. ASSUME index \in Timeline, NEW m PROVE m \notin Between(index, base.at, position, base.dir)
  <2> SUFFICES ASSUME m \in Between(index, base.at, position, base.dir) PROVE FALSE
    OBVIOUS
  <2>1. base.at = 0 /\ base.dir = 1 /\ position = 0
    BY DEF TimelineInit
  <2>2. m \in Between(index, 0, 0, 1)
    BY <2>1
  <2>3. m \in Moment(index) /\ 1 * (Time(index, m) - 0) >= 0 /\ 1 * (0 - Time(index, m)) > 0
    BY <2>2, Zenon DEF Between
  <2>4. Time(index, m) \in Int
    BY <1>3, <2>3, TimelineFacts
  <2> QED BY <2>3, <2>4
<1>4. stretch = <<>>
  BY DEF TimelineInit
<1>5. StretchInv
  BY <1>3, <1>4 DEF StretchInv
<1> QED BY <1>1, <1>2, <1>5 DEF TimelineInv

\* The moments of a turn are added to a stretch, or begin one.
LEMMA AdvanceStep ==
  ASSUME TimelineInv, Advance PROVE TimelineInv'
<1> DEFINE a == Advanced(index, position, speed)
           dir == Direction(speed)
           q == position + speed
<1>1. /\ index \in Timeline /\ speed # 0 /\ pc = "rest"
      /\ a.position \in Int
      /\ position' = a.position /\ speed' = a.speed /\ todo' = a.ids /\ pc' = "moments"
      /\ IF base.dir = dir
         THEN base' = base /\ stretch' = stretch \o a.ids
         ELSE base' = [at |-> position, dir |-> dir] /\ stretch' = a.ids
      /\ owner' = index
      /\ UNCHANGED <<index, running, looping, calls, given>>
  BY DEF Advance, Moving
<1>2. /\ base.at \in Int /\ base.dir \in {-1, 1} /\ position \in Int /\ speed \in Int
      /\ base = [at |-> base.at, dir |-> base.dir]
  BY BaseFacts DEF TimelineInv
<1>3. dir \in {-1, 1} /\ q \in Int /\ dir * (q - position) >= 0
  <2>1. dir \in {-1, 1} /\ (dir = 1 <=> speed >= 0)
    BY <1>2, DirectionIs
  <2> HIDE DEF dir
  <2> QED BY <1>2, <2>1
<1>4. /\ a.position = q
      /\ a.speed \in Int
      /\ a.ids \in Seq(Moment(index))
      /\ \A m : m \in Between(index, position, q, dir) <=> \E k \in 1..Len(a.ids) : m = a.ids[k]
      /\ \A j, k \in 1..Len(a.ids) : j < k => dir * (a.ids[k] - a.ids[j]) > 0
  BY <1>1, <1>2, Advancing, Zenon
<1>5. stretch \in Seq(Nat) /\ Moment(index) \subseteq Nat
  BY <1>1, TimelineFacts DEF TimelineInv, TimelineTypeOK
<1> HIDE DEF a, dir, q
<1>6. a.ids \in Seq(Nat)
  BY <1>4, <1>5
<1>7. TimelineTypeOK'
  <2>1. stretch' \in Seq(Nat) /\ base' \in [at : Int, dir : {-1, 1}]
    <3>1. CASE base.dir = dir
      <4>1. stretch \o a.ids \in Seq(Nat)
        BY <1>5, <1>6
      <4>2. base \in [at : Int, dir : {-1, 1}]
        BY DEF TimelineInv, TimelineTypeOK
      <4> QED BY <1>1, <3>1, <4>1, <4>2
    <3>2. CASE base.dir # dir
      BY <1>1, <1>2, <1>3, <1>6, <3>2
    <3> QED BY <3>1, <3>2
  <2> QED BY <1>1, <1>4, <1>6, <2>1 DEF TimelineInv, TimelineTypeOK
<1>8. Onward'
  <2>1. base.dir * (position - base.at) >= 0
    BY DEF TimelineInv, Onward
  <2>2. CASE base.dir = dir
    <3>1. base'.at = base.at /\ base'.dir = dir /\ position' = q
      BY <1>1, <1>4, <2>2
    <3> QED BY <1>2, <1>3, <2>1, <2>2, <3>1 DEF Onward
  <2>3. CASE base.dir # dir
    <3>1. base'.at = position /\ base'.dir = dir /\ position' = q
      BY <1>1, <1>4, <2>3
    <3> QED BY <1>3, <3>1 DEF Onward
  <2> QED BY <2>2, <2>3
<1>9. StretchInv'
  <2>1. CASE base.dir # dir
    <3>1. base'.at = position /\ base'.dir = dir /\ position' = q /\ stretch' = a.ids /\ index' = index
      BY <1>1, <1>4, <2>1
    <3> QED BY <1>4, <3>1 DEF StretchInv
  <2>2. CASE base.dir = dir
    <3> DEFINE n == Len(stretch)
               l == Len(a.ids)
    <3>1. base'.at = base.at /\ base'.dir = dir /\ position' = q
          /\ stretch' = stretch \o a.ids /\ index' = index
      BY <1>1, <1>4, <2>2
    <3>2. /\ n \in Nat /\ l \in Nat /\ Len(stretch') = n + l
          /\ \A k \in 1..n : stretch'[k] = stretch[k]
          /\ \A k \in n+1..n+l : stretch'[k] = a.ids[k - n]
      BY <1>5, <1>6, <3>1
    <3>3. /\ \A m : m \in Between(index, base.at, position, dir)
                    <=> \E k \in 1..n : m = stretch[k]
          /\ \A j, k \in 1..n : j < k => dir * (stretch[k] - stretch[j]) > 0
      BY <1>1, <2>2 DEF TimelineInv, StretchInv
    <3>4. dir * (position - base.at) >= 0
      BY <2>2 DEF TimelineInv, Onward
    <3>5. ASSUME NEW m
          PROVE  m \in Between(index, base.at, q, dir) <=> \E k \in 1..n+l : m = stretch'[k]
      <4>1. m \in Between(index, base.at, q, dir)
            <=> \/ m \in Between(index, base.at, position, dir)
                \/ m \in Between(index, position, q, dir)
        BY <1>1, <1>2, <1>3, <3>4, StretchGoesOn
      <4>2. m \in Between(index, base.at, position, dir) => \E k \in 1..n+l : m = stretch'[k]
        <5> SUFFICES ASSUME m \in Between(index, base.at, position, dir)
                     PROVE  \E k \in 1..n+l : m = stretch'[k]
          OBVIOUS
        <5>1. PICK k \in 1..n : m = stretch[k]
          BY <3>3
        <5>2. k \in 1..n+l /\ m = stretch'[k]
          BY <3>2, <5>1
        <5> QED BY <5>2
      <4>3. m \in Between(index, position, q, dir) => \E k \in 1..n+l : m = stretch'[k]
        <5> SUFFICES ASSUME m \in Between(index, position, q, dir)
                     PROVE  \E k \in 1..n+l : m = stretch'[k]
          OBVIOUS
        <5>1. PICK k \in 1..l : m = a.ids[k]
          BY <1>4
        <5>2. n + k \in n+1..n+l /\ n + k \in 1..n+l /\ (n + k) - n = k
          BY <3>2
        <5>3. m = stretch'[n + k]
          BY <3>2, <5>1, <5>2
        <5> QED BY <5>2, <5>3
      <4>4. ASSUME NEW k \in 1..n+l, m = stretch'[k]
            PROVE  m \in Between(index, base.at, position, dir) \/ m \in Between(index, position, q, dir)
        <5>1. CASE k \in 1..n
          BY <3>2, <3>3, <4>4, <5>1
        <5>2. CASE k \notin 1..n
          <6>1. k \in n+1..n+l /\ k - n \in 1..l
            BY <3>2, <5>2
          <6>2. m = a.ids[k - n]
            BY <3>2, <4>4, <6>1
          <6> QED BY <1>4, <6>1, <6>2
        <5> QED BY <5>1, <5>2
      <4> QED BY <4>1, <4>2, <4>3, <4>4
    <3>6. ASSUME NEW j \in 1..n+l, NEW k \in 1..n+l, j < k
          PROVE  dir * (stretch'[k] - stretch'[j]) > 0
      <4>1. CASE k \in 1..n
        <5>1. j \in 1..n
          BY <3>2, <3>6, <4>1
        <5> QED BY <3>2, <3>3, <3>6, <4>1, <5>1
      <4>2. CASE j \notin 1..n
        <5>1. j - n \in 1..l /\ k - n \in 1..l /\ j - n < k - n /\ j \in n+1..n+l /\ k \in n+1..n+l
          BY <3>2, <3>6, <4>2
        <5> QED BY <1>4, <3>2, <5>1
      <4>3. CASE j \in 1..n /\ k \notin 1..n
        <5>1. k - n \in 1..l /\ k \in n+1..n+l
          BY <3>2, <3>6, <4>3
        <5>2. /\ stretch'[j] \in Between(index, base.at, position, dir)
              /\ stretch'[k] \in Between(index, position, q, dir)
          BY <1>4, <3>2, <3>3, <4>3, <5>1
        <5> DEFINE x == stretch'[j] y == stretch'[k]
        <5> HIDE DEF x, y
        <5>3. /\ x \in Moment(index) /\ y \in Moment(index)
              /\ dir * (position - Time(index, x)) > 0 /\ dir * (Time(index, y) - position) >= 0
          BY <5>2 DEF Between, x, y
        <5>4. x \in Nat /\ y \in Nat /\ Time(index, x) \in Nat /\ Time(index, y) \in Nat
              /\ (x < y => Time(index, x) < Time(index, y))
              /\ (y < x => Time(index, y) < Time(index, x))
          BY <1>1, <1>5, <5>3, TimelineFacts
        <5>5. dir * (y - x) > 0
          <6> DEFINE u == Time(index, x) v == Time(index, y)
          <6>1. u # v => x # y
            OBVIOUS
          <6> HIDE DEF u, v
          <6>2. CASE dir = 1
            BY <1>2, <5>3, <5>4, <6>1, <6>2 DEF u, v
          <6>3. CASE dir = -1
            BY <1>2, <5>3, <5>4, <6>1, <6>3 DEF u, v
          <6> QED BY <1>3, <6>2, <6>3
        <5> QED BY <5>5 DEF x, y
      <4> QED BY <4>1, <4>2, <4>3
    <3> QED BY <3>1, <3>2, <3>5, <3>6 DEF StretchInv
  <2> QED BY <2>1, <2>2
<1> QED BY <1>7, <1>8, <1>9 DEF TimelineInv

\* Looping stays within the bound.
LEMMA LoopedType ==
  ASSUME NEW t \in Timeline, NEW p \in Int, NEW s \in Int
  PROVE  Looped(t, p, s) \in Int
<1>1. Last(t) \in Int
  BY TimelineFacts
<1> QED BY <1>1 DEF Looped

\* The End Step event leaves the position alone, or begins a stretch where the
\* lap begins.
LEMMA EndStepInv ==
  ASSUME TimelineInv, EndStepEvent PROVE TimelineInv'
<1>1. /\ pc' = "rest" /\ todo = <<>>
      /\ position' = IF Moving /\ looping THEN Looped(index, position, speed) ELSE position
      /\ IF position' = position THEN UNCHANGED <<base, stretch>> ELSE NewStretch(position')
      /\ UNCHANGED <<index, running, speed, looping, todo, calls, owner, given>>
  BY DEF EndStepEvent, EndStepLeaving
<1>2. position \in Int /\ speed \in Int
  BY DEF TimelineInv, TimelineTypeOK
<1>3. position' \in Int
  BY <1>1, <1>2, LoopedType DEF Moving
<1>4. CASE position' = position
  <2>1. UNCHANGED <<base, stretch, position, index>>
    BY <1>1, <1>4
  <2>2. TimelineTypeOK'
    BY <1>1, <1>3, <2>1 DEF TimelineInv, TimelineTypeOK
  <2> QED BY <2>1, <2>2 DEF TimelineInv, Onward, StretchInv
<1>5. CASE position' # position
  <2>1. /\ base' \in [at : Int, dir : {-1, 1}] /\ stretch' \in Seq(Nat)
        /\ Onward' /\ StretchInv'
    BY <1>1, <1>3, <1>5, StretchBegins DEF TimelineInv
  <2>2. TimelineTypeOK'
    BY <1>1, <1>3, <2>1 DEF TimelineInv, TimelineTypeOK
  <2> QED BY <2>1, <2>2 DEF TimelineInv
<1> QED BY <1>4, <1>5

\* What code assigns begins a stretch, or leaves the position alone.
LEMMA CallInv ==
  ASSUME TimelineInv, Call,
         index' \in Timeline \cup {None}, running' \in BOOLEAN, looping' \in BOOLEAN,
         speed' \in Int, given' \in Int, position' \in Int,
         NewStretch(position') \/ UNCHANGED <<index, position, base, stretch>>
  PROVE  TimelineInv'
<1>1. calls' \in 0..MaxCalls /\ UNCHANGED <<pc, todo, owner>>
  BY TimelinesAssumption DEF Call, TimelineInv, TimelineTypeOK
<1>2. CASE NewStretch(position')
  <2>1. /\ base' \in [at : Int, dir : {-1, 1}] /\ stretch' \in Seq(Nat)
        /\ Onward' /\ StretchInv'
    BY <1>2, StretchBegins DEF TimelineInv
  <2> QED BY <1>1, <2>1 DEF TimelineInv, TimelineTypeOK
<1>3. CASE UNCHANGED <<index, position, base, stretch>>
  BY <1>1, <1>3 DEF TimelineInv, TimelineTypeOK, Onward, StretchInv
<1> QED BY <1>2, <1>3

\* Every step keeps the invariant.
LEMMA TimelineStep == TimelineInv /\ [TimelineNext]_timelineVars => TimelineInv'
<1> SUFFICES ASSUME TimelineInv, [TimelineNext]_timelineVars PROVE TimelineInv'
  OBVIOUS
<1>0. /\ index \in Timeline \cup {None} /\ running \in BOOLEAN /\ looping \in BOOLEAN
      /\ speed \in Int /\ given \in Int /\ position \in Int
      /\ 0 \in Int /\ Positions \subseteq Int /\ TimelineSpeeds \subseteq Int
  BY TimelinesAssumption DEF TimelineInv, TimelineTypeOK
<1>1. CASE Advance
  BY <1>1, AdvanceStep
<1>2. CASE Rest
  BY <1>2 DEF Rest, historyVars, TimelineInv, TimelineTypeOK, Onward, StretchInv
<1>3. CASE CallMoment
  <2>1. todo \in Seq(Nat) /\ todo # <<>> /\ todo' = Tail(todo)
    BY <1>3 DEF CallMoment, TimelineInv, TimelineTypeOK
  <2>2. todo' \in Seq(Nat)
    BY <2>1
  <2>3. pc' \in {"moments", "code"}
    BY <1>3 DEF CallMoment
  <2> QED BY <1>3, <2>2, <2>3 DEF CallMoment, historyVars, TimelineInv, TimelineTypeOK, Onward, StretchInv
<1>4. CASE EndStepEvent
  BY <1>4, EndStepInv
<1>5. CASE BoundReached \/ UNCHANGED timelineVars
  BY <1>5 DEF BoundReached, timelineVars, TimelineInv, TimelineTypeOK, Onward, StretchInv
<1>6. ASSUME NEW t \in Timeline \cup {None}, NEW p \in Positions, NEW start \in BOOLEAN,
             NEW loop \in BOOLEAN, SetTimeline(t, p, start, loop)
      PROVE  TimelineInv'
  BY <1>0, <1>6, CallInv DEF SetTimeline
<1>7. ASSUME NEW t \in Timeline \cup {None}, SetIndex(t) PROVE TimelineInv'
  BY <1>0, <1>7, CallInv DEF SetIndex
<1>8. CASE StopTimeline
  BY <1>0, <1>8, CallInv DEF StopTimeline
<1>9. ASSUME NEW p \in Positions, SetPosition(p) PROVE TimelineInv'
  BY <1>0, <1>9, CallInv DEF SetPosition
<1>10. ASSUME NEW s \in TimelineSpeeds, SetSpeed(s) PROVE TimelineInv'
  BY <1>0, <1>10, CallInv DEF SetSpeed
<1>11. ASSUME NEW r \in BOOLEAN, SetRunning(r) PROVE TimelineInv'
  BY <1>0, <1>11, CallInv DEF SetRunning, historyVars
<1> QED BY <1>1, <1>2, <1>3, <1>4, <1>5, <1>6, <1>7, <1>8, <1>9, <1>10, <1>11 DEF TimelineNext

\* The inductive invariant holds: types, the stretch leads the way it goes, and
\* it has passed exactly the moments on the way, in order.
THEOREM TimelineInvariant == TimelineSpec => []TimelineInv
  BY TimelineBegins, TimelineStep, PTL DEF TimelineSpec

\* The variables of a timeline have their types.
THEOREM TimelineTypes == TimelineSpec => []TimelineTypeOK
<1>1. TimelineInv => TimelineTypeOK
  BY DEF TimelineInv
<1> QED BY <1>1, TimelineInvariant, PTL

\* However many turns it takes, at whatever speeds of one direction, a stretch
\* passes every moment on its way once and in order.  (advance_curr_timeline)
THEOREM MomentsPassed == TimelineSpec => []NoneSkipped
<1>1. TimelineInv => NoneSkipped
  BY StretchSkipsNone DEF TimelineInv
<1> QED BY <1>1, TimelineInvariant, PTL

\* A lap that is begun anew.
Lap == EndStepEvent /\ position' # position /\ base.dir = Direction(speed)
         => \A m \in Moment(index) : base.dir * (Time(index, m) - base.at) >= 0
              => \E k \in 1..Len(stretch) : stretch[k] = m

\* A lap begins anew only when every moment ahead of where it began has been
\* passed.  (loop_curr_timeline)
THEOREM LapsComplete == TimelineSpec => LapComplete
<1>1. TimelineInv => Lap
  <2> SUFFICES ASSUME TimelineInv, EndStepEvent, position' # position, base.dir = Direction(speed),
                      NEW m \in Moment(index), base.dir * (Time(index, m) - base.at) >= 0
               PROVE  \E k \in 1..Len(stretch) : stretch[k] = m
    BY DEF Lap
  <2>1. index \in Timeline /\ position' = Looped(index, position, speed)
    BY DEF EndStepEvent, EndStepLeaving, Moving
  <2>2. base.dir \in {-1, 1} /\ position \in Int /\ speed \in Int /\ (base.dir = 1 <=> speed >= 0)
    BY BaseFacts, DirectionIs DEF TimelineInv
  <2>3. IF speed >= 0 THEN position > Last(index) ELSE position < 0
    BY <2>1, <2>2 DEF Looped
  <2>4. Time(index, m) \in Nat /\ Time(index, m) <= Last(index) /\ Last(index) \in Nat
    <3>1. m \in 1..Len(Moments[index]) /\ Len(Moments[index]) \in Moment(index)
      BY <2>1, TimelineFacts
    <3>2. m = Len(Moments[index]) \/ m < Len(Moments[index])
      BY <2>1, <3>1, TimelineFacts
    <3> QED BY <2>1, <3>1, <3>2, TimelineFacts
  <2>5. base.dir * (position - Time(index, m)) > 0
    BY <2>2, <2>3, <2>4
  <2>6. m \in Between(index, base.at, position, base.dir)
    BY <2>5 DEF Between
  <2> QED BY <2>1, <2>6 DEF TimelineInv, StretchInv
<1>2. TimelineInv /\ [TimelineNext]_timelineVars => [Lap]_timelineVars
  BY <1>1
<1> QED BY <1>2, TimelineInvariant, PTL DEF TimelineSpec, LapComplete, Lap
=============================================================================
