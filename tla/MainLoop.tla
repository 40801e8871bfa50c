------------------------------ MODULE MainLoop ------------------------------
(***************************************************************************)
(* The main loop of a game: the timer that keeps it at room_speed, the     *)
(* events of the window, pausing, the step, and the input a step sees.     *)
(***************************************************************************)
EXTENDS Integers

CONSTANTS
  Second,    \* a second, in units of time
  Catchup,   \* catchup_limit_ms
  Speeds,    \* the room speeds games set; 0 is as fast as possible
  MaxStall,  \* Bound: what passes at most between two calls of updateTimer
  MaxPassed  \* Bound: how far the clock is ahead of timer_offset

ASSUME ConstantsAssumption ==
  /\ Second \in Nat \ {0} /\ Catchup \in Nat /\ Speeds \subseteq Nat
  /\ MaxStall \in Nat /\ MaxPassed \in Nat

VARIABLES
  passed,      \* the time since timer_offset
  slowed,      \* the time since timer_offset_slowing
  slept,       \* the last call of updateTimer, or gameWait, has slept
  frames_count, room_speed,
  focused,     \* game_window_focused
  freeze,      \* freezeOnLoseFocus
  pausedSteps,
  key, lastKey,\* keybdstatus and last_keybdstatus of one key
  phase,       \* where the loop is: "timer", "events", "step", "io", "ended"
  ahead,       \* history: the time steps at this room_speed stand for, less
               \* the time that has passed
  was,         \* history: key when input was last pushed or cleared
  changes      \* history: what has happened to the key since, 2 for more

timer == <<passed, slowed, slept, frames_count, room_speed, ahead>>
input == <<key, lastKey, was, changes>>
window == <<focused, freeze, pausedSteps>>
vars == <<timer, input, window, phase>>

Init ==
  /\ passed = 0 /\ slowed = 0 /\ slept = FALSE
  /\ frames_count = 0 /\ room_speed \in Speeds /\ ahead = 0
  /\ focused = TRUE /\ freeze \in BOOLEAN /\ pausedSteps = 0
  /\ key = FALSE /\ lastKey = FALSE /\ was = FALSE /\ changes = 0
  /\ phase = "timer"

-----------------------------------------------------------------------------
(* The timer                                                               *)

\* get_current_offset_difference_mcs
Clamped(t) == IF t > Second THEN Second ELSE t

\* needed_mcs: what is left to do, rounded towards 0.
Needed(frames) ==
  LET left == Second * (room_speed - frames)
  IN  IF left < 0 THEN -((-left) \div room_speed) ELSE left \div room_speed

\* Mutant: the offset is not advanced.
NotSlowed(t, frames) == t

\* Mutant: it is moved the wrong way.
SlowedBack(t, frames) ==
  LET lag == Needed(frames) - (Second - Clamped(t)) - Catchup
  IN  IF room_speed > 0 /\ lag > 0 THEN t + lag ELSE t

\* How far the loop lags beyond Catchup is taken off the time passed.
Slowed(t, frames) ==
  LET lag == Needed(frames) - (Second - Clamped(t)) - Catchup
  IN  IF room_speed > 0 /\ lag > 0 THEN t - lag ELSE t

Early(t, frames) == room_speed > 0 /\ Second - Clamped(t) > Needed(frames)

\* Mutant: the count goes on.
FramesKept(reset) == frames_count

Frames(reset) == IF reset THEN 0 ELSE frames_count

\* updateTimer, when d has passed since it was called last.  The time passed is
\* clamped to a second before whole seconds are taken off it.  A step that has
\* no limit takes time as well.
UpdateTimer(d) ==
  /\ phase = "timer" /\ passed + d <= MaxPassed
  /\ slept \/ room_speed = 0 => d > 0
  /\ LET reset == passed + d >= Second
         frames == Frames(reset)
         t == Slowed(IF reset THEN passed + d - Second ELSE slowed + d, frames)
     IN /\ passed' = IF reset THEN passed + d - Second ELSE passed + d
        /\ slowed' = t
        /\ frames_count' = frames
        /\ slept' = Early(t, frames)
        /\ phase' = IF Early(t, frames) THEN "timer" ELSE "events"
  /\ ahead' = IF ahead > d THEN ahead - d ELSE 0
  /\ UNCHANGED <<room_speed, window, input>>

-----------------------------------------------------------------------------
(* Events of the window, in the main loop or from io_handle                *)

Polling == phase \in {"events", "io"}
Changed == changes' = IF changes = 0 THEN 1 ELSE 2

\* input_key_down, input_key_up
KeyEvent(down) ==
  /\ Polling
  /\ lastKey' = key /\ key' = down
  /\ Changed
  /\ UNCHANGED <<timer, window, was, phase>>

\* platform_focus_lost
FocusLost ==
  /\ Polling
  /\ focused' = FALSE
  /\ lastKey' = key /\ key' = FALSE
  /\ Changed
  /\ UNCHANGED <<timer, freeze, pausedSteps, was, phase>>

\* platform_focus_gained, input_initialize
FocusGained ==
  /\ Polling
  /\ focused' = TRUE /\ pausedSteps' = 0
  /\ lastKey' = FALSE /\ key' = FALSE
  /\ changes' = 2
  /\ UNCHANGED <<timer, freeze, was, phase>>

\* The window is closed.  io_handle ignores what handleEvents says.
Close ==
  /\ Polling
  /\ phase' = IF phase = "io" THEN "step" ELSE "ended"
  /\ UNCHANGED <<timer, window, input>>

Paused == ~focused /\ freeze

\* Mutant: input is pushed whether there is a step or not.
GameWaitPushes ==
  /\ phase = "events"
  /\ IF Paused /\ pausedSteps >= 1
     THEN /\ phase' = "timer" /\ slept' = TRUE
          /\ UNCHANGED <<pausedSteps, frames_count, ahead>>
     ELSE /\ phase' = "step" /\ slept' = FALSE
          /\ pausedSteps' = IF Paused THEN pausedSteps + 1 ELSE pausedSteps
          /\ frames_count' = frames_count + 1
          /\ ahead' = IF room_speed = 0 THEN 0 ELSE ahead + Second \div room_speed
  /\ lastKey' = key
  /\ UNCHANGED <<passed, slowed, room_speed, focused, freeze, key, was, changes>>

\* gameWait, when there are no more events: a game that is paused runs one more
\* step and then sleeps.
GameWait ==
  /\ phase = "events"
  /\ IF Paused /\ pausedSteps >= 1
     THEN /\ phase' = "timer" /\ slept' = TRUE
          /\ UNCHANGED <<pausedSteps, frames_count, ahead>>
     ELSE /\ phase' = "step" /\ slept' = FALSE
          /\ pausedSteps' = IF Paused THEN pausedSteps + 1 ELSE pausedSteps
          /\ frames_count' = frames_count + 1
          /\ ahead' = IF room_speed = 0 THEN 0 ELSE ahead + Second \div room_speed
  /\ UNCHANGED <<passed, slowed, room_speed, focused, freeze, input>>

-----------------------------------------------------------------------------
(* The step                                                                *)

Pressed == key /\ ~lastKey
Released == ~key /\ lastKey

\* input_push
Push == lastKey' = key /\ was' = key /\ changes' = 0

\* window_set_freezeonlosefocus
SetFreeze(on) ==
  /\ phase = "step"
  /\ freeze' = on
  /\ UNCHANGED <<timer, focused, pausedSteps, input, phase>>

\* io_clear, keyboard_clear
IoClear ==
  /\ phase = "step"
  /\ key' = FALSE /\ lastKey' = FALSE /\ was' = FALSE /\ changes' = 0
  /\ UNCHANGED <<timer, window, phase>>

IoHandle ==
  /\ phase = "step"
  /\ Push
  /\ phase' = "io"
  /\ UNCHANGED <<timer, window, key>>

IoHandled ==
  /\ phase = "io"
  /\ phase' = "step"
  /\ UNCHANGED <<timer, window, input>>

\* ENIGMA_events sets the speed of the room; handleInput follows.  Code may have
\* called game_end.
EndStep(speed) ==
  /\ phase = "step"
  /\ room_speed' = speed
  /\ ahead' = IF speed = room_speed THEN ahead ELSE 0
  /\ Push
  /\ phase' \in {"timer", "ended"}
  /\ UNCHANGED <<passed, slowed, slept, frames_count, window, key>>

Ended == phase = "ended" /\ UNCHANGED vars

Next ==
  \/ \E d \in 0..MaxStall : UpdateTimer(d)
  \/ \E down \in BOOLEAN : KeyEvent(down)
  \/ FocusLost \/ FocusGained \/ Close \/ GameWait
  \/ \E on \in BOOLEAN : SetFreeze(on)
  \/ IoClear \/ IoHandle \/ IoHandled
  \/ \E speed \in Speeds : EndStep(speed)
  \/ Ended

Spec == Init /\ [][Next]_vars

\* The loop goes on: time passes, there is an end to the events that are
\* waiting, and event code returns.
FairSpec ==
  /\ Spec
  /\ WF_vars(\E d \in 0..MaxStall : UpdateTimer(d)) /\ WF_vars(GameWait)
  /\ WF_vars(IoHandled) /\ SF_vars(\E speed \in Speeds : EndStep(speed))

-----------------------------------------------------------------------------
\* The type of every variable: neither time is negative, whatever is taken off.
TypeOK ==
  /\ passed \in 0..MaxPassed /\ slowed \in Int /\ slowed <= passed /\ slowed >= 0
  /\ frames_count \in Nat /\ room_speed \in Speeds /\ ahead \in Nat
  /\ pausedSteps \in 0..1
  /\ slept \in BOOLEAN /\ focused \in BOOLEAN /\ freeze \in BOOLEAN
  /\ key \in BOOLEAN /\ lastKey \in BOOLEAN /\ was \in BOOLEAN
  /\ changes \in 0..2 /\ phase \in {"timer", "events", "step", "io", "ended"}


\* "The game will only run too fast for catchup_limit ms": however the load
\* comes and goes, the steps run are never ahead of the clock by more than
\* that, the step itself and one that a full second makes free.  (updateTimer)
NotTooFast == room_speed > 0 => ahead <= Catchup + 2 * (Second \div room_speed)

\* What happens once to a key between two steps is seen as pressed or released
\* by the second, however often the loop turns in between without a step, and
\* what does not happen is not seen.  (input_push, gameWait, updateTimer)
EdgeSeen ==
  phase = "step" =>
    /\ changes <= 1 => lastKey = was
    /\ changes = 0 => ~Pressed /\ ~Released

\* The game goes on, unless it is paused or ends: the timer never waits for ever.
StepsGoOn == []<>(phase = "step" \/ Paused \/ phase = "ended")
=============================================================================
