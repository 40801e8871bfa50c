---------------------------- MODULE DialogQueue ----------------------------
(***************************************************************************)
(* What the asynchronous dialogs promise: the dialogs that code asks for   *)
(* are shown one at a time, in the order they were asked for, and after    *)
(* each the Async Dialog event is fired, once.                             *)
(***************************************************************************)
EXTENDS Integers

VARIABLES
  queued,  \* dialogs asked for
  shown,   \* dialogs shown so far
  fired    \* dialogs whose event was fired

Init == queued = 0 /\ shown = 0 /\ fired = 0

Queue == queued' = queued + 1 /\ UNCHANGED <<shown, fired>>

Show ==
  /\ shown = fired /\ shown < queued
  /\ shown' = shown + 1
  /\ UNCHANGED <<queued, fired>>

Fire ==
  /\ fired < shown
  /\ fired' = fired + 1
  /\ UNCHANGED <<queued, shown>>

Next == Queue \/ Show \/ Fire

Spec == Init /\ [][Next]_<<queued, shown, fired>>
=============================================================================
