# A verification of the ENIGMA runtime

ENIGMA (`README.md`, `ENIGMAsystem/`, `CompilerSource/`) compiles games: the
compiler translates the game's objects, events and rooms into C++ that is linked
with a runtime, the *SHELL* (`ENIGMAsystem/SHELL`).  This directory models the
part of the runtime that carries its logic: the main loop, the instance system,
the event loop, room changes, the draw lists, the batching of what is drawn, the
asynchronous dialogs, the timelines, motion planning and the packer of fonts,
each as a TLA+ module that TLC checks on small instances and that is proved about
for any size.

What is hard in this code is not concurrency in the usual sense.  Nearly
everything runs on one thread, but it runs *inside callbacks*: a loop over a
list of instances calls event code written by the author of the game, which may
create, destroy, deactivate or change any instance, the one whose code is
running included, call loops over the same lists, and ask for another room.
The modules let event code do all that between any two steps of any loop.

## 1  Inventory

| component | state it keeps | operations | interacts with |
|---|---|---|---|
| event lists and iterators (`Instances/instance_system*.{h,cpp}`) | intrusive lists (`event_iter`, `objectid_base`, the links of `instance_list`), the set of registered iterators | add_inst, unlink, operator++, handle_unlink | every loop of the runtime walks these lists |
| instances (`Instances/instance.cpp`, `instance_create.h`, generated `OBJ_*` classes of `write_object_data.cpp`) | `instance_list`, `instance_deactivated_list`, `cleanups`, `maxid`, counts | create, destroy, deactivate, activate, change, with() | calls Create and Destroy events, which call back |
| event sequence (generated by `write_defragged_events.cpp`) | `instance_event_iterator` | one loop per event, exit on a room request, disposal, `rooms_switch` | runs all event code |
| rooms (`roomsystem.{h,cpp}`) | `roomdata`, `roomorder`, `room`, `room_switching_id` | room_goto*, room_restart, game_restart, gotome, end, room_add, room_duplicate | destroys and constructs instances; Room End, Create, Game Start, Room Start events |
| depth and drawing (`Object_Tiers/graphics_object.cpp`, `GSscreen.cpp`, `depth_draw.*`) | one list per depth, pending depth changes, `depth` | assign depth, (de)activate, screen_redraw | Draw events; may be nested |
| asynchronous dialogs (`Extensions/Asynchronous/ASYNCdialog.cpp`) | job queue, `last_job`, `last_job_started`, the map `async_load` | queue_async_job, process_async_jobs | one thread per dialog; Async Dialog events |
| timelines (`Object_Tiers/timelines_object.cpp`, `actions.h`, `events.ey`) | five variables of an instance | advance, loop, assignments | moments are event code |
| main loop (`Platforms/General/PFmain.cpp`, `PFwindow.cpp`, `SHELLmain.cpp`) | `timer_offset*`, `frames_count`, focus, `pausedSteps`, the status of keys and buttons | updateTimer, handleEvents, gameWait, input_push, io_handle, io_clear, game_ending | calls all of the above; events of the window |
| drawing state and batches (`Graphics_Systems/General/GSprimitives.cpp`, `GSstdraw.cpp`, `GSmodel.cpp`, `OpenGL-Common`, `OpenGL3`) | render state variables, `drawStateDirty`, `draw_batch_dirty`, `draw_batch_mode`, the batch model, the device | setters, begin/end of primitives, flushes, submits, readbacks | Draw events; the device keeps state of its own (bindings, uniforms of a program) |
| font and texture packing (`shared/rectpacker`, `fontstruct.cpp`, `ttf.cpp`, `module_write_fonts.cpp`) | the tree of rectangles, sides of the texture | rninsert, rncopy, expand | called while resources are loaded, and by the compiler |
| motion planning (`Extensions/MotionPlanning`) | grids of cells with costs, F, G, H, `came_from` | mp_grid_create, mp_grid_path | writes the points of a path |
| alarms, collisions, motion, paths, particles, data structures | variables of instances, containers | | event code |
| compiler, JDI, project readers, emake | | batch translation | writes the generated code above |
| graphics, audio, window, widget, network, process back ends | | calls into the system | |

What makes each correct, beyond its types: a walk neither leaves its list nor
misses or repeats an instance; an instance is linked, deactivated or destroyed
and never two of these; an id names one instance; a room change reaches every
instance once and leaves only persistent ones; a request is consumed and cuts
the step; an instance is in one draw list, the one of its depth, and drawn once;
dialogs come one at a time, in order, with their own answers; a timeline runs
every moment it passes once; what is batched looks as if it had been drawn at
once; glyphs do not overlap; a path leads where it says; steps keep to the room
speed, and input reaches one of them.  The hazards behind these, each with its line, are
in `PROJECT.json`.

## 2  Modules

Names of actions are those of the functions, or say which part of a function
they are (`DestroyTurn`, `DestroyUnlink`: one turn of the loop of
`instance_destroy`, before and after the Destroy event).  Operators whose
comment begins with "Mutant" are not part of a specification: each is a faulty
variant of the operation next to it, with which some property fails.

**EventIter** - one list, the event loop on it (a raw pointer, `cur`), and
registered iterators (`it`).  `next`/`prev` are the pointers of the root and of
the nodes, which are numbered in order of allocation and keep their pointers
when unlinked, as in the code, where they are freed only after the step.
`Unlink` is `event_iter::unlink` with `update_iterators_for_destroy`; the event
bodies are arbitrary.  `start`, `bound`, `ran` record what a pass had to do and
did.

**InstanceSystem** - the calls event code makes, on all three kinds of lists.
The C++ stack is the variable `stack`: event code (`code`), the event loop, with(),
and the loops of destroy, deactivate, activate and change, each with its
iterator.  Only the top frame moves, so Destroy and Create events run, and call,
in the middle of the loops that fired them.  An instance is a number in order of
construction; its id is a separate thing (`id`), since instance_change gives an
id a second time, and does not look whether it is free.  Two instances with one id
share an entry of instance_list, which each erases when it leaves; what the second
does then is undefined, and the model ends at the clash (`Clashed`).  Its event list and event loop implement EventIter
(`ImplementsEventIter`, a refinement that maps the pointers of the list "event").

**RoomSystem** - requests, `rooms_switch`, `roomstruct::end` and `gotome`, as the
phases `pc` goes through; event and room code runs in the phases of `Coding` and
may do anything it may do elsewhere.  `instance_list` is abstracted to the set of
linked ids, which InstanceSystem shows (`MainList`) it gives in ascending order,
and a registered iterator to `walk`: where it stands, and where its node points
if that was unlinked.

**DepthDraw** - the draw lists, with pending changes, nested redraws and room
requests.  `unlink` of a node through the root of another list is modelled as it is:
it only leaves that root alone.  `iter` is instance_event_iterator, the pointer of
the loop, which nothing repairs but draw_insts itself.  `frames` is the stack of
calls of draw_tiles: each has the depth it is at and its push_it, and `begun` and
`ran` record what it had to draw and what it came to.  While there are frames, what
event code does is done by the Draw event of the node the innermost came to last; a
redraw within it runs all its Draw events, and may nest further.  A room request
(`leaving`) takes the calls back one by one, and leaves `iter` where it is.
`stale` records that an id was activated with a request on file that is not for
its default depth: from then on the lists and the local depths may disagree.

**AsyncDialogs** - the main thread split at every point another actor can be seen
from (launch, poll, the event of each instance), a thread per job, and the stack
`fires` of event firings in progress.  Jobs are queued by the bodies of one pass
over the instances, of which `iterator` and `left` say where instance_event_iterator
stands, and by handlers; the firing puts the iterator on the dummy, and the pass
goes on from there.  (The event table calls the event `Dialog`, `events.ey:44`, while
`ASYNCdialog.cpp:50` calls `myevent_asyncdialog`: the model is of an event that
is called.)  **DialogQueue** says what the component
promises, in three actions; AsyncDialogs implements it with
`shown <- last (+1 if started)`, `fired <- last`.

**Timelines** - one timeline of one instance.  Positions and speeds are floating
point in the code; here they are integers in units, `Unit` of which make a step,
so that turns end between moments as well as on them.  The moments a turn passed
(`todo`, of the timeline `owner`) are looked up one by one in the timeline_index of
that time, which their own code may change.

**DrawBatch** - the two ways in which drawing is put off: render state that is only
sent when something is drawn (`dirty`, `cur`, `dev`), and primitives that are
collected in one model (`batch`, `stream`).  `uni` are the uniforms, which belong to
a program, and `unit0` the active texture unit, to which code binds textures in
passing.  `exact` turns FALSE when a program is set or a texture bound behind a clean
state, or a texture under a batch, and TRUE when the state is sent; what is drawn in
between is drawn with what happens to be in the device, and noted as not known.
**ImmediateMode** is the promise: everything is drawn at once, with the
state of its time, unless the state was changed behind its back; and a strip that
follows one of odd length may come out turned around, but never otherwise
(`d3d_model_primitive_end` joins the two).  DrawBatch implements it with
`screen <- drawn \o Pending`.

**RectPack** - the tree of the packer, as the sequence of its leaves from left to
right, which is the order in which rninsert tries them; cutting a leaf and growing
the plane keep the rest in order.  `Grow` has the unsigned shift and the conversion
to int, which overflow at `MaxInt`.

**MotionPlanning** - `find_path` on a grid with any costs, and the path that
mp_grid_path makes of it, or nothing if a point is outside.  `key` is what a cell was put into OPEN with: a better way
changes G and `came_from`, but not the key, as in the code.

**MainLoop** - one turn of the loop of `enigma_main` as the phases timer, events,
step; the time that passes between two calls of updateTimer is any up to
`MaxStall`; a step and its code are one action each for what they do to the loop
(`EndStep`, `IoHandle`, `IoClear`, `SetFreeze`).  Time is in units, `Second` of
which make a second; speeds divide it, so that needed_mcs is exact.

`MC*.tla` define the values of constants that a .cfg cannot write.

## 3  Runs

| run | question | bounds, and why they are enough |
|---|---|---|
| event_iter | Do the walks stay in the list, complete, without repetition, and end? | 4 nodes, 2 iterators: an unlinked chain of two between linked neighbours on either side; the proof covers the rest |
| instance_system | Are lists, ids and counts consistent under nested calls? | an object and its child, 3 room instances, 6 constructed in all, 9 activations, 3 calls, 6 frames: destroy within destroy within an event, reactivation in another order, change of a changed instance |
| depth_draw | Is every instance drawn once, at its depth? | 3 ids, one of them of a child object, 2 depths, 9 nodes, 6 calls: redraws three deep that move the current node and its neighbours, cut by a room request or not |
| room_system | Do room changes meet everyone, leave the right ones, and are requests consumed? | 2 rooms and one from room_add, 5 ids, 3 calls: a chain of two neighbours destroyed under the walk |
| async_dialogs | Order, one at a time, own answers, progress | 5 jobs, 3 instances: three nested firings |
| timelines | No moment skipped or repeated; laps complete | moments at 0, 1, 3 and at 2, speeds of both signs up to 2.5, 3 assignments; positions within 6 of 0 |
| draw_batch | Is batched drawing the same as drawing at once? | 2 states, 2 programs, 2 targets, a texture or none, 2 things drawn: one in the batch and one after it, with any state, mode or look in between; the proof covers the rest |
| rect_pack | Do glyphs stay apart; is the texture the plane; does it end? | 3 glyphs of any of 16 sizes (0 included) into a plane of 2 by 2 that overflows at 16: two cuts of a leaf, growth in both directions, and failure |
| motion_planning | Is the path right, and the answer? Does the search end? | 3 by 2 cells with three costs, the greatest a wall: corners cut by one or two walls, enclosed goals, ways that are rewritten |
| main_loop | Is the speed kept? Does input arrive? Does the game go on? | a second of 12 units, speeds 0, 3 and 4, stalls of up to a second: frames counted past a lowered speed, paused turns, several events in a turn |

The bounds appear as constants (`Max...`, `Limit`) in the guards of the actions
they bound.  Where a bound would stop a behaviour the walk can still go on, or (Timelines) an
action `BoundReached` stutters, so that deadlock is checked in every run.

The runs with `expect: violation` each check one statement a comment of the
repository makes, which the code does not keep:

- *timeline_speed_consumed*: a turn that passes a moment takes the way up to it off
  `timeline_speed` for good.
- *main_loop_stall*: "the game will only run too fast for catchup_limit ms"
  (`PFmain.cpp:142`), but whole seconds are taken off a difference that was clamped
  to one second, so after a stall of n seconds the offset comes after by one second
  per call; each such call resets the frame count, and lets a step run at once.  In `main_loop` stalls last
  at most a second, and the statement holds.

Some properties of passing runs hold under a condition: in *instance_system*
until an id is given twice, in *depth_draw* until an id is activated
under an unanswered request, in *draw_batch* when the state was not changed
behind its back since it was sent.
These conditions are history variables or state predicates in the properties
(`OneInstancePerId`, `stale`, `exact`), not guards of the actions: the code that
ends them is in the models, and IdsReused says that instance_change alone can end
the first.

Other statements the code does not keep were met on the way.  Each is a named
formula that the module's .cfg can check in place of its properties (one line of it
changed), and TLC then shows a behaviour that breaks it; no run is spent on them:

| statement | what happens | how to see it |
|---|---|---|
| the id of a directed constructor is "assumed to have been checked for conflict" (`write_object_data.cpp:509`) | instance_change by code of an instance that is deactivated, or that its Destroy event changes once more, uses an id that is not free (`instance_create.h:45-50`) | MCInstanceSystem: OneInstancePerId |
| "Local value is valid, use it." (`graphics_object.cpp:67`) | a request that outlives a deactivation moves the instance, reactivated at its default depth, and `depth` keeps the default | MCDepthDraw: LocalValueIsValid |
| "centralize an event iterator so error reporting can tell where it is" (`instance_system.cpp:214`; `instance.cpp:119` reports when it changed) | a redraw within a Draw event that moves the instance leaves it on the node before, or the root, whose inst is NULL (`GSscreen.cpp:152-154`) | MCDepthDraw: DrawLocated |
| the same | a dialog event fired from queue_async_job leaves it on the dummy, inst NULL: the body goes on as nobody, and the pass over the instances ends (`ASYNCdialog.cpp:46`) | AsyncDialogs: BodyLocated |
| render states are "current when a batch begins" (`GSprimitives.cpp:43`) | glsl_program_set (`shader.cpp:626`) and the creation of a texture (`textures.cpp:54, 68`) change what the device draws with and do not mark the state dirty | MCDrawBatch: BeginsCurrent |
| "trigger each moment that we've passed" (`timelines_object.cpp:81`) | moments are looked up in the present timeline_index: after one that sets it, moments of another timeline run | MCTimelines: TriggersPassed (a PROPERTY) |
| the position is "Bounded by [0,lastMoment)" (`timelines_object.h:51`) | a timeline that does not loop runs past its last moment, one that does may stop on it, and backwards begins at it; `Limit` is a bound of the model only, and TimelineTypeOK claims no range | MCTimelines: PositionBounded (a PROPERTY) |
| when Game Start events run persistent objects "won't even exist yet" (`roomsystem.cpp:272`) | after game_restart they do | MCRoomSystem: GameStartMeetsNobody |
| "Going to next room after last" (`roomsystem.cpp:393`) | a debug build says so on the way to the last room | MCRoomSystem with `DebugMode = TRUE`: NeighbourIsReached |
| "only one async dialog event should be fired at a time" (`ASYNCdialog.cpp:78`) | one can be fired inside another | AsyncDialogs: OneEventAtATime |
| rncopy "copies the content of a element ... into container" (`rectpack.cpp:44`) | it copies the container into the box, size included | RectPack: SizesKept |
| the dialog event is `Dialog` (`events.ey:44`) | what is called is `myevent_asyncdialog` (`ASYNCdialog.cpp:50`), which no generated class overrides | reading |
| a key was released (`events.ey:135-143`; mouse, 169-178, 200-208) | the SuperCheck of the released events asks for a press | reading |

**Fairness.**  `EventIter!FairSpec` has weak fairness of the loop: an event body
returns.  PassEnds also depends on `MaxNode`: events that create instances for ever
keep a pass going for ever, in the code as well.  `RoomSystem!FairSpec` has weak
fairness of the control of the program, `Control`, not of what code does: event
code returns, the main loop goes on.  `AsyncDialogs!FairSpec` adds that every
dialog thread goes on: the user answers.  `RectPack!Spec` and
`MotionPlanning!Spec` have weak fairness of Next: both are loops that do nothing
else until they are done.  `MainLoop!FairSpec`: the timer is called again, the
events that wait are finite, event code returns (io_handle too, which is why the
end of a step is strongly fair: it is disabled while events are handled).
DrawBatch has no liveness: a game may draw nothing.

## 4  Proofs

`EventIterProof` proves, for every `MaxNode` and every set of iterators, that
`Spec => []IInv`, and from it the invariants TypeOK, Linked, IterSafe,
PassComplete and the action property ForwardOnly.  `AsyncDialogsProof` proves, for
any number of jobs and instances, `Spec => []IInv`, the invariants TypeOK,
OneDialog and AnswerInHand, and that AsyncDialogs implements DialogQueue.
`DrawingProof` proves of DrawBatch TypeOK, Synced and that it implements
ImmediateMode, with every call the code allows; and of DepthDraw, for any instances,
objects, depths and nodes, DepthTypeOK, OneLayerEach, DrawComplete, RequestsCarriedOut,
and that LocalValueIsValid can fail only once an id was activated under an unanswered
request (`stale`; that it does fail then, see section 3).  `RectPackProof` proves TypeOK, Packed and TextureIsPlane for any
glyphs, `MotionPlanningProof` TypeOK, PathRight and StatusRight for any grid, and
`TimingProof` TypeOK, EdgeSeen and NotTooFast of MainLoop for any speeds, and
TimelineTypeOK, NoneSkipped and LapComplete of Timelines for any timelines,
positions and speeds.  `RoomSystemProof` proves TypeOK, IdsApart, EndLeavesPersistent, OneLateBody and EveryoneMetOnce for
every game, any number of instances and any calls of event code.
`InstanceSystemProof` proves TypeOK, Accounted, Lists, DestroyReachesAll and that
InstanceSystem implements EventIter (and with it what EventIterProof proves of one
list and its loop), for any objects, instances and depth of nesting; Accounted and
Lists speak of the time before an id is given to two instances, and IdsReused, proved too, says
that only the construction of instance_change can do that.

*EventIter.*  None of the properties is inductive.  Linked needs nothing else, but
IterSafe and the two about passes speak of unlinked nodes, which still point
somewhere.  `UnlinkedForward` says where: forward, over no linked node.  An
iterator that stands on an unlinked node is repaired only when the node it points
at goes, which is enough just because nothing linked lies between.
PassComplete needs more: the raw pointer is *not* repaired, and may go from one
unlinked node to another.  `Seen` are the nodes it can come across (linked when
the pass began, or allocated since); `SeenClosed` says that pointers do not lead
out of Seen, and that an end reached from one of them lies behind every node of
the start of the pass; `PassSoFar` that all linked nodes of the start up to `cur`
have been run.  The proof has a lemma per action; that of Unlink has a step
per conjunct.

*InstanceSystem.*  The invariant `Inv` has three layers.  The first, `Base`, is about
the lists alone.  `ListsInv` says that each is linked both ways through exactly its
members, in the order of a key: the id for instance_list, the age of the node for the
others (that is what makes "ahead" and "behind" mean something in every list).
`FreshInv` says that a node that was never in a list leads nowhere, and `NodesInv`
that instances, nodes and instance_list name each other.  The lemmas `LinkAt` and
`UnlinkAt` do this once for any doubly linked list, and one for each of the three
orders says what an insertion or an unlink does to all lists at once.  The second
layer is about instances: `CountInv` (what a count counts), Accounted, `CleanInv`,
`LoadInv`.  The third is about the calls in progress.  Nodes keep
their pointers when they are unlinked, and the loops stand on such nodes: `SeenInv`
says that what a pass can come to leads only to nodes of the same kind, of instances
that have not been deleted, which is why disposal must wait for the end of the step.
`StackInv` says of each loop on the stack (`FrameOK`) that its registered iterator
leads back to the list (`RegOK`), and of a destroy that whatever its list held at the
call and still holds lies ahead of it (`Ahead`), of which DestroyReachesAll is the
case of a loop that has ended.  deactivate and activate call no code, so they are
only at the top (`PlaceOK`), which saves them from any of this.  All of it holds while
ids name one instance each; what is proved of every state (`Sound`) is TypeOK,
DestroyReachesAll, and `Inv` while OneInstancePerId holds.  That suffices, because the
model takes no step from a clash, and a clash keeps the types and comes from the
construction of instance_change alone (`InstanceIdsReused`).
The steps are taken one at a time; below the top of the stack a call is only
disturbed through the lists, so what an action does to the frames under it is a
lemma about the lists it changed.  In the refinement activate links a node,
deactivate unlinks one, the loop advances and everything else stutters; EventIter's
registered iterators are not used (`Iter <- {}`), since none walks the event list.

*RoomSystem.*  IdsApart is inductive with the types; the others are not.  `EndInv` says
that in the loop of end() that destroys, what lies behind the walk is persistent,
and that the walk stands on a linked instance: no code runs in that loop, so nothing
is undone behind it.  `LateInv` adds to OneLateBody that a request that was pending
when a body began is met in that body or just after it: nowhere else can one be
counted a second time, because RoomsSwitch takes it.  EveryoneMetOnce needs `NextInv`
(a node that was unlinked under the walk points at a linked instance further on, or
at the end), `OwedInv` (whom the walk owes an event is linked and not before the place
it goes to next) and `MetInv` (met in ascending order).  The calls of event code are
put into seven groups by what they change (`Steps`), each taken once per part.
That a set of ids has a least member, which `Least` picks, comes from the library's
theorem that < is well founded on the naturals.

*AsyncDialogs.*  `Workers` relates the state of each thread to `last` and `started`,
from which OneDialog and each step of the refinement follow; `Nesting` says that the
frames of `fires` return to where there is a frame to return to, so that
`fires[1]` exists where it is used; `Answers` that the entries of async_load are
those of the job before `last` until the next dialog is launched, which is what
AnswerInHand needs.  A step of the refinement is Queue, Show, Fire or a stutter:
only QueueAsyncJob, Launch and Poll change what DialogQueue sees.

*DrawBatch.*  Synced speaks only of a clean state; the refinement needs to know with
what the batch will be drawn although the state has changed since.
`OpenIsCurrent` says that an open primitive was begun with what the device draws
with now, whatever `cur` has become, or that the state was changed behind its back:
every other action that changes the device (a flush of the state, another target or
program) has the batch drawn before.
`BatchMarked` says that what is in the batch will be drawn when it is flushed.  A
step of the refinement is then a change of state, a texture bound behind it (which
makes what is still in the batch unknown), a begin, an end, a draw, a look or a
stutter.

*RectPack.*  Packed is not inductive: that a new box misses the old ones follows from
the leaves' being apart and in the plane, and from each placed box's being a leaf.
The proof takes the cut, the growth below and the growth to the right one at a time:
each replaces leaves by disjoint parts or adds one outside the old plane.
For TextureIsPlane, `SizesAssumption` says that doubling the first side comes to
2^31 exactly (it is a power of two in the code).  A side of 2^31 is negative as an
int, so that the plane no longer follows it; but then the plane did not grow, the
box at hand still fits nowhere, and the next doublings come to 0, which ends in
failure (`PlaneInv`).

*MotionPlanning.*  `Chain` says that the way back from every cell that was seen steps
through closed cells to the start, with a rank that falls (the place in CLOSED), so
that rewriting `came_from` of an open cell cannot make a circle; `Frontier` that
every free neighbour of a closed cell was seen.  An empty OPEN makes the closed
cells an enclosure of the start without the goal, which is what StatusRight needs;
`Walking` that the path so far is a way.

*MainLoop.*  NotTooFast relates the history variable `ahead` to `slowed` and
`frames_count`: a step is let through only when the frames run are at most those the
time since timer_offset_slowing, plus Catchup, allows.  It needs that speeds divide
a second (`Divides`; otherwise rounding adds up) and that a stall is at most a second
(`MaxStall <= Second`), without which it is false: main_loop_stall.  EdgeSeen is
inductive with a disjunction on what happened to the key so far.

*Timelines.*  A turn computes where it gets to with a recursive function, one value
per moment met, and so the proof begins by showing that the function exists: if some
value had no definition there would be a least one, and its predecessor would give
it one.  The same argument gives the values: after k moments the turn is at the k-th
and has used up exactly the way there (`WalkedIs`).  The moments ahead of a
position are an interval of indices (`AheadInterval`), because they are in order of
time, which makes what `nth` counts from their number the right ones.  `Advancing`
then says that a turn runs the moments from where it starts to where it stops, the
end left out, and no others.  The invariant, `StretchInv`, says this of all turns
since the direction last changed, with `Onward`, that these led from the base to
the present position; turns join without a gap or an overlap because each begins
with the moment the last one stopped before.

*DepthDraw.*  OneLayerEach speaks of what a walk along `next` meets.  `ListOK` says
why: a list links its members both ways, in the order in which their nodes were
allocated.  `PlacesOK` says who is a member: the instances by the depth the lists
were built with (`DepthNow`, which is Committed), so that the `unlink` that is called
through a root is called through the right one.  A request left over from before a
deactivation names a depth that the node activated since is not at; `stale` is set
then, and from then on only the types are kept (`DrawInv`), for which `Allocated` says
what no misplaced node can undo: the places that pointers name have been
allocated.  DrawComplete is about the pointer
of a loop, which no one repairs when the instance it stands on is deactivated.  The node
keeps its own pointers then, and `Way` says what is true of all nodes the loop can
come across in this manner: their pointers lead forward and stay among them, pass
over nothing that was linked at the beginning and still is, and what lies behind the loop
is undrawn; `Shown` that everything before it has been drawn.  Both are said of every
redraw on the stack (`FramesInv`), the innermost at `iter` and each other at the
push_it of the one within it (`At`), since that is where it goes on.  A nested redraw moves
nodes away while loops stand on them; `Standing` steps the iterator back to the node
before, and since a moved node is always given a new place at the end of a list,
and a new number, it is not one a redraw began with.  The requests are carried out
one id at a time, with everything above proved again after each (`ServedOK`); the
recursive functions of draw_insts, of Activate and of Chain are shown to exist as in
Timelines.  Once a room is asked for, the redraws under way are only abandoned, and
nothing is claimed of them.

Only model-checked: liveness (PassEnds, RequestEnds, EveryJobFires, Ends of RectPack
and of MotionPlanning, StepsGoOn), which is out of the prover's reach.  Every other
property of a passing run is stated by a theorem.

The assumptions on the constants are named in the module that declares them; TLC
evaluates them in the runs.  Timelines assumes that the moments of a timeline are in
order of time and that there is one, DepthDraw that there is a greatest depth and
that every object has one.  RoomSystem assumes that every room is in roomorder once
and that the project gives the instances of its rooms different ids.  Where a theorem
has further hypotheses they are named above (MainLoop); they hold in the runs.

## 5  Not modelled

- *Within the modelled parts*: `operator--`; instance_copy, region (de)activation;
  event code that deactivates itself when it is no longer linked (it unlinks twice,
  undefined); what follows once two instances have one id; reads beyond `roomorder`; room_duplicate, room_instance_clear,
  room_set_*; tiles and particles; views, each of which is a redraw of its own as
  here; draw_gui, the same loop over the Draw GUI events, without draw_insts, which
  restores the iterator on a room request; the order of events in a step (one loop
  stands for any of them).
- *window_update* runs a whole step inside an event body and frees the instance
  whose code is running; *game_ending* advances an iterator that stands on a deleted
  node.  Both are listed as hazards.
- *Of drawing*: draw calls between the begin and the end of a primitive; textures and
  surfaces that are deleted while the batch uses them (`surface.cpp:86`,
  `textures.cpp:85`); clears, which use the masks of the device; the other back ends.
- *Of the main loop*: `delta_time`, which keeps its last value when the timer starts
  over (a TODO in updateTimer); the mouse; keys that share a code.
- *Of font packing*: the size of the buffer, `w*h` of unsigned sides
  (`fontstruct.cpp:148`), which wraps at 65536 by 65536; RectPack speaks of the sides.
- *Of motion planning*: mp_grid_duplicate and mp_grid_copy, whose cells keep pointers
  to neighbours in the other grid; instances added to a grid; speeds, which divide
  by the cost of a cell.
- Motion, collision, paths, particles: floating-point geometry with little control.
- The compiler, the parsers and the file formats: batch translations.
- Graphics, audio, window, widget, network and process back ends: calls into the
  system.
- Most of the lines of the repository are not its own logic: tables and headers
  (`SystemInfo/pci.ids.hpp` alone has 108 thousand lines, the OpenGL headers inside
  SDL_mixer's Xcode projects more), vendored libraries (Dear ImGui, SDL_mixer and its
  codecs, apiprocess, apifilesystem), and back ends that translate one call into
  another.  The modules cover the parts with control of their own, a small share of
  the total.

## 6  Plan

Done: every module of section 2, and the proofs of section 4.

Next, in this order:

1. RoomSystem: room_duplicate with the ids it copies, and room_instance_clear.
2. MainLoop: game_ending and window_update, composed with RoomSystem and
   AsyncDialogs through `instance_event_iterator`.
3. Alarms and the moments of timelines in one step.
4. Copies of motion-planning grids; open primitives in DrawBatch.
