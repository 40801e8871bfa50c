----------------------------- MODULE DrawBatch -----------------------------
(***************************************************************************)
(* Drawing is put off twice.  Render state is set in variables, and sent   *)
(* to the device when something is about to be drawn and the state is      *)
(* dirty; primitives are collected in one model, the batch, and drawn      *)
(* when the state is about to change, or when somebody looks.  What is on  *)
(* the screen must be what drawing at once, ImmediateMode, would give.     *)
(*                                                                         *)
(* Two calls change what the device draws with and say nothing: a program  *)
(* is set while the state is clean, and a texture is bound in passing.     *)
(* From then until the state is next sent, what is drawn is not known.     *)
(*                                                                         *)
(* This is the device of OpenGL 3: bindings go to the active texture unit, *)
(* and part of the state, the uniforms, belongs to a shader program.       *)
(***************************************************************************)
EXTENDS Naturals, Sequences

CONSTANTS
  States,    \* values of the render state, matrices included
  Textures,  \* textures; NoTexture is texture -1
  NoTexture,
  Programs,  \* shader programs
  Targets,   \* framebuffers, with their viewports
  MaxDraws   \* bound: things drawn in a frame

Unset == "unset"
NotKnown == <<>>
With == [st : States, tex : Textures \cup {NoTexture}, prog : Programs, target : Targets]

ASSUME ConstantsAssumption ==
  /\ Unset \notin States /\ NoTexture \notin Textures
  /\ MaxDraws \in Nat

VARIABLES
  mode,   \* draw_batch_mode
  batch,  \* draw_batch_dirty
  dirty,  \* drawStateDirty
  cur,    \* the render state as set
  dev,    \* the state and the texture of unit 0 in the device
  uni,    \* the uniforms of each program
  unit0,  \* whether texture unit 0 is the active one
  stream, \* the primitives of the batch, as they would come out
  tail,   \* the last primitive of the model: its kind, and if its length is odd
  exact,  \* history: FALSE once a change was not told to the state
  open,   \* history: the state a primitive was begun with, <<>> if none is
  drawn,  \* history: what the device has drawn in this frame
  seen    \* history: how much of it a look at the screen has just shown

vars == <<mode, batch, dirty, cur, dev, uni, unit0, stream, tail, exact, open, drawn, seen>>

Modes == {"never", "deferred", "immediate"}
Shapes == {"list", "strip", "oddstrip"}
What == {"plain", "turned", "model"}
Kind(s) == IF s = "list" THEN "list" ELSE "strip"
NoTail == [kind |-> "none", odd |-> FALSE]

\* Mutant: the dirty state is not set aside, so drawing the batch sends it.
RenderedDirty == cur

\* What the device draws with.  A state that the program did not get with its
\* uniforms is not one anybody set.
Rendered ==
  [st |-> IF uni[cur.prog] = dev.st THEN dev.st ELSE Unset, tex |-> dev.tex,
   prog |-> cur.prog, target |-> cur.target]

\* What the device draws with as far as the calls so far tell.
DrawnWith == IF exact THEN Rendered ELSE NotKnown

Item(s, w) == [what |-> s, with |-> w]

\* draw_batch_flush of the batch, by mode: nothing comes of it if it is never.
Drawing(s) == IF mode = "never" THEN <<>> ELSE [i \in 1..Len(s) |-> Item(s[i], DrawnWith)]
Pending == Drawing(stream)

Flushes(kind) == mode = kind /\ batch
AfterFlush(kind) == IF Flushes(kind) THEN drawn \o Pending ELSE drawn
Emptied(kind) ==
  IF Flushes(kind) THEN stream' = <<>> /\ tail' = NoTail ELSE UNCHANGED <<stream, tail>>

\* Mutant: the batch is cleared without being drawn.
BatchFlushClears(kind) ==
  /\ Emptied(kind)
  /\ drawn' = drawn
  /\ batch' = (batch /\ mode # kind)
  /\ unit0' = (unit0 \/ (Flushes(kind) /\ Pending # <<>>))

\* draw_batch_flush; drawing selects texture unit 0.
BatchFlush(kind) ==
  /\ Emptied(kind)
  /\ drawn' = AfterFlush(kind)
  /\ batch' = (batch /\ mode # kind)
  /\ unit0' = (unit0 \/ (Flushes(kind) /\ Pending # <<>>))

\* Mutant: the uniforms are not sent.
SendStateOnly ==
  /\ dev' = [st |-> cur'.st, tex |-> cur'.tex]
  /\ dirty' = FALSE /\ exact' = TRUE
  /\ UNCHANGED uni

\* graphics_state_flush, and the state is clean.
SendState ==
  /\ dev' = [st |-> cur'.st, tex |-> cur'.tex]
  /\ uni' = [uni EXCEPT ![cur'.prog] = cur'.st]
  /\ dirty' = FALSE /\ exact' = TRUE

Init ==
  /\ mode = "deferred" /\ batch = FALSE
  /\ dirty = FALSE /\ cur \in With
  /\ dev = [st |-> cur.st, tex |-> cur.tex]
  /\ uni = [p \in Programs |-> IF p = cur.prog THEN cur.st ELSE Unset]
  /\ unit0 = FALSE
  /\ stream = <<>> /\ tail = NoTail
  /\ exact = TRUE /\ open = <<>> /\ drawn = <<>> /\ seen = 0

Room == Len(drawn) + Len(stream) < MaxDraws
Idle == open = <<>>

-----------------------------------------------------------------------------
(* The state                                                               *)

\* Mutant: the state is not marked dirty.
SetStateClean(s) ==
  /\ seen' = 0
  /\ cur' = [cur EXCEPT !.st = s]
  /\ UNCHANGED <<mode, batch, dirty, dev, uni, unit0, stream, tail, exact, open, drawn>>

\* draw_set_*, d3d_set_*, d3d_transform_* ...: mark the state dirty, then set it.
SetState(s) ==
  /\ seen' = 0
  /\ cur' = [cur EXCEPT !.st = s]
  /\ dirty' = TRUE
  /\ UNCHANGED <<mode, batch, dev, uni, unit0, stream, tail, exact, open, drawn>>

\* texture_set
TextureSet(t) ==
  /\ seen' = 0
  /\ cur' = [cur EXCEPT !.tex = t]
  /\ dirty' = (dirty \/ cur.tex # t)
  /\ UNCHANGED <<mode, batch, dev, uni, unit0, stream, tail, exact, open, drawn>>

\* glsl_program_set: the batch goes first, but the state is not marked dirty,
\* so the uniforms of the new program are what they last were.
ProgramSet(p) ==
  /\ seen' = 0
  /\ Idle
  /\ cur.prog # p
  /\ BatchFlush("deferred")
  /\ cur' = [cur EXCEPT !.prog = p]
  /\ exact' = (exact /\ (dirty \/ uni[p] = cur.st))
  /\ UNCHANGED <<mode, dirty, dev, uni, open>>

\* surface_set_target, surface_reset_target: the batch goes first; the
\* framebuffer is set at once, the projection is dirty.
SetTarget(g, s) ==
  /\ seen' = 0
  /\ Idle
  /\ BatchFlush("deferred")
  /\ cur' = [cur EXCEPT !.target = g, !.st = s]
  /\ dirty' = TRUE
  /\ UNCHANGED <<mode, dev, uni, exact, open>>

\* screen_set_viewport: the batch goes first; nothing is dirty.
SetViewport(g) ==
  /\ seen' = 0
  /\ Idle
  /\ BatchFlush("deferred")
  /\ cur' = [cur EXCEPT !.target = g]
  /\ UNCHANGED <<mode, dirty, dev, uni, exact, open>>

\* graphics_create_texture (t = NoTexture), graphics_push_texture_pixels: bind
\* in passing, to whatever unit is active, without a word to anybody.  No harm
\* is done if the state is sent before anything is drawn.
TextureTouch(t) ==
  /\ seen' = 0
  /\ dev' = IF unit0 THEN [dev EXCEPT !.tex = t] ELSE dev
  /\ exact' = (exact /\ (dev' = dev \/ (dirty /\ Idle /\ stream = <<>>)))
  /\ UNCHANGED <<mode, batch, dirty, cur, uni, unit0, stream, tail, open, drawn>>

-----------------------------------------------------------------------------
(* Drawing                                                                 *)

\* draw_primitive_begin_texture, through draw_batch_begin_deferred.  A dirty
\* state is flushed (draw_state_flush), any batch before it.
PrimitiveBegin(t) ==
  /\ seen' = 0
  /\ Idle /\ Room
  /\ cur' = [cur EXCEPT !.tex = t]
  /\ open' = cur'
  /\ batch' = TRUE
  /\ IF dirty \/ cur.tex # t
     THEN /\ Emptied("deferred")
          /\ drawn' = AfterFlush("deferred")
          /\ SendState
          /\ unit0' = FALSE
     ELSE UNCHANGED <<stream, tail, drawn, dev, uni, dirty, exact, unit0>>
  /\ UNCHANGED mode

\* d3d_model_primitive_end appends the primitive to the model, or to the last
\* one there: two triangle strips are joined by two vertices, which turns the
\* triangles of the second around if the first is of odd length.
Turned(s) == Kind(s) = "strip" /\ tail.kind = "strip" /\ tail.odd
Out(s) == IF Turned(s) THEN "turned" ELSE "plain"
Joined(s) ==
  [kind |-> Kind(s), odd |-> (s = "oddstrip") # (tail.kind = Kind(s) /\ tail.odd)]

\* draw_primitive_end
PrimitiveEnd(s) ==
  /\ seen' = 0
  /\ ~Idle
  /\ open' = <<>>
  /\ IF Flushes("immediate")
     THEN /\ drawn' = drawn \o Drawing(Append(stream, Out(s)))
          /\ stream' = <<>> /\ tail' = NoTail /\ batch' = FALSE /\ unit0' = TRUE
     ELSE /\ stream' = Append(stream, Out(s)) /\ tail' = Joined(s)
          /\ UNCHANGED <<drawn, batch, unit0>>
  /\ UNCHANGED <<mode, dirty, cur, dev, uni, exact>>

\* vertex_submit, d3d_model_draw of another model: draw_state_flush, then draw.
VertexSubmit ==
  /\ seen' = 0
  /\ Idle /\ Room
  /\ Emptied("deferred")
  /\ batch' = (batch /\ mode # "deferred")
  /\ drawn' = Append(AfterFlush("deferred"), Item("model", IF dirty THEN cur ELSE DrawnWith))
  /\ UNCHANGED <<mode, cur, open>>
  /\ unit0' = TRUE
  /\ IF dirty THEN SendState ELSE UNCHANGED <<dev, uni, dirty, exact>>

\* Mutant: the batch is left for later.
LookStale ==
  /\ Idle
  /\ seen' = Len(drawn)
  /\ UNCHANGED <<mode, batch, dirty, cur, dev, uni, unit0, stream, tail, exact, open, drawn>>

\* draw_getpixel, screen_save, surface_getpixel, ...: read what was drawn.
ReadBack ==
  /\ Idle
  /\ BatchFlush("deferred")
  /\ seen' = Len(drawn')
  /\ UNCHANGED <<mode, dirty, cur, dev, uni, exact, open>>

\* draw_set_batch_mode
SetBatchMode(m) ==
  /\ seen' = 0
  /\ mode # "immediate" => Idle
  /\ IF mode \notin {"immediate", m} THEN BatchFlush(mode)
     ELSE UNCHANGED <<stream, tail, drawn, batch, unit0>>
  /\ mode' = m
  /\ UNCHANGED <<dirty, cur, dev, uni, exact, open>>

\* The end of screen_redraw, and screen_refresh: the frame is shown.  A batch
\* is flushed whether it is to be drawn or not.
LastFlush == Flushes("deferred") \/ Flushes("never")
ScreenRefresh ==
  /\ Idle
  /\ seen' = Len(drawn) + (IF LastFlush THEN Len(Pending) ELSE 0)
  /\ drawn' = <<>>
  /\ IF LastFlush
     THEN stream' = <<>> /\ tail' = NoTail /\ batch' = FALSE /\ unit0' = (unit0 \/ Pending # <<>>)
     ELSE UNCHANGED <<stream, tail, batch, unit0>>
  /\ UNCHANGED <<mode, dirty, cur, dev, uni, exact, open>>

Next ==
  \/ \E s \in States : SetState(s) \/ \E g \in Targets : SetTarget(g, s)
  \/ \E t \in Textures \cup {NoTexture} : TextureSet(t) \/ TextureTouch(t) \/ PrimitiveBegin(t)
  \/ \E p \in Programs : ProgramSet(p)
  \/ \E g \in Targets : SetViewport(g)
  \/ \E s \in Shapes : PrimitiveEnd(s)
  \/ VertexSubmit \/ ReadBack \/ ScreenRefresh
  \/ \E m \in Modes : SetBatchMode(m)

Spec == Init /\ [][Next]_vars

-----------------------------------------------------------------------------
\* The type of every variable.  (GSprimitives.cpp)
TypeOK ==
  /\ mode \in Modes /\ batch \in BOOLEAN /\ dirty \in BOOLEAN
  /\ cur \in With
  /\ dev \in [st : States, tex : Textures \cup {NoTexture}]
  /\ uni \in [Programs -> States \cup {Unset}]
  /\ unit0 \in BOOLEAN
  /\ stream \in Seq(What)
  /\ tail \in [kind : {"none", "list", "strip"}, odd : BOOLEAN]
  /\ exact \in BOOLEAN /\ open \in With \cup {<<>>}
  /\ drawn \in Seq([what : What, with : {NotKnown} \cup [st : States \cup {Unset},
               tex : Textures \cup {NoTexture}, prog : Programs, target : Targets]])
  /\ seen \in Nat

\* While the state is not dirty the device draws with what was last set,
\* unless a program or a texture was changed behind the state since it was
\* last sent.  (draw_batch_begin_deferred, draw_state_flush)
Synced == ~dirty /\ exact => Rendered = cur

\* "One goal of the function is to ensure the render states are current when a
\* batch begins" (GSprimitives.cpp:43): the device draws a primitive with the
\* state it was begun with.  (draw_batch_begin_deferred)  The code does not keep
\* it when the state was changed behind its back; no run checks it.
BeginsCurrent == open # <<>> => Rendered = open

\* A primitive that is being specified, and the batch, are never drawn with a
\* state set after them, and a batch that must not be lost is marked.
OpenIsCurrent == open # <<>> => batch /\ (exact => Rendered = open)
BatchMarked == (stream # <<>> => batch) /\ (mode = "immediate" => stream = <<>>)

\* What comes out, drawn or still in the batch, is what drawing at once would
\* give: everything, in order, with the state of its time; a look at the
\* screen shows all of it.  A strip is turned around if it follows one of odd
\* length, and only then; a state is not known only after a change that the
\* state was not told of, and until it is next sent.
Immediate == INSTANCE ImmediateMode
  WITH drawing <- (mode # "never"), screen <- drawn \o Pending, due <- dirty,
       odd <- (tail.kind = "strip" /\ tail.odd)
ImplementsImmediate == Immediate!Spec
=============================================================================
