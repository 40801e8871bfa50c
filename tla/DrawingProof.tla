---------------------------- MODULE DrawingProof ----------------------------
(***************************************************************************)
(* Proofs about how a game is drawn.  Of DrawBatch: the batch and the      *)
(* deferred state do not show, as far as the device and the state are not  *)
(* parted by a call that tells the state nothing.  Of DepthDraw: the lists *)
(* of the depths hold every instance where it belongs, and a redraw that   *)
(* no room request cuts short draws each once, until an id is activated    *)
(* under a request it had not answered.  Both hold without a hypothesis on *)
(* what a game calls: the models go on after such calls, and record them.  *)
(***************************************************************************)
EXTENDS DrawBatch, DepthDraw, WellFoundedInduction, FiniteSetTheorems, TLAPS

\* What the device has drawn.
Drawn == [what : What, with : {NotKnown} \cup [st : States \cup {Unset},
            tex : Textures \cup {NoTexture}, prog : Programs, target : Targets]]

\* The inductive invariant of DrawBatch: the state is in step, the primitive
\* that is open was begun in it, and a stream that is not empty is marked.
IInv == TypeOK /\ Synced /\ OpenIsCurrent /\ BatchMarked

-----------------------------------------------------------------------------
(* The batch as a sequence                                                 *)

\* What the device would draw with is a state, a texture, a program and a target.
LEMMA RenderedType == TypeOK => Rendered \in [st : States \cup {Unset},
            tex : Textures \cup {NoTexture}, prog : Programs, target : Targets]
<1> SUFFICES ASSUME TypeOK PROVE Rendered \in [st : States \cup {Unset},
            tex : Textures \cup {NoTexture}, prog : Programs, target : Targets]
  OBVIOUS
<1>1. cur.prog \in Programs /\ cur.target \in Targets /\ dev.st \in States
      /\ dev.tex \in Textures \cup {NoTexture}
  BY DEF TypeOK, With
<1> QED
  BY <1>1 DEF Rendered

\* What is drawn of a sequence of primitives.
LEMMA DrawingType ==
  ASSUME TypeOK, NEW s \in Seq(What) PROVE Drawing(s) \in Seq(Drawn)
<1>1. \A i \in 1..Len(s) : Item(s[i], DrawnWith) \in Drawn
  BY RenderedType DEF Item, Drawn, DrawnWith
<1> QED
  BY <1>1 DEF Drawing

\* Nothing is drawn of an empty stream.
LEMMA DrawingEmpty == Drawing(<<>>) = <<>>
  BY DEF Drawing

\* A primitive is drawn after those before it.
LEMMA DrawingAppend ==
  ASSUME mode # "never", NEW s \in Seq(What), NEW x \in What
  PROVE  Drawing(Append(s, x)) = Append(Drawing(s), Item(x, DrawnWith))
  BY DEF Drawing

\* An element appended to the second of two sequences.
LEMMA ConcatAppend ==
  ASSUME NEW S, NEW a \in Seq(S), NEW b \in Seq(S), NEW x \in S
  PROVE  a \o Append(b, x) = Append(a \o b, x)
  OBVIOUS

\* A sequence and an empty one.
LEMMA ConcatEmpty ==
  ASSUME NEW S, NEW a \in Seq(S)
  PROVE  a \o <<>> = a /\ <<>> \o a = a
  OBVIOUS

-----------------------------------------------------------------------------
(* Types                                                                   *)

\* The type of what a flush leaves drawn.
LEMMA AfterFlushType ==
  ASSUME TypeOK, NEW k PROVE AfterFlush(k) \in Seq(Drawn)
<1>1. Pending \in Seq(Drawn) /\ drawn \in Seq(Drawn)
  BY DrawingType DEF TypeOK, Pending, Drawn
<1>2. drawn \o Pending \in Seq(Drawn)
  BY <1>1
<1> QED
  BY <1>1, <1>2 DEF AfterFlush

\* The types after the batch is emptied.
LEMMA EmptiedType ==
  ASSUME TypeOK, NEW k, Emptied(k)
  PROVE  stream' \in Seq(What) /\ tail' \in [kind : {"none", "list", "strip"}, odd : BOOLEAN]
<1>1. NoTail \in [kind : {"none", "list", "strip"}, odd : BOOLEAN]
  BY DEF NoTail
<1>2. CASE Flushes(k)
  BY <1>1, <1>2 DEF Emptied
<1>3. CASE ~Flushes(k)
  BY <1>3 DEF Emptied, TypeOK
<1> QED
  BY <1>2, <1>3

\* The types after draw_batch_flush.
LEMMA FlushType ==
  ASSUME TypeOK, NEW k, BatchFlush(k)
  PROVE  /\ stream' \in Seq(What)
         /\ tail' \in [kind : {"none", "list", "strip"}, odd : BOOLEAN]
         /\ drawn' \in Seq(Drawn) /\ batch' \in BOOLEAN /\ unit0' \in BOOLEAN
<1>1. drawn' \in Seq(Drawn)
  BY AfterFlushType DEF BatchFlush
<1>2. stream' \in Seq(What) /\ tail' \in [kind : {"none", "list", "strip"}, odd : BOOLEAN]
  BY EmptiedType DEF BatchFlush
<1>3. batch' \in BOOLEAN /\ unit0' \in BOOLEAN
  BY Zenon DEF BatchFlush, TypeOK
<1> QED
  BY <1>1, <1>2, <1>3

\* The types after the deferred state is sent to the device.
LEMMA SendType ==
  ASSUME TypeOK, cur' \in With, SendState
  PROVE  /\ dev' \in [st : States, tex : Textures \cup {NoTexture}]
         /\ uni' \in [Programs -> States \cup {Unset}] /\ dirty' \in BOOLEAN /\ exact' \in BOOLEAN
  BY DEF TypeOK, SendState, With

\* A primitive as it comes out, and the tail it leaves.
LEMMA OutType ==
  ASSUME TypeOK, NEW s \in Shapes
  PROVE  Out(s) \in What /\ Joined(s) \in [kind : {"none", "list", "strip"}, odd : BOOLEAN]
  BY DEF Out, Joined, Kind, What

\* Every call keeps the types.
LEMMA TypeStep == TypeOK /\ [Next]_vars => TypeOK'
<1> SUFFICES ASSUME TypeOK, [Next]_vars PROVE TypeOK'
  OBVIOUS
<1> USE DEF Drawn
<1> DEFINE Tex == Textures \cup {NoTexture}
<1>1. ASSUME NEW s \in States, SetState(s) PROVE TypeOK'
  BY <1>1 DEF SetState, TypeOK, With
<1>2. ASSUME NEW g \in Targets, NEW s \in States, SetTarget(g, s) PROVE TypeOK'
  <2>1. cur' \in With
    BY <1>2 DEF SetTarget, TypeOK, With
  <2>2. BatchFlush("deferred")
    BY <1>2 DEF SetTarget
  <2> QED
    BY <1>2, <2>1, <2>2, FlushType DEF SetTarget, TypeOK
<1>2v. ASSUME NEW g \in Targets, SetViewport(g) PROVE TypeOK'
  <2>1. cur' \in With
    BY <1>2v DEF SetViewport, TypeOK, With
  <2>2. BatchFlush("deferred")
    BY <1>2v DEF SetViewport
  <2> QED
    BY <1>2v, <2>1, <2>2, FlushType DEF SetViewport, TypeOK
<1>3. ASSUME NEW t \in Tex, TextureSet(t) PROVE TypeOK'
  BY <1>3 DEF TextureSet, TypeOK, With
<1>4. ASSUME NEW t \in Tex, TextureTouch(t) PROVE TypeOK'
  <2>1. exact' \in BOOLEAN
    BY <1>4, Zenon DEF TextureTouch, TypeOK
  <2>2. dev' \in [st : States, tex : Tex]
    BY <1>4 DEF TextureTouch, TypeOK
  <2>3. seen' = 0 /\ UNCHANGED <<mode, batch, dirty, cur, uni, unit0, stream, tail, open, drawn>>
    BY <1>4 DEF TextureTouch
  <2> QED
    BY <2>1, <2>2, <2>3 DEF TypeOK
<1>5. ASSUME NEW t \in Tex, PrimitiveBegin(t) PROVE TypeOK'
  <2>1. cur' \in With /\ open' \in With
    BY <1>5 DEF PrimitiveBegin, TypeOK, With
  <2>2. seen' = 0 /\ batch' = TRUE /\ mode' = mode
    BY <1>5 DEF PrimitiveBegin
  <2>3. CASE dirty \/ cur.tex # t
    <3>1. Emptied("deferred") /\ drawn' = AfterFlush("deferred") /\ SendState /\ unit0' = FALSE
      BY <1>5, <2>3 DEF PrimitiveBegin
    <3> QED
      BY <2>1, <2>2, <3>1, EmptiedType, AfterFlushType, SendType DEF TypeOK
  <2>4. CASE ~(dirty \/ cur.tex # t)
    <3>1. UNCHANGED <<stream, tail, drawn, dev, uni, dirty, exact, unit0>>
      BY <1>5, <2>4 DEF PrimitiveBegin
    <3> QED
      BY <2>1, <2>2, <3>1 DEF TypeOK
  <2> QED
    BY <2>3, <2>4
<1>6. ASSUME NEW p \in Programs, ProgramSet(p) PROVE TypeOK'
  <2>1. cur' \in With
    BY <1>6 DEF ProgramSet, TypeOK, With
  <2>2. BatchFlush("deferred") /\ seen' = 0 /\ UNCHANGED <<mode, dirty, dev, uni, open>>
    BY <1>6 DEF ProgramSet
  <2>3. exact' \in BOOLEAN
    BY <1>6, Zenon DEF ProgramSet, TypeOK
  <2> QED
    BY <2>1, <2>2, <2>3, FlushType DEF TypeOK
<1>7. ASSUME NEW s \in Shapes, PrimitiveEnd(s) PROVE TypeOK'
  <2>1. Append(stream, Out(s)) \in Seq(What)
    BY OutType DEF TypeOK
  <2> HIDE DEF Drawn
  <2>a. Drawing(Append(stream, Out(s))) \in Seq(Drawn)
    BY <2>1, DrawingType
  <2>b. drawn \in Seq(Drawn)
    BY DEF TypeOK, Drawn
  <2>2. drawn \o Drawing(Append(stream, Out(s))) \in Seq(Drawn)
    BY <2>a, <2>b
  <2> USE DEF Drawn
  <2>3. open' = <<>> /\ seen' = 0 /\ UNCHANGED <<mode, dirty, cur, dev, uni, exact>>
    BY <1>7 DEF PrimitiveEnd
  <2>4. CASE Flushes("immediate")
    <3>1. /\ drawn' = drawn \o Drawing(Append(stream, Out(s)))
          /\ stream' = <<>> /\ tail' = NoTail /\ batch' = FALSE /\ unit0' = TRUE
      BY <1>7, <2>4 DEF PrimitiveEnd
    <3>2. stream' \in Seq(What) /\ tail' \in [kind : {"none", "list", "strip"}, odd : BOOLEAN]
      BY <3>1 DEF NoTail
    <3> QED
      BY <2>2, <2>3, <3>1, <3>2 DEF TypeOK
  <2>5. CASE ~Flushes("immediate")
    <3>1. /\ stream' = Append(stream, Out(s)) /\ tail' = Joined(s)
          /\ UNCHANGED <<drawn, batch, unit0>>
      BY <1>7, <2>5 DEF PrimitiveEnd
    <3> QED
      BY <2>1, <2>3, <3>1, OutType DEF TypeOK
  <2> QED
    BY <2>4, <2>5
<1>8. CASE VertexSubmit
  <2>1. Item("model", IF dirty THEN cur ELSE DrawnWith) \in Drawn
    BY RenderedType DEF Item, What, With, TypeOK, DrawnWith
  <2>2. drawn' \in Seq(Drawn)
    <3> HIDE DEF Drawn
    <3>1. AfterFlush("deferred") \in Seq(Drawn)
      BY AfterFlushType
    <3>2. drawn' = Append(AfterFlush("deferred"), Item("model", IF dirty THEN cur ELSE DrawnWith))
      BY <1>8 DEF VertexSubmit
    <3> QED
      BY <2>1, <3>1, <3>2
  <2>3. cur' = cur /\ open' = open /\ mode' = mode /\ unit0' = TRUE /\ seen' = 0 /\ Emptied("deferred")
    BY <1>8 DEF VertexSubmit
  <2>4. batch' \in BOOLEAN
    BY <1>8, Zenon DEF VertexSubmit, TypeOK
  <2>5. /\ dev' \in [st : States, tex : Tex]
        /\ uni' \in [Programs -> States \cup {Unset}] /\ dirty' \in BOOLEAN /\ exact' \in BOOLEAN
    BY <1>8, <2>3, SendType DEF VertexSubmit, TypeOK
  <2> QED
    BY <2>2, <2>3, <2>4, <2>5, EmptiedType DEF TypeOK
<1>9. CASE ReadBack
  <2>1. BatchFlush("deferred") /\ seen' = Len(drawn')
        /\ UNCHANGED <<mode, dirty, cur, dev, uni, exact, open>>
    BY <1>9 DEF ReadBack
  <2>2. drawn' \in Seq(Drawn)
    BY <2>1, FlushType
  <2>3. seen' \in Nat
    BY <2>1, <2>2
  <2> QED
    BY <2>1, <2>3, FlushType DEF TypeOK
<1>10. CASE ScreenRefresh
  <2>1. seen' \in Nat
    BY <1>10, DrawingType DEF ScreenRefresh, Pending, TypeOK
  <2>2. UNCHANGED <<mode, dirty, cur, dev, uni, exact, open>> /\ drawn' = <<>>
    BY <1>10 DEF ScreenRefresh
  <2>3. unit0' \in BOOLEAN /\ batch' \in BOOLEAN
    BY <1>10, Zenon DEF ScreenRefresh, TypeOK
  <2>4. stream' \in Seq(What) /\ tail' \in [kind : {"none", "list", "strip"}, odd : BOOLEAN]
    <3>1. CASE LastFlush
      <4>1. stream' = <<>> /\ tail' = NoTail
        BY <1>10, <3>1, Zenon DEF ScreenRefresh
      <4> QED
        BY <4>1 DEF NoTail
    <3>2. CASE ~LastFlush
      <4>1. stream' = stream /\ tail' = tail
        BY <1>10, <3>2, Zenon DEF ScreenRefresh
      <4> QED
        BY <4>1 DEF TypeOK
    <3> QED
      BY <3>1, <3>2
  <2> QED
    BY <2>1, <2>2, <2>3, <2>4 DEF TypeOK
<1>11. ASSUME NEW m \in Modes, SetBatchMode(m) PROVE TypeOK'
  <2>1. CASE mode \notin {"immediate", m}
    <3>1. BatchFlush(mode) /\ mode' = m /\ seen' = 0 /\ UNCHANGED <<dirty, cur, dev, uni, exact, open>>
      BY <1>11, <2>1 DEF SetBatchMode
    <3> QED
      BY <3>1, FlushType DEF TypeOK
  <2>2. CASE ~(mode \notin {"immediate", m})
    <3>1. mode' = m /\ seen' = 0
          /\ UNCHANGED <<stream, tail, drawn, batch, unit0, dirty, cur, dev, uni, exact, open>>
      BY <1>11, <2>2 DEF SetBatchMode
    <3> QED
      BY <3>1 DEF TypeOK
  <2> QED
    BY <2>1, <2>2
<1>12. CASE UNCHANGED vars
  BY <1>12 DEF vars, TypeOK
<1> QED
  BY <1>1, <1>2, <1>2v, <1>3, <1>4, <1>5, <1>6, <1>7, <1>8, <1>9, <1>10, <1>11, <1>12 DEF Next

\* The types hold when the game begins.
LEMMA TypeInit == Init => TypeOK
<1> SUFFICES ASSUME Init PROVE TypeOK
  OBVIOUS
<1>1. cur \in With /\ cur.st \in States /\ cur.tex \in Textures \cup {NoTexture}
  BY DEF Init, With
<1>2. dev \in [st : States, tex : Textures \cup {NoTexture}]
  BY <1>1 DEF Init
<1>3. uni \in [Programs -> States \cup {Unset}]
  BY <1>1 DEF Init
<1>4. tail \in [kind : {"none", "list", "strip"}, odd : BOOLEAN]
  BY DEF Init, NoTail
<1>5. stream \in Seq(What) /\ drawn \in Seq(Drawn) /\ seen \in Nat /\ open \in With \cup {<<>>}
  BY DEF Init
<1>6. mode \in Modes /\ batch \in BOOLEAN /\ dirty \in BOOLEAN /\ unit0 \in BOOLEAN
      /\ exact \in BOOLEAN
  BY DEF Init, Modes
<1> QED
  BY <1>1, <1>2, <1>3, <1>4, <1>5, <1>6 DEF TypeOK, Drawn

\* Every variable keeps its type, whatever is called.  (GSprimitives.cpp)
THEOREM TypeCorrect == Spec => []TypeOK
  BY TypeInit, TypeStep, PTL DEF Spec

-----------------------------------------------------------------------------
(* The device is in step                                                   *)

\* What a flush leaves: what was pending is drawn, and nothing is left in the
\* stream, unless the batch is not of its kind.
LEMMA Flushed ==
  ASSUME TypeOK, BatchMarked, NEW k \in Modes, BatchFlush(k),
         mode = k \/ k = "deferred"
  PROVE  /\ mode = "never" \/ stream' = <<>>
         /\ drawn' = drawn \o Pending
         /\ stream' # <<>> => batch' /\ stream' = stream /\ mode # k
         /\ mode = "immediate" => stream' = <<>>
<1>1. drawn \in Seq(Drawn) /\ drawn \o <<>> = drawn
  BY DEF TypeOK, Drawn
<1>2. CASE Flushes(k)
  <2>1. stream' = <<>> /\ drawn' = drawn \o Pending
    BY <1>2 DEF BatchFlush, Emptied, AfterFlush
  <2> QED
    BY <2>1
<1>3. CASE ~Flushes(k)
  <2>1. stream' = stream /\ drawn' = drawn /\ (batch' <=> batch /\ mode # k)
    BY <1>3 DEF BatchFlush, Emptied, AfterFlush, TypeOK
  <2>2. mode = "never" \/ stream = <<>>
    BY <1>3 DEF Flushes, BatchMarked, TypeOK, Modes
  <2>3. Pending = <<>>
    BY <2>2 DEF Pending, Drawing
  <2>4. stream # <<>> => batch /\ mode # k
    BY <1>3 DEF Flushes, BatchMarked
  <2> QED
    BY <1>1, <2>1, <2>2, <2>3, <2>4 DEF BatchMarked
<1> QED
  BY <1>2, <1>3

\* Sending the state puts the device in step with what is set.
LEMMA Sent ==
  ASSUME TypeOK, cur' \in With, SendState PROVE ~dirty' /\ exact' /\ Rendered' = cur'
  BY DEF TypeOK, SendState, Rendered, With

\* A call that changes neither the state nor the batch keeps the invariant.
LEMMA Unmoved ==
  ASSUME UNCHANGED <<dev, uni>>, cur'.prog = cur.prog, cur'.target = cur.target
  PROVE  Rendered' = Rendered
  BY DEF Rendered

\* Every call keeps the invariant.
LEMMA InvStep ==
  ASSUME IInv, [Next]_vars
  PROVE  Synced' /\ OpenIsCurrent' /\ BatchMarked'
<1> USE DEF IInv
<1>1. ASSUME NEW s \in States, SetState(s) PROVE Synced' /\ OpenIsCurrent' /\ BatchMarked'
  <2>1. Rendered' = Rendered
    BY <1>1, Unmoved DEF SetState, TypeOK, With
  <2> QED
    BY <1>1, <2>1 DEF SetState, Synced, OpenIsCurrent, BatchMarked
<1>2. ASSUME NEW g \in Targets, NEW s \in States, SetTarget(g, s)
      PROVE Synced' /\ OpenIsCurrent' /\ BatchMarked'
  <2>1. BatchFlush("deferred") /\ open = <<>> /\ open' = open /\ mode' = mode /\ dirty'
    BY <1>2 DEF SetTarget, Idle
  <2> QED
    BY <2>1, Flushed DEF Synced, OpenIsCurrent, BatchMarked, Modes
<1>2v. ASSUME NEW g \in Targets, SetViewport(g) PROVE Synced' /\ OpenIsCurrent' /\ BatchMarked'
  <2>1. /\ BatchFlush("deferred") /\ open = <<>> /\ open' = open /\ mode' = mode
        /\ UNCHANGED <<dirty, exact, dev, uni>> /\ cur' = [cur EXCEPT !.target = g]
    BY <1>2v DEF SetViewport, Idle
  <2>2. ASSUME ~dirty, exact PROVE Rendered' = cur'
    BY <2>1, <2>2 DEF Synced, Rendered, With, TypeOK
  <2> QED
    BY <2>1, <2>2, Flushed DEF Synced, OpenIsCurrent, BatchMarked, Modes
<1>3. ASSUME NEW t \in Textures \cup {NoTexture}, TextureSet(t)
      PROVE Synced' /\ OpenIsCurrent' /\ BatchMarked'
  <2>1. Rendered' = Rendered
    BY <1>3, Unmoved DEF TextureSet, TypeOK, With
  <2>2. ~dirty' => cur' = cur /\ ~dirty
    BY <1>3 DEF TextureSet, TypeOK, With
  <2> QED
    BY <1>3, <2>1, <2>2 DEF TextureSet, Synced, OpenIsCurrent, BatchMarked
<1>4. ASSUME NEW t \in Textures \cup {NoTexture}, TextureTouch(t)
      PROVE Synced' /\ OpenIsCurrent' /\ BatchMarked'
  <2>1. UNCHANGED <<mode, batch, dirty, cur, uni, stream, open>>
    BY <1>4 DEF TextureTouch
  <2>2. exact' => exact /\ (dev' = dev \/ (dirty /\ open = <<>>))
    BY <1>4, Zenon DEF TextureTouch, Idle
  <2>3. exact' => exact /\ (Rendered' = Rendered \/ (dirty /\ open = <<>>))
    BY <2>1, <2>2, Unmoved
  <2> QED
    BY <2>1, <2>3 DEF Synced, OpenIsCurrent, BatchMarked
<1>5. ASSUME NEW t \in Textures \cup {NoTexture}, PrimitiveBegin(t)
      PROVE Synced' /\ OpenIsCurrent' /\ BatchMarked'
  <2>1. cur' \in With /\ open' = cur' /\ batch' /\ mode' = mode
    BY <1>5 DEF PrimitiveBegin, TypeOK, With
  <2>2. (exact' => Rendered' = cur') /\ (mode = "immediate" => stream' = <<>>)
    <3>1. CASE dirty \/ cur.tex # t
      <4>1. SendState /\ Emptied("deferred")
        BY <1>5, <3>1 DEF PrimitiveBegin
      <4> QED
        BY <2>1, <4>1, Sent DEF Emptied, BatchMarked
    <3>2. CASE ~(dirty \/ cur.tex # t)
      <4>1. cur' = cur /\ ~dirty /\ UNCHANGED <<dev, uni, exact, stream>>
        BY <1>5, <3>2 DEF PrimitiveBegin, TypeOK, With
      <4> QED
        BY <4>1, Unmoved DEF Synced, BatchMarked
    <3> QED
      BY <3>1, <3>2
  <2> QED
    BY <2>1, <2>2 DEF Synced, OpenIsCurrent, BatchMarked
<1>6. ASSUME NEW p \in Programs, ProgramSet(p) PROVE Synced' /\ OpenIsCurrent' /\ BatchMarked'
  <2>1. /\ BatchFlush("deferred") /\ open = <<>> /\ open' = open /\ mode' = mode
        /\ UNCHANGED <<dirty, dev, uni>> /\ cur' = [cur EXCEPT !.prog = p]
    BY <1>6 DEF ProgramSet, Idle
  <2>e. exact' => exact /\ (dirty \/ uni[p] = cur.st)
    BY <1>6, Zenon DEF ProgramSet
  <2>2. ASSUME ~dirty, exact' PROVE Rendered' = cur'
    <3>1. Rendered = cur /\ cur \in With /\ uni[p] = cur.st
      BY <2>e, <2>2 DEF Synced, TypeOK
    <3>2. dev.st = cur.st /\ dev.tex = cur.tex
      BY <3>1, ConstantsAssumption DEF Rendered, With, TypeOK
    <3> QED
      BY <2>1, <3>1, <3>2 DEF Rendered, With
  <2> QED
    BY <2>1, <2>2, Flushed DEF Synced, OpenIsCurrent, BatchMarked, Modes
<1>7. ASSUME NEW s \in Shapes, PrimitiveEnd(s) PROVE Synced' /\ OpenIsCurrent' /\ BatchMarked'
  <2>1. open # <<>> /\ open' = <<>> /\ UNCHANGED <<mode, dirty, cur, dev, uni, exact>>
    BY <1>7 DEF PrimitiveEnd, Idle
  <2>2. Rendered' = Rendered
    BY <2>1, Unmoved
  <2>3. batch
    BY <2>1 DEF OpenIsCurrent
  <2>4. BatchMarked'
    BY <1>7, <2>1, <2>3 DEF PrimitiveEnd, Flushes, BatchMarked
  <2> QED
    BY <2>1, <2>2, <2>4 DEF Synced, OpenIsCurrent
<1>8. CASE VertexSubmit
  <2>1. open = <<>> /\ open' = open /\ cur' = cur /\ mode' = mode /\ Emptied("deferred")
    BY <1>8 DEF VertexSubmit, Idle
  <2>2. (dirty /\ SendState) \/ (~dirty /\ UNCHANGED <<dev, uni, dirty, exact>>)
    BY <1>8 DEF VertexSubmit
  <2>3. Synced'
    BY <2>1, <2>2, Sent, Unmoved DEF Synced, TypeOK
  <2>4. batch' <=> batch /\ mode # "deferred"
    BY <1>8 DEF VertexSubmit, TypeOK
  <2>5. BatchMarked'
    BY <2>1, <2>4 DEF Emptied, Flushes, BatchMarked
  <2> QED
    BY <2>1, <2>3, <2>5 DEF OpenIsCurrent
<1>9. CASE ReadBack
  <2>1. BatchFlush("deferred") /\ open = <<>> /\ UNCHANGED <<mode, dirty, cur, dev, uni, exact, open>>
    BY <1>9 DEF ReadBack, Idle
  <2> QED
    BY <2>1, Flushed, Unmoved DEF Synced, OpenIsCurrent, BatchMarked, Modes
<1>10. CASE ScreenRefresh
  <2>1. open = <<>> /\ UNCHANGED <<mode, dirty, cur, dev, uni, exact, open>>
    BY <1>10 DEF ScreenRefresh, Idle
  <2>2. BatchMarked'
    BY <1>10, <2>1 DEF ScreenRefresh, LastFlush, Flushes, BatchMarked
  <2> QED
    BY <2>1, <2>2, Unmoved DEF Synced, OpenIsCurrent
<1>11. ASSUME NEW m \in Modes, SetBatchMode(m) PROVE Synced' /\ OpenIsCurrent' /\ BatchMarked'
  <2>1. mode' = m /\ UNCHANGED <<dirty, cur, dev, uni, exact, open>>
    BY <1>11 DEF SetBatchMode
  <2>2. Rendered' = Rendered
    BY <2>1, Unmoved
  <2>3. CASE mode \notin {"immediate", m}
    <3>1. BatchFlush(mode) /\ open = <<>> /\ mode \in Modes
      BY <1>11, <2>3 DEF SetBatchMode, Idle, TypeOK
    <3>2. stream' = <<>>
      BY <3>1, Flushed
    <3> QED
      BY <2>1, <2>2, <3>1, <3>2 DEF Synced, OpenIsCurrent, BatchMarked
  <2>4. CASE ~(mode \notin {"immediate", m})
    <3>1. UNCHANGED <<stream, tail, drawn, batch, unit0>>
      BY <1>11, <2>4 DEF SetBatchMode
    <3> QED
      BY <2>1, <2>2, <2>4, <3>1 DEF Synced, OpenIsCurrent, BatchMarked
  <2> QED
    BY <2>3, <2>4
<1>12. CASE UNCHANGED vars
  BY <1>12, Unmoved DEF vars, Synced, OpenIsCurrent, BatchMarked
<1> QED
  BY <1>1, <1>2, <1>2v, <1>3, <1>4, <1>5, <1>6, <1>7, <1>8, <1>9, <1>10, <1>11, <1>12 DEF Next

\* The invariant holds when the game begins.
LEMMA InvInit == Init => IInv
<1> SUFFICES ASSUME Init PROVE IInv
  OBVIOUS
<1>1. TypeOK
  BY TypeInit
<1>2. Synced
  BY <1>1 DEF Init, Synced, Rendered, With, TypeOK
<1> QED
  BY <1>1, <1>2 DEF IInv, Init, OpenIsCurrent, BatchMarked

\* The invariant holds of every state the calls lead to.
LEMMA Invariance == Spec => []IInv
<1>1. IInv /\ [Next]_vars => IInv'
  BY TypeStep, InvStep DEF IInv
<1> QED
  BY <1>1, InvInit, PTL DEF Spec

\* A clean state is the one the device draws with, whatever was called, unless
\* a program was set, or a texture bound, behind it since it was last sent.
\* (draw_state_flush, draw_batch_begin_deferred)
THEOREM StateSynced == Spec => []Synced
<1>1. IInv => Synced
  BY DEF IInv
<1> QED
  BY <1>1, Invariance, PTL

-----------------------------------------------------------------------------
(* The batch does not show                                                 *)

\* What is drawn with, and so what is in the batch, as one step leaves it.
LEMMA PendingKeeps ==
  ASSUME DrawnWith' = DrawnWith, stream' = stream, mode' = mode PROVE Pending' = Pending
  BY DEF Pending, Drawing, Item

\* What a primitive is drawn with, where the calls leave the device alone.
LEMMA DrawnWithKeeps ==
  ASSUME UNCHANGED <<dev, uni, exact>>, cur'.prog = cur.prog, cur'.target = cur.target
  PROVE  DrawnWith' = DrawnWith
  BY Unmoved DEF DrawnWith

\* A strip may only be parted from the one before it: the batch was flushed.
LEMMA Parted ==
  ASSUME TypeOK, tail' = NoTail \/ tail' = tail
  PROVE  Immediate!MayPart
<1>1. CASE tail' = NoTail
  <2>1. (tail.kind = "strip" /\ tail.odd)' = FALSE
    BY <1>1 DEF NoTail
  <2> QED
    BY <2>1 DEF Immediate!MayPart
<1>2. CASE tail' = tail
  <2>1. (tail.kind = "strip" /\ tail.odd)' = (tail.kind = "strip" /\ tail.odd)
    BY <1>2
  <2> QED
    BY <2>1 DEF Immediate!MayPart
<1> QED
  BY <1>1, <1>2

\* A flush parts the strips, or leaves the tail as it is.
LEMMA FlushParts ==
  ASSUME TypeOK, NEW k, Emptied(k) \/ BatchFlush(k) PROVE tail' = NoTail \/ tail' = tail
  BY DEF Emptied, BatchFlush

\* A step that keeps what comes out on the screen, and changes nothing the
\* abstract specification sees but the current state.
LEMMA Changes ==
  ASSUME IInv, cur' \in With, mode' = mode, open' = open, seen' = 0, dirty' \in BOOLEAN,
         dirty \/ cur'.st # cur.st \/ cur'.tex # cur.tex => dirty',
         exact' = exact \/ (exact' = FALSE /\ ~dirty /\ cur'.prog # cur.prog),
         tail' = NoTail \/ tail' = tail,
         drawn' \o Pending' = drawn \o Pending
  PROVE  Immediate!Change
<1>1. Immediate!MayPart
  BY Parted DEF IInv
<1>2. exact' \in {exact, exact /\ (dirty \/ cur'.prog = cur.prog)}
  <2>1. CASE exact' = exact
    BY <2>1
  <2>2. CASE exact' = FALSE /\ ~dirty /\ cur'.prog # cur.prog
    <3>1. exact' = (exact /\ (dirty \/ cur'.prog = cur.prog))
      BY <2>2 DEF IInv, TypeOK
    <3> QED
      BY <3>1
  <2> QED
    BY <2>1, <2>2
<1> QED
  BY <1>1, <1>2 DEF Immediate!Change

\* A flush is not seen in what has been drawn and is still to be drawn.
LEMMA FlushKeeps ==
  ASSUME IInv, NEW k \in Modes, BatchFlush(k), mode' = mode, k = "deferred"
  PROVE  drawn' \o Pending' = drawn \o Pending
<1>1. drawn' = drawn \o Pending /\ (mode' = "never" \/ stream' = <<>>)
  BY Flushed DEF IInv
<1>2. Pending' = <<>>
  BY <1>1 DEF Pending, Drawing
<1>3. drawn' \in Seq(Drawn)
  BY FlushType DEF IInv
<1> QED
  BY <1>1, <1>2, <1>3, ConcatEmpty

\* What was known in the batch no longer is: that may be told from the screen.
LEMMA Blurs ==
  ASSUME IInv, exact' = FALSE, UNCHANGED <<mode, stream, drawn>>
  PROVE  \E n \in 0..Len(drawn \o Pending) :
           drawn' \o Pending' =
             [i \in 1..Len(drawn \o Pending) |->
                IF i <= n THEN (drawn \o Pending)[i]
                ELSE Item((drawn \o Pending)[i].what, NotKnown)]
<1> DEFINE all == drawn \o Pending
           n == Len(drawn)
           blur == [i \in 1..Len(all) |-> IF i <= n THEN all[i] ELSE Item(all[i].what, NotKnown)]
<1>1. drawn \in Seq(Drawn) /\ Pending \in Seq(Drawn) /\ stream \in Seq(What)
  <2>1. drawn \in Seq(Drawn) /\ stream \in Seq(What)
    BY DEF IInv, TypeOK, Drawn
  <2> QED
    BY <2>1, DrawingType DEF IInv, Pending
<1> HIDE DEF Drawn
<1>2. DrawnWith' = NotKnown
  BY DEF DrawnWith
<1>3. CASE mode = "never"
  <2>1. Pending = <<>> /\ Pending' = <<>>
    BY <1>3 DEF Pending, Drawing
  <2>2. all = drawn /\ drawn' \o Pending' = drawn
    BY <1>1, <2>1
  <2>3. blur = all
    BY <1>1, <2>2
  <2> QED
    BY <1>1, <2>2, <2>3
<1>4. CASE mode # "never"
  <2>1. Pending = [i \in 1..Len(stream) |-> Item(stream[i], DrawnWith)]
        /\ Pending' = [i \in 1..Len(stream) |-> Item(stream[i], NotKnown)]
    BY <1>2, <1>4 DEF Pending, Drawing
  <2>2. Len(Pending) = Len(stream) /\ Len(Pending') = Len(stream) /\ Len(stream) \in Nat /\ n \in Nat
    BY <1>1, <2>1
  <2>3. Len(all) = n + Len(stream)
    BY <1>1, <2>2
  <2>4. drawn \o Pending' = [i \in 1..(n + Len(stream)) |->
                               IF i <= n THEN drawn[i] ELSE Pending'[i - n]]
    BY <1>1, <2>1, <2>2
  <2>5. ASSUME NEW i \in 1..(n + Len(stream))
        PROVE  blur[i] = IF i <= n THEN drawn[i] ELSE Pending'[i - n]
    <3>1. CASE i <= n
      BY <1>1, <2>2, <2>3, <3>1
    <3>2. CASE i > n
      <4>1. i - n \in 1..Len(stream) /\ all[i] = Pending[i - n]
        BY <1>1, <2>2, <3>2
      <4>2. all[i].what = stream[i - n]
        BY <2>1, <4>1 DEF Item
      <4> QED
        BY <2>1, <2>2, <2>3, <3>2, <4>1, <4>2
    <3> QED
      BY <2>2, <3>1, <3>2
  <2>6. blur = drawn \o Pending'
    <3> HIDE DEF all, n
    <3> QED
      BY <2>3, <2>4, <2>5
  <2>7. n \in 0..Len(all)
    BY <2>2, <2>3
  <2> QED
    BY <2>6, <2>7
<1> QED
  BY <1>3, <1>4

\* Every call is one of drawing at once, or none.
LEMMA ImplStep ==
  ASSUME IInv, [Next]_vars
  PROVE  [Immediate!Next]_(Immediate!vars)
<1> USE DEF IInv
<1> DEFINE Tex == Textures \cup {NoTexture}
<1> DEFINE Impl == [Immediate!Next]_(Immediate!vars)
<1>0. Immediate!Change \/ Immediate!Bind \/ Immediate!Switch \/ Immediate!Begin
        \/ Immediate!Look \/ Immediate!Draw => Impl
  BY DEF Immediate!Next
<1>d. \A s \in Shapes : Immediate!End(s) => Impl
  BY DEF Immediate!Next
<1>t. drawn \in Seq(Drawn) /\ Pending \in Seq(Drawn) /\ stream \in Seq(What)
      /\ drawn \o <<>> = drawn /\ drawn \o Pending \in Seq(Drawn)
  <2>1. drawn \in Seq(Drawn) /\ stream \in Seq(What)
    BY DEF TypeOK, Drawn
  <2>2. Pending \in Seq(Drawn)
    BY <2>1, DrawingType DEF Pending
  <2> QED
    BY <2>1, <2>2
<1>1. ASSUME NEW s \in States, SetState(s) PROVE Immediate!Change
  <2>1. cur' \in With /\ cur'.prog = cur.prog /\ cur'.target = cur.target /\ dirty'
        /\ UNCHANGED <<mode, dev, uni, stream, tail, exact, open, drawn>> /\ seen' = 0
    BY <1>1 DEF SetState, TypeOK, With
  <2> QED
    BY <2>1, DrawnWithKeeps, PendingKeeps, Changes
<1>2. ASSUME NEW g \in Targets, NEW s \in States, SetTarget(g, s) PROVE Immediate!Change
  <2>1. cur' \in With /\ BatchFlush("deferred") /\ open' = open /\ mode' = mode /\ seen' = 0
        /\ dirty' /\ exact' = exact
    BY <1>2 DEF SetTarget, TypeOK, With
  <2> QED
    BY <2>1, FlushKeeps, FlushParts, Changes DEF Modes
<1>2v. ASSUME NEW g \in Targets, SetViewport(g) PROVE Immediate!Change
  <2>1. cur' \in With /\ BatchFlush("deferred") /\ open' = open /\ mode' = mode /\ seen' = 0
        /\ UNCHANGED <<dirty, exact>> /\ cur'.st = cur.st /\ cur'.tex = cur.tex
    BY <1>2v DEF SetViewport, TypeOK, With
  <2> QED
    BY <2>1, FlushKeeps, FlushParts, Changes DEF Modes, TypeOK
<1>3. ASSUME NEW t \in Tex, TextureSet(t) PROVE Immediate!Change
  <2>1. cur' \in With /\ cur'.prog = cur.prog /\ cur'.target = cur.target /\ cur'.st = cur.st
        /\ UNCHANGED <<mode, dev, uni, stream, tail, exact, open, drawn>> /\ seen' = 0
    BY <1>3 DEF TextureSet, TypeOK, With
  <2>2. dirty' \in BOOLEAN /\ (dirty \/ cur'.tex # cur.tex => dirty')
    <3>1. cur'.tex = t /\ dirty' = (dirty \/ cur.tex # t)
      BY <1>3 DEF TextureSet, TypeOK, With
    <3> QED
      BY <3>1
  <2> QED
    BY <2>1, <2>2, DrawnWithKeeps, PendingKeeps, Changes
<1>4. ASSUME NEW t \in Tex, TextureTouch(t) PROVE Immediate!Bind
  <2>1. seen' = 0 /\ UNCHANGED <<mode, batch, dirty, cur, uni, unit0, stream, tail, open, drawn>>
    BY <1>4 DEF TextureTouch
  <2>2. exact' \in BOOLEAN /\ (exact' => exact /\ (dev' = dev \/ stream = <<>>))
    BY <1>4, Zenon DEF TextureTouch, Idle, TypeOK
  <2>3. exact' \in {exact, FALSE}
    BY <2>2 DEF TypeOK
  <2>4. CASE exact'
    <3>1. Pending' = Pending
      <4>1. CASE dev' = dev
        BY <2>1, <2>2, <2>4, <4>1, DrawnWithKeeps, PendingKeeps DEF TypeOK
      <4>2. CASE stream = <<>>
        BY <2>1, <4>2 DEF Pending, Drawing
      <4> QED
        BY <2>2, <2>4, <4>1, <4>2
    <3> QED
      BY <2>1, <2>3, <3>1 DEF Immediate!Bind
  <2>5. CASE ~exact'
    <3>1. exact' = FALSE
      BY <2>2, <2>5
    <3> QED
      BY <2>1, <2>3, <3>1, Blurs DEF Immediate!Bind, Immediate!Item, Item
  <2> QED
    BY <2>4, <2>5
<1>5. ASSUME NEW t \in Tex, PrimitiveBegin(t) PROVE Immediate!Begin
  <2>1. cur' \in With /\ open' = cur' /\ mode' = mode /\ open = <<>> /\ seen' = 0
        /\ cur' = [cur EXCEPT !.tex = cur'.tex] /\ cur'.tex = t
    BY <1>5 DEF PrimitiveBegin, TypeOK, With, Idle
  <2>2. drawn' \o Pending' = drawn \o Pending /\ Immediate!Acts /\ Immediate!MayPart
    <3>1. CASE dirty \/ cur.tex # t
      <4>1. Emptied("deferred") /\ drawn' = AfterFlush("deferred") /\ SendState
        BY <1>5, <3>1 DEF PrimitiveBegin
      <4>a. Immediate!Acts /\ Immediate!MayPart
        <5>1. dirty' = FALSE /\ exact' = TRUE
          BY <4>1 DEF SendState
        <5>2. dirty \/ cur' # cur
          BY <2>1, <3>1
        <5> QED
          BY <4>1, <5>1, <5>2, FlushParts, Parted DEF Immediate!Acts
      <4>2. CASE Flushes("deferred")
        <5>1. drawn' = drawn \o Pending /\ stream' = <<>>
          BY <4>1, <4>2 DEF Emptied, AfterFlush
        <5>2. Pending' = <<>>
          BY <5>1 DEF Pending, Drawing
        <5> QED
          BY <1>t, <4>a, <5>1, <5>2, ConcatEmpty
      <4>3. CASE ~Flushes("deferred")
        <5>1. drawn' = drawn /\ stream' = stream
          BY <4>1, <4>3 DEF Emptied, AfterFlush
        <5>2. mode = "never" \/ stream = <<>>
          BY <4>3 DEF Flushes, BatchMarked, TypeOK, Modes
        <5>3. Pending = <<>> /\ Pending' = <<>>
          BY <2>1, <5>1, <5>2 DEF Pending, Drawing
        <5> QED
          BY <4>a, <5>1, <5>3
      <4> QED
        BY <4>2, <4>3
    <3>2. CASE ~(dirty \/ cur.tex # t)
      <4>1. cur' = cur /\ dirty = FALSE /\ UNCHANGED <<stream, tail, drawn, dev, uni, dirty, exact>>
        BY <1>5, <3>2 DEF PrimitiveBegin, TypeOK, With
      <4>2. Immediate!Acts /\ Immediate!MayPart
        BY <4>1, Parted DEF Immediate!Acts, TypeOK
      <4> QED
        BY <2>1, <4>1, <4>2, DrawnWithKeeps, PendingKeeps
    <3> QED
      BY <3>1, <3>2
  <2> QED
    BY <2>1, <2>2 DEF Immediate!Begin
<1>6. ASSUME NEW p \in Programs, ProgramSet(p) PROVE Immediate!Change
  <2>1. cur' \in With /\ BatchFlush("deferred") /\ open' = open /\ mode' = mode /\ seen' = 0
        /\ dirty' = dirty /\ cur'.st = cur.st /\ cur'.tex = cur.tex /\ cur'.prog # cur.prog
    BY <1>6 DEF ProgramSet, TypeOK, With
  <2>2. exact' = exact \/ (exact' = FALSE /\ ~dirty)
    <3>1. exact' = (exact /\ (dirty \/ uni[p] = cur.st))
      BY <1>6 DEF ProgramSet
    <3>2. CASE dirty \/ uni[p] = cur.st
      BY <3>1, <3>2, Zenon DEF TypeOK
    <3>3. CASE ~dirty /\ uni[p] # cur.st
      BY <3>1, <3>3, Zenon DEF TypeOK
    <3> QED
      BY <3>2, <3>3
  <2> QED
    BY <2>1, <2>2, FlushKeeps, FlushParts, Changes DEF Modes, TypeOK
<1>7. ASSUME NEW s \in Shapes, PrimitiveEnd(s) PROVE Immediate!End(s)
  <2>1. open # <<>> /\ open' = <<>> /\ seen' = 0 /\ UNCHANGED <<mode, dirty, cur, dev, uni, exact>>
    BY <1>7 DEF PrimitiveEnd, Idle
  <2>2. (exact => open = Rendered) /\ batch /\ DrawnWith' = DrawnWith /\ mode \in Modes
    BY <2>1, DrawnWithKeeps DEF OpenIsCurrent, TypeOK
  <2> DEFINE x == Out(s)
             all == drawn \o Drawing(Append(stream, x))
             it == Item(x, DrawnWith)
             odd == tail.kind = "strip" /\ tail.odd
  <2>x. x \in What /\ x = (IF odd /\ s # "list" THEN "turned" ELSE "plain")
    BY OutType DEF Out, Turned, Kind
  <2>k. DrawnWith = Immediate!Known(open)
    BY <2>2 DEF Immediate!Known, DrawnWith
  <2>o. (tail.kind = "strip" /\ tail.odd)' \in {FALSE, s # "list" /\ (s = "oddstrip") # odd}
    <3>1. CASE tail' = NoTail
      BY <3>1 DEF NoTail
    <3>2. CASE tail' = Joined(s)
      <4>1. CASE s = "list"
        BY <3>2, <4>1 DEF Joined, Kind
      <4>2. CASE s # "list"
        <5>1. tail'.kind = "strip" /\ tail'.odd = ((s = "oddstrip") # odd)
          BY <3>2, <4>2 DEF Joined, Kind
        <5>2. (tail.kind = "strip" /\ tail.odd)' = (s # "list" /\ (s = "oddstrip") # odd)
          BY <4>2, <5>1
        <5> QED
          BY <5>2
      <4> QED
        BY <4>1, <4>2
    <3>3. tail' = NoTail \/ tail' = Joined(s)
      BY <1>7 DEF PrimitiveEnd
    <3> QED
      BY <3>1, <3>2, <3>3
  <2>3. it \in Drawn
    BY <2>x, RenderedType DEF Item, Drawn, DrawnWith
  <2>a. Append(stream, x) \in Seq(What) /\ Drawing(Append(stream, x)) \in Seq(Drawn)
    <3>1. Append(stream, x) \in Seq(What)
      BY <1>t, <2>x
    <3> QED
      BY <3>1, DrawingType
  <2> HIDE DEF x, odd
  <2>4. drawn' \o Pending' = all
    <3>1. CASE mode = "immediate"
      <4>1. Flushes("immediate")
        BY <2>2, <3>1 DEF Flushes
      <4>2. drawn' = all /\ stream' = <<>>
        BY <1>7, <4>1 DEF PrimitiveEnd, x
      <4>3. Pending' = <<>>
        BY <4>2 DEF Pending, Drawing
      <4>4. all \in Seq(Drawn)
        <5> HIDE DEF Drawn
        <5> QED
          BY <1>t, <2>a
      <4> QED
        BY <4>2, <4>3, <4>4, ConcatEmpty
    <3>2. CASE mode # "immediate"
      <4>1. drawn' = drawn /\ stream' = Append(stream, x)
        BY <1>7, <3>2 DEF PrimitiveEnd, Flushes, x
      <4>2. Pending' = Drawing(Append(stream, x))
        BY <2>1, <2>2, <4>1 DEF Pending, Drawing, Item
      <4> QED
        BY <4>1, <4>2
    <3> QED
      BY <3>1, <3>2
  <2> HIDE DEF it
  <2>5. CASE mode # "never"
    <3>1. Drawing(Append(stream, x)) = Append(Pending, it)
      BY <1>t, <2>x, <2>5, DrawingAppend DEF Pending, it
    <3>2. drawn \o Append(Pending, it) = Append(drawn \o Pending, it)
      BY <1>t, <2>3, ConcatAppend
    <3>3. all = Append(drawn \o Pending, it)
      BY <3>1, <3>2
    <3>4. it = Immediate!Item(IF odd /\ s # "list" THEN "turned" ELSE "plain", Immediate!Known(open))
      BY <2>k, <2>x DEF it, Item, Immediate!Item
    <3> QED
      BY <2>1, <2>4, <2>5, <2>o, <3>3, <3>4 DEF Immediate!End, odd
  <2>6. CASE mode = "never"
    <3>1. all = drawn \o Pending
      BY <2>6 DEF Drawing, Pending
    <3> QED
      BY <2>1, <2>4, <2>6, <2>o, <3>1 DEF Immediate!End, odd
  <2> QED
    BY <2>5, <2>6
<1>8. CASE VertexSubmit
  <2> DEFINE it == Item("model", IF dirty THEN cur ELSE DrawnWith)
  <2>1. open = <<>> /\ open' = open /\ cur' = cur /\ mode' = mode /\ seen' = 0
        /\ Emptied("deferred")
        /\ drawn' = Append(AfterFlush("deferred"), it)
    BY <1>8 DEF VertexSubmit, Idle
  <2>2. (IF dirty THEN cur ELSE DrawnWith) = (IF dirty THEN cur ELSE Immediate!Known(cur))
    BY DEF Synced, DrawnWith, Immediate!Known
  <2>3. AfterFlush("deferred") = drawn \o Pending /\ Pending' = <<>>
    <3>1. CASE Flushes("deferred")
      BY <2>1, <3>1 DEF AfterFlush, Emptied, Pending, Drawing
    <3>2. CASE ~Flushes("deferred")
      <4>1. mode = "never" \/ stream = <<>>
        BY <3>2 DEF Flushes, BatchMarked, TypeOK, Modes
      <4>2. stream' = stream
        BY <2>1, <3>2 DEF Emptied
      <4>3. Pending = <<>> /\ Pending' = <<>>
        BY <2>1, <4>1, <4>2 DEF Pending, Drawing
      <4> QED
        BY <1>t, <3>2, <4>3 DEF AfterFlush
    <3> QED
      BY <3>1, <3>2
  <2>4. it \in Drawn
    BY RenderedType DEF Item, Drawn, What, TypeOK, With, DrawnWith
  <2>a. Immediate!Acts /\ Immediate!MayPart
    <3>1. Immediate!MayPart
      BY <2>1, FlushParts, Parted
    <3>2. CASE dirty
      <4>1. exact' = TRUE /\ dirty' = FALSE
        BY <1>8, <3>2 DEF VertexSubmit, SendState
      <4> QED
        BY <3>1, <3>2, <4>1 DEF Immediate!Acts
    <3>3. CASE ~dirty
      <4>1. exact' = exact /\ dirty' = FALSE /\ dirty = FALSE
        BY <1>8, <3>3 DEF VertexSubmit, TypeOK
      <4> QED
        BY <2>1, <3>1, <4>1 DEF Immediate!Acts, TypeOK
    <3> QED
      BY <3>2, <3>3
  <2> HIDE DEF it
  <2>5. drawn' \o Pending' = Append(drawn \o Pending, it)
    <3>1. drawn' = Append(drawn \o Pending, it)
      BY <2>1, <2>3
    <3>2. drawn' \in Seq(Drawn)
      <4> HIDE DEF Drawn
      <4> QED
        BY <1>t, <2>4, <3>1
    <3> QED
      BY <2>3, <3>1, <3>2, ConcatEmpty
  <2>6. Immediate!Draw
    BY <2>1, <2>2, <2>5, <2>a DEF Immediate!Draw, Immediate!Item, Item, it
  <2> QED
    BY <1>0, <2>6
<1>9. CASE ReadBack
  <2>1. BatchFlush("deferred") /\ open = <<>> /\ UNCHANGED <<mode, cur, dirty, exact, open>>
        /\ seen' = Len(drawn')
    BY <1>9 DEF ReadBack, Idle
  <2>2. drawn' \o Pending' = drawn \o Pending
    BY <2>1, FlushKeeps DEF Modes
  <2>3. drawn' = drawn \o Pending
    BY <2>1, Flushed DEF Modes
  <2>4. Immediate!MayPart
    BY <2>1, FlushParts, Parted
  <2> QED
    BY <1>0, <2>1, <2>2, <2>3, <2>4 DEF Immediate!Look
<1>10. CASE ScreenRefresh
  <2>1. /\ open = <<>> /\ UNCHANGED <<mode, dirty, cur, dev, uni, exact, open>> /\ drawn' = <<>>
        /\ seen' = Len(drawn) + (IF LastFlush THEN Len(Pending) ELSE 0)
    BY <1>10 DEF ScreenRefresh, Idle
  <2>2. seen' = Len(drawn \o Pending) /\ (mode = "never" \/ stream' = <<>>)
    <3>1. Len(drawn \o Pending) = Len(drawn) + Len(Pending)
      BY <1>t
    <3>2. CASE LastFlush
      BY <1>10, <2>1, <3>1, <3>2 DEF ScreenRefresh
    <3>3. CASE ~LastFlush
      <4>1. stream = <<>> /\ stream' = stream
        BY <1>10, <3>3 DEF ScreenRefresh, LastFlush, Flushes, BatchMarked, TypeOK, Modes
      <4>2. Pending = <<>>
        BY <4>1 DEF Pending, Drawing
      <4> QED
        BY <1>t, <2>1, <3>1, <3>3, <4>1, <4>2
    <3> QED
      BY <3>2, <3>3
  <2>3. Pending' = <<>>
    BY <2>1, <2>2 DEF Pending, Drawing
  <2>4. drawn' \o Pending' = <<>>
    BY <2>1, <2>3
  <2>5. Immediate!MayPart
    <3>1. tail' = NoTail \/ tail' = tail
      BY <1>10 DEF ScreenRefresh
    <3> QED
      BY <3>1, Parted
  <2> QED
    BY <1>0, <2>1, <2>2, <2>4, <2>5 DEF Immediate!Look
<1>11. ASSUME NEW m \in Modes, SetBatchMode(m) PROVE Immediate!Switch
  <2>1. mode' = m /\ seen' = 0 /\ UNCHANGED <<dirty, cur, dev, uni, exact, open>>
    BY <1>11 DEF SetBatchMode
  <2>2. drawn' \o Pending' = drawn \o Pending /\ Immediate!MayPart
    <3>1. CASE mode \notin {"immediate", m}
      <4>1. BatchFlush(mode) /\ mode \in Modes
        BY <1>11, <3>1 DEF SetBatchMode, TypeOK
      <4>2. drawn' = drawn \o Pending /\ stream' = <<>>
        BY <4>1, Flushed
      <4>3. Pending' = <<>>
        BY <4>2 DEF Pending, Drawing
      <4> QED
        BY <1>t, <4>1, <4>2, <4>3, ConcatEmpty, FlushParts, Parted
    <3>2. CASE mode \in {"immediate", m}
      <4>1. UNCHANGED <<stream, tail, drawn>>
        BY <1>11, <3>2 DEF SetBatchMode
      <4>2. mode' = mode \/ stream = <<>>
        BY <2>1, <3>2 DEF BatchMarked
      <4>3. Pending' = Pending
        BY <2>1, <4>1, <4>2, DrawnWithKeeps, PendingKeeps DEF Pending, Drawing
      <4> QED
        BY <4>1, <4>3, Parted
    <3> QED
      BY <3>1, <3>2
  <2>3. (mode' # "never") \in BOOLEAN
    OBVIOUS
  <2> QED
    BY <2>1, <2>2, <2>3 DEF Immediate!Switch
<1>12. CASE UNCHANGED vars
  <2>1. Pending' = Pending
    BY <1>12, DrawnWithKeeps, PendingKeeps DEF vars
  <2> QED
    BY <1>12, <2>1 DEF vars, Immediate!vars
<1> HIDE DEF Impl
<1>21. ASSUME Next PROVE Impl
  <2>1. ASSUME NEW s \in States, SetState(s) \/ \E g \in Targets : SetTarget(g, s) PROVE Impl
    BY <1>0, <1>1, <1>2, <2>1
  <2>2. ASSUME NEW t \in Tex, TextureSet(t) \/ TextureTouch(t) \/ PrimitiveBegin(t) PROVE Impl
    BY <1>0, <1>3, <1>4, <1>5, <2>2
  <2>3. ASSUME NEW p \in Programs, ProgramSet(p) PROVE Impl
    BY <1>0, <1>6, <2>3
  <2>3v. ASSUME NEW g \in Targets, SetViewport(g) PROVE Impl
    BY <1>0, <1>2v, <2>3v
  <2>4. CASE VertexSubmit \/ ReadBack \/ ScreenRefresh
    BY <1>8, <1>9, <1>10, <2>4 DEF Impl
  <2>5. ASSUME NEW m \in Modes, SetBatchMode(m) PROVE Impl
    BY <1>0, <1>11, <2>5
  <2>6. CASE \E s \in States : SetState(s) \/ \E g \in Targets : SetTarget(g, s)
    BY <2>1, <2>6
  <2>7. CASE \E t \in Tex : TextureSet(t) \/ TextureTouch(t) \/ PrimitiveBegin(t)
    BY <2>2, <2>7
  <2>8. CASE \E p \in Programs : ProgramSet(p)
    BY <2>3, <2>8
  <2>8v. CASE \E g \in Targets : SetViewport(g)
    BY <2>3v, <2>8v
  <2>9. CASE \E s \in Shapes : PrimitiveEnd(s)
    BY <1>d, <1>7, <2>9
  <2>10. CASE \E m \in Modes : SetBatchMode(m)
    BY <2>5, <2>10
  <2> QED
    BY <1>21, <2>4, <2>6, <2>7, <2>8, <2>8v, <2>9, <2>10 DEF Next
<1>22. CASE UNCHANGED vars
  BY <1>12, <1>22 DEF Impl
<1> QED
  BY <1>21, <1>22 DEF Impl

\* Drawing in a batch, with state sent late, is drawing at once, but for what
\* the abstract specification gives up: the state after a change behind it, and
\* the side of a strip joined to an odd one.  (draw_batch_flush and its callers)
THEOREM Refinement == Spec => ImplementsImmediate
<1>1. Init => Immediate!Init
  <2> SUFFICES ASSUME Init PROVE Immediate!Init
    OBVIOUS
  <2>1. Pending = <<>>
    BY DEF Init, Pending, Drawing
  <2> QED
    BY <2>1 DEF Init, Immediate!Init, NoTail
<1>2. IInv /\ [Next]_vars => [Immediate!Next]_(Immediate!vars)
  BY ImplStep
<1> QED
  BY <1>1, <1>2, Invariance, PTL DEF Spec, ImplementsImmediate, Immediate!Spec

-----------------------------------------------------------------------------
(* DepthDraw: the invariant                                                *)

Place == Roots \cup Node
ListType == [next : [Place -> Node \cup {NULL}], prev : [Place -> Place \cup {NULL}]]

\* The list of depth d links the nodes of S, both ways and in the order in
\* which they were allocated.
ListOK(l, d, S) ==
  /\ \A x \in S \cup {Root(d)} :
       /\ l.next[x] \in S \cup {NULL}
       /\ l.next[x] # NULL => x < l.next[x]
       /\ \A y \in S : x < y => l.next[x] # NULL /\ l.next[x] <= y
  /\ \A y \in S : l.prev[y] \in S \cup {Root(d)} /\ l.next[l.prev[y]] = y
  /\ l.prev[Root(d)] \in S \cup {Root(d)} /\ l.next[l.prev[Root(d)]] = NULL

\* The members of each list, of the first u nodes: a node is in one of them.
Families(u) ==
  {M \in [Depths -> SUBSET (1..u)] : \A d, e \in Depths : d # e => M[d] \cap M[e] = {}}

ListsOK(l, M) == l \in ListType /\ \A d \in Depths : ListOK(l, d, M[d])

\* A redraw at layer L stands at at; B is what was linked when it began, T what
\* it has drawn.  It has drawn the members of B in the deeper lists, and in its
\* own up to at, and nothing of the lists that follow.
Shown(M, at, L, B, T) ==
  /\ \A d \in Depths : (d < L => M[d] \cap T = {}) /\ (L < d => B \cap M[d] \subseteq T)
  /\ \A n \in B \cap M[L] : n <= at => n \in T

\* W is what the loop can come across: the list of L and nodes that were in it.
\* Pointers lead forward and not out of W, and not over a node of B that is
\* still linked; behind at nothing has been drawn.
Way(l, M, at, L, B, T, W) ==
  /\ M[L] \subseteq W /\ \A d \in Depths : d # L => W \cap M[d] = {}
  /\ at \in W \cup {Root(L)}
  /\ \A x \in W \cup {Root(L)} :
       /\ l.next[x] \in W \cup {NULL}
       /\ l.next[x] # NULL => x < l.next[x]
       /\ \A n \in B \cap M[L] : x < n => l.next[x] # NULL /\ l.next[x] <= n
  /\ \A n \in W \cap T : n <= at

\* The lists of the depths by the depth D of each instance.
Members(lv, wh, D) == [d \in Depths |-> {n \in lv : D[wh[n]] = d}]

\* Instances and nodes name each other.
NodesOK(c) ==
  /\ c.used \in 0..MaxNode /\ c.live \subseteq 1..c.used
  /\ c.who \in [Node -> Inst \cup {NULL}] /\ c.myiter \in [Inst -> Node \cup {NULL}]
  /\ \A n \in c.live : c.who[n] \in Inst /\ c.myiter[c.who[n]] = n
  /\ \A i \in Inst : c.myiter[i] # NULL => c.myiter[i] \in c.live /\ c.who[c.myiter[i]] = i

\* The lists c, when every instance is in the list of its depth in D.
PlacesOK(c, D) ==
  /\ NodesOK(c)
  /\ \A n \in c.live : D[c.who[n]] \in Depths
  /\ ListsOK(c.l, Members(c.live, c.who, D))

\* A loop at layer L that stands at at, in the lists l of the first u nodes.
LoopOK(l, M, u, at, L, B, T) ==
  Shown(M, at, L, B, T) /\ \E W \in SUBSET (1..u) : Way(l, M, at, L, B, T, W)
WalkOK(c, D, at, L, B, T) == LoopOK(c.l, Members(c.live, c.who, D), c.used, at, L, B, T)

Now == [l |-> Lists, used |-> used, live |-> live, who |-> who, myiter |-> myiter]
DepthNow == [i \in Inst |-> Committed(i, rval[i])]

\* Where the loop of redraw k stands: the iterator is at that of the innermost,
\* and what it was for one further out is kept by the redraw within.
At(k) == IF k = Len(frames) THEN iter ELSE frames[k+1].push

\* The nodes redraw f has come to.
Ran(f) == {f.ran[k] : k \in 1..Len(f.ran)}

\* What no request can break: the places the pointers name are allocated.
Allocated ==
  /\ myiter \in [Inst -> {NULL} \cup 1..used]
  /\ \A x \in Roots \cup 1..used : prev[x] # NULL
  /\ \A i \in Inst : myiter[i] # NULL => rval[i] \in Depths
  /\ \A k \in 2..Len(frames) : frames[k].push # NULL

\* The last request on file is for the depth the instance has now.
RequestInv ==
  \A i \in Inst : myiter[i] # NULL /\ request[i] # NoRequest => request[i][2] = rval[i]

\* A redraw has come to no node twice.
FrameOK(f, u) ==
  /\ f.begun \subseteq 1..u /\ Ran(f) \subseteq 1..u
  /\ \A j, k \in 1..Len(f.ran) : f.ran[j] = f.ran[k] => j = k

\* Every redraw under way will come to what it has to draw, unless it is to be
\* abandoned.
FramesInv ==
  \A k \in 1..Len(frames) :
    /\ FrameOK(frames[k], used)
    /\ ~leaving => WalkOK(Now, DepthNow, At(k), frames[k].layer, frames[k].begun, Ran(frames[k]))

Sound == PlacesOK(Now, DepthNow) /\ RequestInv /\ FramesInv
DrawInv == DepthTypeOK /\ Allocated /\ (~stale => Sound)

-----------------------------------------------------------------------------
(* The lists of depths: nodes in order                                     *)

\* The places of the lists are integers: the roots are below 0, the nodes above,
\* NULL is 0 and no place.  (drawing_depths, inst_iter)
LEMMA PlaceFacts ==
  /\ Depths \subseteq Nat \ {0} /\ MaxNode \in Nat
  /\ \A d \in Depths : Root(d) \in Place /\ Root(d) \in Int /\ Root(d) < 0
  /\ \A d, e \in Depths : Root(d) = Root(e) => d = e
  /\ \A n \in Node : n \in Place /\ n \in Nat /\ n > 0 /\ n <= MaxNode
  /\ Place \subseteq Int /\ NULL \notin Place /\ NULL = 0
<1>1. Depths \subseteq Nat \ {0} /\ MaxNode \in Nat
  BY DepthsAssumption
<1>2. \A d \in Depths : Root(d) \in Roots
  BY DEF Roots
<1>3. ASSUME NEW x \in Roots PROVE x \in Int /\ x < 0
  BY <1>1, <1>3 DEF Roots, Root
<1>4. \A n \in Node : n \in Nat /\ n > 0 /\ n <= MaxNode
  BY <1>1 DEF Node
<1>5. \A d, e \in Depths : Root(d) = Root(e) => d = e
  BY <1>1 DEF Root
<1> QED BY <1>1, <1>2, <1>3, <1>4, <1>5 DEF Place, NULL

\* What the type of the lists says of the pointers.
LEMMA ListTypes ==
  ASSUME NEW l \in ListType
  PROVE  /\ l.next \in [Place -> Node \cup {NULL}] /\ l.prev \in [Place -> Place \cup {NULL}]
         /\ \A x \in Place : l.next[x] \in Node \cup {NULL}
  BY DEF ListType

\* add_inst and unlink on any lists, in order or not.
LEMMA AddTypes ==
  ASSUME NEW l \in ListType, NEW d \in Depths, NEW a \in Node, l.prev[Root(d)] # NULL
  PROVE  /\ Add(l, d, a) \in ListType
         /\ \A x \in Place : x = a \/ l.prev[x] # NULL => Add(l, d, a).prev[x] # NULL
<1> DEFINE r == Root(d)
           p == l.prev[r]
<1>1. l.next \in [Place -> Node \cup {NULL}] /\ l.prev \in [Place -> Place \cup {NULL}]
  BY ListTypes
<1>2. r \in Place /\ a \in Place /\ a # NULL /\ r # a
  BY PlaceFacts
<1>3. p \in Place /\ p # NULL
  BY <1>1, <1>2
<1>4. Add(l, d, a) = [next |-> [l.next EXCEPT ![p] = a, ![a] = NULL],
                      prev |-> [l.prev EXCEPT ![a] = p, ![r] = a]]
  BY DEF Add
<1> HIDE DEF p, r
<1>5. [l.next EXCEPT ![p] = a, ![a] = NULL] \in [Place -> Node \cup {NULL}]
  BY <1>1
<1>6. [l.prev EXCEPT ![a] = p, ![r] = a] \in [Place -> Place \cup {NULL}]
  BY <1>1, <1>2, <1>3
<1>7. \A x \in Place : [l.prev EXCEPT ![a] = p, ![r] = a][x] =
        IF x = r THEN a ELSE IF x = a THEN p ELSE l.prev[x]
  BY <1>1
<1> QED BY <1>2, <1>3, <1>4, <1>5, <1>6, <1>7 DEF ListType

\* unlink on any lists, in order or not.
LEMMA RemoveTypes ==
  ASSUME NEW l \in ListType, NEW d \in Depths, NEW w \in Node, l.prev[w] # NULL
  PROVE  /\ Remove(l, d, w) \in ListType
         /\ \A x \in Place : l.prev[x] # NULL => Remove(l, d, w).prev[x] # NULL
<1> DEFINE r == Root(d)
           p == l.prev[w]
           q == l.next[w]
           n1 == [l.next EXCEPT ![p] = q]
           p1 == IF q = NULL THEN l.prev ELSE [l.prev EXCEPT ![q] = p]
           n2 == IF n1[r] = w THEN [n1 EXCEPT ![r] = NULL] ELSE n1
           p2 == IF p1[r] = w THEN [p1 EXCEPT ![r] = p] ELSE p1
<1>1. l.next \in [Place -> Node \cup {NULL}] /\ l.prev \in [Place -> Place \cup {NULL}]
  BY ListTypes
<1>2. w \in Place /\ r \in Place
  BY PlaceFacts
<1>3. p \in Place /\ p # NULL /\ q \in Node \cup {NULL}
  BY <1>1, <1>2
<1>4. Remove(l, d, w) = [next |-> n2, prev |-> p2]
  BY DEF Remove
<1> HIDE DEF p, q, r
<1>5. n1 \in [Place -> Node \cup {NULL}]
  BY <1>1, <1>3
<1> HIDE DEF n1
<1>6. n2 \in [Place -> Node \cup {NULL}]
  BY <1>5
<1>7. /\ p1 \in [Place -> Place \cup {NULL}]
      /\ \A x \in Place : l.prev[x] # NULL => p1[x] # NULL
  BY <1>1, <1>3
<1> HIDE DEF p1
<1>8. /\ p2 \in [Place -> Place \cup {NULL}]
      /\ \A x \in Place : p1[x] # NULL => p2[x] # NULL
  BY <1>3, <1>7
<1> QED BY <1>4, <1>6, <1>7, <1>8 DEF ListType

\* add_inst on a list in order, pointer by pointer.
LEMMA AddIs ==
  ASSUME NEW l \in ListType, NEW d \in Depths, NEW S \in SUBSET Node, ListOK(l, d, S),
         NEW a \in Node
  PROVE  /\ Add(l, d, a) \in ListType
         /\ \A x \in Place : Add(l, d, a).next[x] =
              IF x = a THEN NULL ELSE IF x = l.prev[Root(d)] THEN a ELSE l.next[x]
         /\ \A x \in Place : Add(l, d, a).prev[x] =
              IF x = Root(d) THEN a ELSE IF x = a THEN l.prev[Root(d)] ELSE l.prev[x]
<1> DEFINE r == Root(d)
           p == l.prev[r]
<1>1. p \in Place /\ r \in Place /\ a \in Place /\ r # a
  BY PlaceFacts DEF ListOK
<1>2. l.next \in [Place -> Node \cup {NULL}] /\ l.prev \in [Place -> Place \cup {NULL}]
  BY ListTypes
<1>3. Add(l, d, a) = [next |-> [l.next EXCEPT ![p] = a, ![a] = NULL],
                      prev |-> [l.prev EXCEPT ![a] = p, ![r] = a]]
  BY DEF Add
<1> HIDE DEF r, p
<1>4. [l.next EXCEPT ![p] = a, ![a] = NULL] \in [Place -> Node \cup {NULL}]
  BY <1>1, <1>2
<1>5. [l.prev EXCEPT ![a] = p, ![r] = a] \in [Place -> Place \cup {NULL}]
  BY <1>1, <1>2
<1>6. \A x \in Place : [l.next EXCEPT ![p] = a, ![a] = NULL][x]
                       = IF x = a THEN NULL ELSE IF x = p THEN a ELSE l.next[x]
  BY <1>1, <1>2
<1>7. \A x \in Place : [l.prev EXCEPT ![a] = p, ![r] = a][x]
                       = IF x = r THEN a ELSE IF x = a THEN p ELSE l.prev[x]
  BY <1>1, <1>2
<1>8. Add(l, d, a) \in ListType
  BY <1>3, <1>4, <1>5 DEF ListType
<1> QED BY <1>3, <1>6, <1>7, <1>8 DEF r, p

\* unlink of a node of a list in order, pointer by pointer.  The last pointer
\* of the list changes just when the node is its last.
LEMMA RemoveIs ==
  ASSUME NEW l \in ListType, NEW d \in Depths, NEW S \in SUBSET Node, ListOK(l, d, S),
         NEW w \in S
  PROVE  /\ Remove(l, d, w) \in ListType
         /\ \A x \in Place : Remove(l, d, w).next[x] =
              IF x = l.prev[w] THEN l.next[w] ELSE l.next[x]
         /\ \A x \in Place : Remove(l, d, w).prev[x] =
              IF x = (IF l.next[w] = NULL THEN Root(d) ELSE l.next[w]) THEN l.prev[w]
              ELSE l.prev[x]
<1> DEFINE r == Root(d)
           p == l.prev[w]
           q == l.next[w]
           n1 == [l.next EXCEPT ![p] = q]
           p1 == IF q = NULL THEN l.prev ELSE [l.prev EXCEPT ![q] = p]
           p2 == [l.prev EXCEPT ![IF q = NULL THEN r ELSE q] = p]
<1>0. /\ r \in Place /\ r \in Int /\ r < 0 /\ NULL = 0
      /\ \A y \in S : y \in Place /\ y \in Int /\ y > 0 /\ y # r
  <2>1. r \in Place /\ r \in Int /\ r < 0 /\ NULL = 0
    BY PlaceFacts
  <2>2. \A y \in S : y \in Place /\ y \in Int /\ y > 0
    BY PlaceFacts
  <2> HIDE DEF r
  <2> QED BY <2>1, <2>2
<1>1. /\ p \in S \cup {r} /\ l.next[p] = w /\ q \in S \cup {NULL} /\ r \in Place /\ w \in Place
      /\ p < w /\ (q # NULL => w < q)
  <2>1. p \in S \cup {r} /\ l.next[p] = w /\ q \in S \cup {NULL} /\ (q # NULL => w < q)
    BY DEF ListOK
  <2>2. p < w
    BY <2>1, PlaceFacts DEF ListOK
  <2> QED BY <1>0, <2>1, <2>2
<1>2. l.next \in [Place -> Node \cup {NULL}] /\ l.prev \in [Place -> Place \cup {NULL}]
  BY ListTypes
<1>3. p \in Place /\ p # w /\ q # w /\ r # w /\ (q # NULL => q \in Place /\ q # r)
  <2> HIDE DEF p, q, r
  <2> QED BY <1>0, <1>1
<1>4. n1[r] # w
  <2>1. CASE p = r
    BY <1>1, <1>2, <1>3, <2>1
  <2>2. CASE p # r
    <3>1. r < p /\ p \in S
      <4>1. p \in S
        BY <1>1, <2>2
      <4>2. p \in Int /\ p > 0 /\ r \in Int /\ r < 0
        BY <1>0, <4>1
      <4> HIDE DEF p, r
      <4> QED BY <4>1, <4>2
    <3>2. l.next[r] <= p /\ l.next[r] # NULL
      BY <3>1 DEF ListOK
    <3>3. l.next[r] \in S
      BY <3>2 DEF ListOK
    <3>4. l.next[r] # w
      <4> DEFINE x == l.next[r]
      <4> HIDE DEF p, r, x
      <4>1. x \in Int /\ x <= p /\ p \in Int /\ p < w /\ w \in Int
        BY <1>0, <1>1, <3>1, <3>2, <3>3 DEF x
      <4>2. x # w
        BY <4>1
      <4> QED BY <4>2 DEF x
    <3> QED BY <1>1, <1>2, <1>3, <2>2, <3>4
  <2> QED BY <2>1, <2>2
<1>5. q = NULL => l.prev[r] = w
  <2> SUFFICES ASSUME q = NULL PROVE l.prev[r] = w
    OBVIOUS
  <2>1. l.prev[r] \in S \cup {r} /\ l.next[l.prev[r]] = NULL
    BY DEF ListOK
  <2>2. ~(l.prev[r] < w)
    BY <2>1 DEF ListOK
  <2>3. ~(w < l.prev[r])
    <3>1. r < w
      BY PlaceFacts
    <3>2. l.prev[r] \in S \/ l.prev[r] = r
      BY <2>1
    <3>3. l.prev[r] \in S => ~(w < l.prev[r])
      BY DEF ListOK
    <3> QED BY <3>1, <3>2, <3>3, PlaceFacts
  <2> QED BY <2>1, <2>2, <2>3, PlaceFacts
<1>6. q # NULL => l.prev[r] # w
  BY DEF ListOK
<1>7. Remove(l, d, w) = [next |-> n1, prev |-> IF p1[r] = w THEN [p1 EXCEPT ![r] = p] ELSE p1]
  <2>1. Remove(l, d, w) = [next |-> IF n1[r] = w THEN [n1 EXCEPT ![r] = NULL] ELSE n1,
                           prev |-> IF p1[r] = w THEN [p1 EXCEPT ![r] = p] ELSE p1]
    BY Zenon DEF Remove
  <2> HIDE DEF n1, p1
  <2> QED BY <1>4, <2>1
<1> HIDE DEF p, q, r
<1>8. (IF p1[r] = w THEN [p1 EXCEPT ![r] = p] ELSE p1) = p2
  <2>1. CASE q = NULL
    BY <1>5, <2>1
  <2>2. CASE q # NULL
    <3>1. p1[r] = l.prev[r]
      BY <1>2, <1>3, <1>1, <2>2
    <3> QED BY <1>6, <2>2, <3>1 DEF q, r
  <2> QED BY <2>1, <2>2
<1>9. Remove(l, d, w) = [next |-> n1, prev |-> p2]
  <2> HIDE DEF n1, p1, p2
  <2> QED BY <1>7, <1>8
<1>10. n1 \in [Place -> Node \cup {NULL}] /\ p2 \in [Place -> Place \cup {NULL}]
  BY <1>1, <1>2, <1>3
<1>11. \A x \in Place : n1[x] = IF x = p THEN q ELSE l.next[x]
  BY <1>2
<1>12. \A x \in Place : p2[x] = IF x = (IF q = NULL THEN r ELSE q) THEN p ELSE l.prev[x]
  BY <1>2
<1> HIDE DEF n1, p2
<1>13. Remove(l, d, w) \in ListType
  BY <1>9, <1>10 DEF ListType
<1> QED BY <1>9, <1>11, <1>12, <1>13 DEF p, q, r

\* The root of a list and its members are places, and the root is no member.
LEMMA ListFacts ==
  ASSUME NEW d \in Depths, NEW S \in SUBSET Node
  PROVE  /\ Root(d) \in Place /\ Root(d) \in Int /\ Root(d) < 0 /\ NULL = 0 /\ Root(d) \notin S
         /\ \A y \in S : y \in Place /\ y \in Int /\ y > 0
<1>1. Root(d) \in Place /\ Root(d) \in Int /\ Root(d) < 0 /\ NULL = 0
  BY PlaceFacts
<1>2. \A y \in S : y \in Place /\ y \in Int /\ y > 0
  BY PlaceFacts
<1> QED BY <1>1, <1>2

\* add_inst keeps the list in order: the new node, allocated last, becomes its
\* last.
LEMMA AddTo ==
  ASSUME NEW l \in ListType, NEW d \in Depths, NEW S \in SUBSET Node, ListOK(l, d, S),
         NEW a \in Node, \A y \in S : y < a
  PROVE  ListOK(Add(l, d, a), d, S \cup {a})
<1> DEFINE r == Root(d)
           p == l.prev[r]
           m == Add(l, d, a)
           U == S \cup {a}
<1>1. /\ r \in Place /\ r \in Int /\ r < 0 /\ NULL = 0 /\ r \notin S
      /\ \A y \in S : y \in Place /\ y \in Int /\ y > 0
  BY ListFacts
<1>2. a \in Place /\ a \in Int /\ a > 0
  BY PlaceFacts
<1>3. /\ \A x \in Place : m.next[x] = IF x = a THEN NULL ELSE IF x = p THEN a ELSE l.next[x]
      /\ \A x \in Place : m.prev[x] = IF x = r THEN a ELSE IF x = a THEN p ELSE l.prev[x]
  BY AddIs
<1>4. /\ \A x \in S \cup {r} :
           /\ l.next[x] \in S \cup {NULL}
           /\ l.next[x] # NULL => x < l.next[x]
           /\ \A y \in S : x < y => l.next[x] # NULL /\ l.next[x] <= y
      /\ \A y \in S : l.prev[y] \in S \cup {r} /\ l.next[l.prev[y]] = y
      /\ p \in S \cup {r} /\ l.next[p] = NULL
  BY DEF ListOK
<1> HIDE DEF r, p, m
<1>5. r # a /\ p # a /\ a \notin S /\ p \in Place /\ p \in Int /\ p < a
  BY <1>1, <1>2, <1>4
<1>6. ASSUME NEW x \in U \cup {r}
      PROVE  /\ m.next[x] \in U \cup {NULL}
             /\ m.next[x] # NULL => x < m.next[x]
             /\ \A y \in U : x < y => m.next[x] # NULL /\ m.next[x] <= y
  <2>1. CASE x = a
    <3>1. m.next[x] = NULL
      BY <1>2, <1>3, <2>1
    <3>2. \A y \in U : ~(x < y)
      BY <1>1, <1>2, <2>1
    <3> QED BY <3>1, <3>2
  <2>2. CASE x = p
    <3>1. m.next[x] = a
      BY <1>3, <1>5, <2>2
    <3>2. \A y \in U : x < y => y = a
      BY <1>4, <2>2
    <3> QED BY <1>1, <1>2, <1>5, <2>2, <3>1, <3>2
  <2>3. CASE x # a /\ x # p
    <3>1. x \in S \cup {r} /\ x \in Place /\ x \in Int
      BY <1>1, <2>3
    <3>2. m.next[x] = l.next[x]
      BY <1>3, <2>3, <3>1
    <3>3. x < p /\ p \in S
      <4>1. ~(p < x)
        <5> SUFFICES ASSUME p < x PROVE FALSE
          OBVIOUS
        <5>1. p = r \/ p \in S
          BY <1>4
        <5>2. x # r
          BY <1>1, <1>5, <5>1
        <5>3. x \in S
          BY <3>1, <5>2
        <5> QED BY <1>4, <5>3
      <4>2. x < p
        BY <1>5, <2>3, <3>1, <4>1
      <4> QED BY <1>1, <1>4, <3>1, <4>2
    <3>4. l.next[x] # NULL /\ l.next[x] <= p
      BY <1>4, <3>1, <3>3
    <3>5. l.next[x] \in S /\ l.next[x] \in Int
      BY <1>1, <1>4, <3>1, <3>4
    <3>6. l.next[x] < a
      BY <1>5, <3>4, <3>5
    <3>7. \A y \in U : x < y => l.next[x] <= y
      BY <1>2, <1>4, <3>1, <3>5, <3>6
    <3> QED BY <1>4, <3>1, <3>2, <3>4, <3>5, <3>7
  <2> QED BY <2>1, <2>2, <2>3
<1>7. ASSUME NEW y \in U PROVE m.prev[y] \in U \cup {r} /\ m.next[m.prev[y]] = y
  <2>1. CASE y = a
    BY <1>2, <1>3, <1>4, <1>5, <2>1
  <2>2. CASE y # a
    <3>1. y \in S /\ y \in Place /\ y # r /\ y # NULL
      BY <1>1, <2>2
    <3>2. m.prev[y] = l.prev[y]
      BY <1>3, <2>2, <3>1
    <3>3. l.prev[y] \in S \cup {r} /\ l.next[l.prev[y]] = y
      BY <1>4, <3>1
    <3>4. l.prev[y] # a /\ l.prev[y] # p /\ l.prev[y] \in Place
      BY <1>1, <1>4, <1>5, <3>1, <3>3
    <3>5. m.next[l.prev[y]] = y
      BY <1>3, <3>3, <3>4
    <3> QED BY <3>2, <3>3, <3>5
  <2> QED BY <2>1, <2>2
<1>8. m.prev[r] \in U \cup {r} /\ m.next[m.prev[r]] = NULL
  BY <1>1, <1>2, <1>3
<1> QED BY <1>6, <1>7, <1>8 DEF ListOK, r, m

\* unlink keeps the list in order, and the node before the one removed is the
\* last member that was allocated earlier.
LEMMA RemoveFrom ==
  ASSUME NEW l \in ListType, NEW d \in Depths, NEW S \in SUBSET Node, ListOK(l, d, S),
         NEW w \in S
  PROVE  /\ ListOK(Remove(l, d, w), d, S \ {w})
         /\ l.prev[w] \in (S \ {w}) \cup {Root(d)} /\ l.prev[w] < w /\ l.next[l.prev[w]] = w
         /\ l.next[w] \in (S \ {w}) \cup {NULL}
         /\ \A n \in S \ {w} : n < w => n <= l.prev[w]
<1> DEFINE r == Root(d)
           p == l.prev[w]
           q == l.next[w]
           m == Remove(l, d, w)
           U == S \ {w}
<1>1. /\ r \in Place /\ r \in Int /\ r < 0 /\ NULL = 0 /\ r \notin S
      /\ \A y \in S : y \in Place /\ y \in Int /\ y > 0
  BY ListFacts
<1>3. /\ \A x \in Place : m.next[x] = IF x = p THEN q ELSE l.next[x]
      /\ \A x \in Place : m.prev[x] = IF x = (IF q = NULL THEN r ELSE q) THEN p ELSE l.prev[x]
  BY RemoveIs
<1>4. /\ \A x \in S \cup {r} :
           /\ l.next[x] \in S \cup {NULL}
           /\ l.next[x] # NULL => x < l.next[x]
           /\ \A y \in S : x < y => l.next[x] # NULL /\ l.next[x] <= y
      /\ \A y \in S : l.prev[y] \in S \cup {r} /\ l.next[l.prev[y]] = y
      /\ l.prev[r] \in S \cup {r} /\ l.next[l.prev[r]] = NULL
      /\ p \in S \cup {r} /\ l.next[p] = w /\ q \in S \cup {NULL} /\ (q # NULL => w < q)
      /\ \A y \in S : w < y => q # NULL /\ q <= y
  BY DEF ListOK
<1>5. p < w /\ p \in Int /\ p \in Place /\ w \in Int /\ w # NULL
  <2>1. w # NULL /\ w \in Int
    BY <1>1
  <2> HIDE DEF r, p, q
  <2> QED BY <1>1, <1>4, <2>1
<1>6. l.next[w] = q
  OBVIOUS
<1> HIDE DEF r, p, q, m
<1>7. q # w /\ p # w /\ (q # NULL => q \in S /\ q \in Place /\ q \in Int /\ q # r)
  BY <1>1, <1>4, <1>5
<1>8. \A x \in S \cup {r} : l.next[x] = w => x = p
  <2> SUFFICES ASSUME NEW x \in S \cup {r}, l.next[x] = w, x # p PROVE FALSE
    OBVIOUS
  <2>1. x \in Int /\ x < w
    BY <1>1, <1>4, <1>5
  <2>2. CASE x < p
    <3>1. p \in S
      BY <1>1, <1>4, <2>1, <2>2
    <3>2. w <= p
      BY <1>4, <2>2, <3>1
    <3> QED BY <1>5, <3>2
  <2>3. CASE p < x
    <3>1. x \in S
      BY <1>1, <1>4, <2>1, <2>3
    <3>2. w <= x
      BY <1>4, <2>3, <3>1
    <3> QED BY <1>5, <2>1, <3>2
  <2> QED BY <1>5, <2>1, <2>2, <2>3
<1>9. ASSUME NEW x \in U \cup {r}
      PROVE  /\ m.next[x] \in U \cup {NULL}
             /\ m.next[x] # NULL => x < m.next[x]
             /\ \A y \in U : x < y => m.next[x] # NULL /\ m.next[x] <= y
  <2>0. x \in S \cup {r} /\ x \in Place
    BY <1>1
  <2>1. CASE x = p
    <3>1. m.next[x] = q
      BY <1>3, <1>5, <2>1
    <3>2. q # NULL => x < q
      BY <1>4, <1>5, <1>7, <2>1
    <3>3. ASSUME NEW y \in U, x < y PROVE q # NULL /\ q <= y
      <4>1. w <= y /\ y # w /\ y \in S /\ y \in Int
        BY <1>1, <1>4, <2>0, <2>1, <3>3
      <4> QED BY <1>4, <1>5, <4>1
    <3> QED BY <1>4, <1>7, <3>1, <3>2, <3>3
  <2>2. CASE x # p
    <3>1. m.next[x] = l.next[x] /\ l.next[x] # w
      BY <1>3, <1>8, <2>0, <2>2
    <3> QED BY <1>4, <2>0, <3>1
  <2> QED BY <2>1, <2>2
<1>10. ASSUME NEW y \in U PROVE m.prev[y] \in U \cup {r} /\ m.next[m.prev[y]] = y
  <2>0. y \in S /\ y # w /\ y \in Place /\ y # r /\ y # NULL
    BY <1>1
  <2>1. CASE y = q
    BY <1>3, <1>4, <1>5, <1>7, <2>0, <2>1
  <2>2. CASE y # q
    <3>1. m.prev[y] = l.prev[y]
      BY <1>3, <2>0, <2>2
    <3>2. l.prev[y] \in S \cup {r} /\ l.next[l.prev[y]] = y
      BY <1>4, <2>0
    <3>3. l.prev[y] # w /\ l.prev[y] # p /\ l.prev[y] \in Place
      BY <1>1, <1>4, <1>6, <2>0, <2>2, <3>2
    <3> QED BY <1>3, <3>1, <3>2, <3>3
  <2> QED BY <2>1, <2>2
<1>11. m.prev[r] \in U \cup {r} /\ m.next[m.prev[r]] = NULL
  <2>1. CASE q = NULL
    BY <1>1, <1>3, <1>4, <1>5, <1>7, <2>1
  <2>2. CASE q # NULL
    <3>1. m.prev[r] = l.prev[r]
      BY <1>1, <1>3, <1>7, <2>2
    <3>2. l.prev[r] # w /\ l.prev[r] # p /\ l.prev[r] \in Place
      BY <1>1, <1>4, <1>5, <1>6, <2>2
    <3> QED BY <1>3, <1>4, <3>1, <3>2
  <2> QED BY <2>1, <2>2
<1>12. ASSUME NEW n \in U, n < w PROVE n <= p
  <2> SUFFICES ASSUME p < n PROVE FALSE
    BY <1>1, <1>5
  <2>1. w <= n /\ n \in Int
    BY <1>1, <1>4
  <2> QED BY <1>5, <1>12, <2>1
<1>13. p \in U \cup {r} /\ q \in U \cup {NULL}
  BY <1>4, <1>7
<1> QED BY <1>4, <1>5, <1>9, <1>10, <1>11, <1>12, <1>13 DEF ListOK, r, m, p, q

\* The lists of other depths.
LEMMA ListApart ==
  ASSUME NEW d \in Depths, NEW S \in SUBSET Node, NEW l, ListOK(l, d, S), NEW m,
         \A x \in S \cup {Root(d)} : m.next[x] = l.next[x] /\ m.prev[x] = l.prev[x]
  PROVE  ListOK(m, d, S)
<1> DEFINE r == Root(d)
<1>1. /\ \A y \in S : l.prev[y] \in S \cup {r} /\ l.next[l.prev[y]] = y
      /\ l.prev[r] \in S \cup {r} /\ l.next[l.prev[r]] = NULL
      /\ \A x \in S \cup {r} :
           /\ l.next[x] \in S \cup {NULL}
           /\ l.next[x] # NULL => x < l.next[x]
           /\ \A y \in S : x < y => l.next[x] # NULL /\ l.next[x] <= y
  BY DEF ListOK
<1> HIDE DEF r
<1>2. \A x \in S \cup {r} : m.next[x] = l.next[x] /\ m.prev[x] = l.prev[x]
  BY DEF r
<1>3. \A y \in S : m.prev[y] \in S \cup {r} /\ m.next[m.prev[y]] = y
  BY <1>1, <1>2
<1>4. m.prev[r] \in S \cup {r} /\ m.next[m.prev[r]] = NULL
  BY <1>1, <1>2
<1>5. \A x \in S \cup {r} :
           /\ m.next[x] \in S \cup {NULL}
           /\ m.next[x] # NULL => x < m.next[x]
           /\ \A y \in S : x < y => m.next[x] # NULL /\ m.next[x] <= y
  BY <1>1, <1>2
<1> QED BY <1>3, <1>4, <1>5 DEF ListOK, r

-----------------------------------------------------------------------------
(* All the lists, and the loop of a redraw                                 *)

\* What the members of the lists are.
LEMMA FamilyFacts ==
  ASSUME NEW u \in 0..MaxNode, NEW M \in Families(u)
  PROVE  /\ M \in [Depths -> SUBSET Node] /\ M \in [Depths -> SUBSET (1..u)]
         /\ \A d, e \in Depths : d # e => M[d] \cap M[e] = {}
<1>1. 1..u \subseteq Node
  BY PlaceFacts DEF Node
<1>2. M \in [Depths -> SUBSET (1..u)] /\ \A d, e \in Depths : d # e => M[d] \cap M[e] = {}
  BY DEF Families
<1> QED BY <1>1, <1>2

\* add_inst on one list keeps all the lists in order.
LEMMA AddLists ==
  ASSUME NEW u \in 0..MaxNode, u + 1 <= MaxNode, NEW M \in Families(u),
         NEW l, ListsOK(l, M), NEW g \in Depths
  PROVE  LET N == [M EXCEPT ![g] = @ \cup {u + 1}]
         IN N \in Families(u + 1) /\ ListsOK(Add(l, g, u + 1), N)
<1> DEFINE a == u + 1
           m == Add(l, g, a)
           N == [M EXCEPT ![g] = @ \cup {a}]
<1>1. /\ M \in [Depths -> SUBSET Node] /\ M \in [Depths -> SUBSET (1..u)]
      /\ \A d, e \in Depths : d # e => M[d] \cap M[e] = {}
  BY FamilyFacts
<1>2. l \in ListType /\ \A d \in Depths : ListOK(l, d, M[d])
  BY DEF ListsOK
<1>3. a \in Node /\ a \notin 1..u /\ (\A y \in 1..u : y < a) /\ 1..u \subseteq 1..a /\ a \in 1..a
      /\ u + 1 = a
  BY PlaceFacts DEF Node
<1> HIDE DEF a
<1>4. N \in Families(a)
  <2>1. N \in [Depths -> SUBSET (1..a)]
    BY <1>1, <1>3
  <2>2. \A d, e \in Depths : d # e => N[d] \cap N[e] = {}
    BY <1>1, <1>3
  <2> HIDE DEF N
  <2> QED BY <2>1, <2>2 DEF Families
<1>5. m \in ListType /\ ListOK(m, g, M[g] \cup {a})
  <2>1. M[g] \in SUBSET Node /\ ListOK(l, g, M[g]) /\ \A y \in M[g] : y < a
    BY <1>1, <1>2, <1>3
  <2> QED BY <1>2, <1>3, <2>1, AddIs, AddTo
<1>6. ASSUME NEW d \in Depths, d # g PROVE ListOK(m, d, M[d])
  <2>1. /\ M[g] \in SUBSET Node /\ ListOK(l, g, M[g]) /\ M[d] \in SUBSET Node /\ ListOK(l, d, M[d])
        /\ M[d] \cap M[g] = {} /\ a \notin M[d]
    BY <1>1, <1>2, <1>3, <1>6
  <2> DEFINE p == l.prev[Root(g)] S == M[d]
  <2>2. p \in M[g] \cup {Root(g)} /\ Root(d) # Root(g) /\ Root(d) # a
    BY <1>3, <1>6, <2>1, PlaceFacts DEF ListOK
  <2>3. /\ \A x \in Place : m.next[x] = IF x = a THEN NULL ELSE IF x = p THEN a ELSE l.next[x]
        /\ \A x \in Place : m.prev[x] = IF x = Root(g) THEN a ELSE IF x = a THEN p ELSE l.prev[x]
    BY <1>2, <1>3, <2>1, AddIs
  <2>4. Root(d) \in Place /\ Root(d) \notin M[g] /\ Root(g) \notin S /\ \A y \in S : y \in Place
    BY <2>1, ListFacts
  <2> HIDE DEF p, S, m
  <2>5. \A x \in S \cup {Root(d)} : m.next[x] = l.next[x] /\ m.prev[x] = l.prev[x]
    BY <2>1, <2>2, <2>3, <2>4 DEF S
  <2> QED BY <2>1, <2>5, ListApart DEF S
<1>7. \A d \in Depths : N[d] = IF d = g THEN M[g] \cup {a} ELSE M[d]
  BY <1>1
<1> HIDE DEF N, m
<1>8. ListsOK(m, N)
  BY <1>5, <1>6, <1>7 DEF ListsOK
<1> QED BY <1>4, <1>8 DEF N, m, a

\* unlink from one list keeps all the lists in order.
LEMMA RemoveLists ==
  ASSUME NEW u \in 0..MaxNode, NEW M \in Families(u), NEW l, ListsOK(l, M),
         NEW d \in Depths, NEW w \in M[d]
  PROVE  LET N == [M EXCEPT ![d] = @ \ {w}]
         IN N \in Families(u) /\ ListsOK(Remove(l, d, w), N)
<1> DEFINE m == Remove(l, d, w)
           N == [M EXCEPT ![d] = @ \ {w}]
           p == l.prev[w]
           q == l.next[w]
<1>1. /\ M \in [Depths -> SUBSET Node] /\ M \in [Depths -> SUBSET (1..u)]
      /\ \A e, f \in Depths : e # f => M[e] \cap M[f] = {}
  BY FamilyFacts
<1>2. l \in ListType /\ \A e \in Depths : ListOK(l, e, M[e])
  BY DEF ListsOK
<1>3. N \in Families(u)
  <2>1. N \in [Depths -> SUBSET (1..u)]
    BY <1>1
  <2>2. \A e, f \in Depths : e # f => N[e] \cap N[f] = {}
    BY <1>1
  <2> HIDE DEF N
  <2> QED BY <2>1, <2>2 DEF Families
<1>4. M[d] \in SUBSET Node /\ ListOK(l, d, M[d])
  BY <1>1, <1>2
<1>5. /\ m \in ListType /\ ListOK(m, d, M[d] \ {w})
      /\ p \in M[d] \cup {Root(d)} /\ q \in M[d] \cup {NULL}
  BY <1>2, <1>4, RemoveIs, RemoveFrom
<1>6. /\ \A x \in Place : m.next[x] = IF x = p THEN q ELSE l.next[x]
      /\ \A x \in Place : m.prev[x] = IF x = (IF q = NULL THEN Root(d) ELSE q) THEN p ELSE l.prev[x]
  BY <1>2, <1>4, RemoveIs
<1> HIDE DEF m, p, q
<1>7. ASSUME NEW e \in Depths, e # d PROVE ListOK(m, e, M[e])
  <2>1. /\ M[e] \in SUBSET Node /\ ListOK(l, e, M[e]) /\ M[e] \cap M[d] = {} /\ Root(e) # Root(d)
    BY <1>1, <1>2, <1>7, PlaceFacts
  <2> DEFINE S == M[e]
  <2>2. Root(e) \in Place /\ Root(e) \notin M[d] /\ Root(d) \notin S /\ \A y \in S : y \in Place
    BY <1>4, <2>1, ListFacts
  <2> HIDE DEF S
  <2>3. \A x \in S \cup {Root(e)} : m.next[x] = l.next[x] /\ m.prev[x] = l.prev[x]
    BY <1>5, <1>6, <2>1, <2>2 DEF S
  <2> QED BY <2>1, <2>3, ListApart DEF S
<1>8. \A e \in Depths : N[e] = IF e = d THEN M[d] \ {w} ELSE M[e]
  BY <1>1
<1> HIDE DEF N
<1>9. ListsOK(m, N)
  BY <1>5, <1>7, <1>8 DEF ListsOK
<1> QED BY <1>3, <1>9 DEF N, m

\* What a redraw has drawn is as it was when no list has got a member that was
\* linked when it began or that it has drawn.
LEMMA ShownLess ==
  ASSUME NEW M \in [Depths -> SUBSET Nat], NEW N \in [Depths -> SUBSET Nat], NEW at, NEW L \in Depths,
         NEW B, NEW T, Shown(M, at, L, B, T),
         \A d \in Depths : B \cap N[d] \subseteq M[d] /\ N[d] \cap T \subseteq M[d]
  PROVE  Shown(N, at, L, B, T)
  BY DEF Shown

\* A loop under way goes on after an add_inst on any list: the new node is one
\* more that it may come across, and nothing that it has to draw.
LEMMA AddLoop ==
  ASSUME NEW u \in 0..MaxNode, u + 1 <= MaxNode, NEW M \in Families(u),
         NEW l, ListsOK(l, M), NEW g \in Depths,
         NEW at, NEW L \in Depths, NEW B \in SUBSET (1..u), NEW T \in SUBSET (1..u),
         LoopOK(l, M, u, at, L, B, T)
  PROVE  LoopOK(Add(l, g, u + 1), [M EXCEPT ![g] = @ \cup {u + 1}], u + 1, at, L, B, T)
<1> DEFINE a == u + 1
           m == Add(l, g, a)
           N == [M EXCEPT ![g] = @ \cup {a}]
           p == l.prev[Root(g)]
           R == Root(L)
<1>1. /\ M \in [Depths -> SUBSET Node] /\ M \in [Depths -> SUBSET (1..u)]
      /\ \A d, e \in Depths : d # e => M[d] \cap M[e] = {}
  BY FamilyFacts
<1>2. l \in ListType /\ ListOK(l, g, M[g]) /\ ListOK(l, L, M[L])
  BY DEF ListsOK
<1>3. /\ a \in Node /\ a \notin 1..u /\ (\A y \in 1..u : y < a /\ y \in Node /\ y \in Int)
      /\ a \in 1..a /\ 1..u \subseteq 1..a /\ u + 1 = a /\ a \in Int
  BY PlaceFacts DEF Node
<1>4. \A d \in Depths : N[d] = IF d = g THEN M[g] \cup {a} ELSE M[d]
  BY <1>1
<1>5. /\ \A x \in Place : m.next[x] = IF x = a THEN NULL ELSE IF x = p THEN a ELSE l.next[x]
      /\ p \in M[g] \cup {Root(g)} /\ l.next[p] = NULL
  BY <1>1, <1>2, <1>3, AddIs DEF ListOK
<1>6. /\ R \in Place /\ R \in Int /\ R < 0 /\ NULL = 0 /\ (g # L => R # Root(g))
      /\ Root(g) \in Int /\ Root(g) < 0
      /\ \A n \in Node : n \in Place /\ n \in Int /\ n > 0
  BY PlaceFacts
<1>7. PICK W \in SUBSET (1..u) : Way(l, M, at, L, B, T, W)
  BY DEF LoopOK
<1>8. /\ M[L] \subseteq W /\ \A d \in Depths : d # L => W \cap M[d] = {}
      /\ at \in W \cup {R}
      /\ \A x \in W \cup {R} :
           /\ l.next[x] \in W \cup {NULL}
           /\ l.next[x] # NULL => x < l.next[x]
           /\ \A n \in B \cap M[L] : x < n => l.next[x] # NULL /\ l.next[x] <= n
      /\ \A n \in W \cap T : n <= at
  BY <1>7 DEF Way
<1> HIDE DEF a, m, N, p, R
<1>9. \A x \in W \cup {R} : x \in Place /\ x # a /\ x \in Int
  BY <1>3, <1>6
<1>10. Shown(N, at, L, B, T)
  <2>1. Shown(M, at, L, B, T)
    BY DEF LoopOK
  <2>2. \A d \in Depths : B \cap N[d] \subseteq M[d] /\ N[d] \cap T \subseteq M[d]
    BY <1>3, <1>4
  <2>3. M \in [Depths -> SUBSET Nat] /\ N \in [Depths -> SUBSET Nat]
    <3>1. \A d \in Depths : M[d] \in SUBSET Nat
      BY <1>1
    <3>2. \A d \in Depths : N[d] \in SUBSET Nat
      BY <1>3, <1>4, <3>1
    <3>3. M = [d \in Depths |-> M[d]] /\ N = [d \in Depths |-> N[d]]
      BY <1>1 DEF N
    <3> QED BY <3>1, <3>2, <3>3
  <2> QED BY <2>1, <2>2, <2>3, ShownLess
<1>11. B \cap N[L] = B \cap M[L]
  BY <1>3, <1>4
<1>12. CASE g = L
  <2> DEFINE V == W \cup {a}
  <2>1. N[L] \subseteq V /\ \A d \in Depths : d # L => V \cap N[d] = {}
    BY <1>1, <1>3, <1>4, <1>8, <1>12
  <2>2. at \in V \cup {R} /\ \A n \in V \cap T : n <= at
    BY <1>3, <1>8
  <2>3. ASSUME NEW x \in V \cup {R}
        PROVE  /\ m.next[x] \in V \cup {NULL}
               /\ m.next[x] # NULL => x < m.next[x]
               /\ \A n \in B \cap M[L] : x < n => m.next[x] # NULL /\ m.next[x] <= n
    <3>1. CASE x = a
      <4>1. m.next[x] = NULL
        BY <1>3, <1>5, <1>6, <3>1
      <4>2. ASSUME NEW n \in B \cap M[L] PROVE ~(x < n)
        <5>1. n < a /\ n \in Int /\ a \in Int
          BY <1>3
        <5> QED BY <3>1, <5>1
      <4> QED BY <4>1, <4>2
    <3>2. CASE x # a /\ x = p
      <4>1. x \in W \cup {R} /\ x \in Int /\ x \in Place
        BY <1>9, <3>2
      <4>2. m.next[x] = a /\ l.next[x] = NULL
        BY <1>5, <3>2, <4>1
      <4>3. ASSUME NEW n \in B \cap M[L], x < n PROVE FALSE
        <5>1. l.next[x] # NULL
          BY <1>8, <4>1, <4>3
        <5> QED BY <4>2, <5>1
      <4>4. x < a
        BY <1>3, <1>6, <4>1
      <4> QED BY <4>2, <4>3, <4>4
    <3>3. CASE x # a /\ x # p
      <4>1. x \in W \cup {R} /\ x \in Place
        BY <1>9, <3>3
      <4>2. m.next[x] = l.next[x]
        BY <1>5, <3>3, <4>1
      <4> QED BY <1>8, <4>1, <4>2
    <3> QED BY <3>1, <3>2, <3>3
  <2>4. V \in SUBSET (1..a)
    BY <1>3
  <2>5. Way(m, N, at, L, B, T, V)
    <3> HIDE DEF V
    <3> QED BY <1>11, <2>1, <2>2, <2>3 DEF Way, R
  <2> HIDE DEF V
  <2>6. LoopOK(m, N, a, at, L, B, T)
    BY <1>10, <2>4, <2>5 DEF LoopOK
  <2> QED BY <2>6 DEF m, N, a
<1>13. CASE g # L
  <2>1. p \notin W \cup {R} /\ W \cap M[g] = {}
    <3>1. W \cap M[g] = {} /\ R \notin M[g] /\ Root(g) \notin W
      BY <1>1, <1>3, <1>6, <1>8, <1>13
    <3> QED BY <1>5, <1>6, <1>13, <3>1
  <2>2. N[L] \subseteq W /\ \A d \in Depths : d # L => W \cap N[d] = {}
    BY <1>1, <1>3, <1>4, <1>8, <1>13, <2>1
  <2>3. \A x \in W \cup {R} : m.next[x] = l.next[x]
    BY <1>5, <1>9, <2>1
  <2>4. Way(m, N, at, L, B, T, W)
    BY <1>8, <1>11, <2>2, <2>3 DEF Way, R
  <2>5. W \in SUBSET (1..a)
    BY <1>3
  <2>6. LoopOK(m, N, a, at, L, B, T)
    BY <1>10, <2>4, <2>5 DEF LoopOK
  <2> QED BY <2>6 DEF m, N, a
<1> QED BY <1>12, <1>13

\* The nodes of its list are what a loop can come across that stands on one.
LEMMA WayOfList ==
  ASSUME NEW u \in 0..MaxNode, NEW M \in Families(u), NEW l, ListsOK(l, M),
         NEW L \in Depths, NEW at \in M[L] \cup {Root(L)}, NEW B, NEW T,
         \A n \in M[L] \cap T : n <= at
  PROVE  M[L] \in SUBSET (1..u) /\ Way(l, M, at, L, B, T, M[L])
<1>1. M[L] \in SUBSET (1..u) /\ \A d \in Depths : d # L => M[L] \cap M[d] = {}
  BY FamilyFacts
<1>2. ListOK(l, L, M[L])
  BY DEF ListsOK
<1> QED BY <1>1, <1>2 DEF ListOK, Way

\* A loop under way goes on after an unlink from any list, whether it stays
\* where it is or steps back off the node removed (Standing).  A node that is
\* unlinked keeps its pointer into the list, so that a loop that stands on it
\* still meets what follows.
LEMMA RemoveLoop ==
  ASSUME NEW u \in 0..MaxNode, NEW M \in Families(u), NEW l, ListsOK(l, M),
         NEW d \in Depths, NEW w \in M[d],
         NEW at, NEW L \in Depths, NEW B \in SUBSET (1..u), NEW T \in SUBSET (1..u),
         LoopOK(l, M, u, at, L, B, T)
  PROVE  LET N == [M EXCEPT ![d] = @ \ {w}]
             m == Remove(l, d, w)
         IN /\ LoopOK(m, N, u, at, L, B, T)
            /\ LoopOK(m, N, u, Standing(at, w, m), L, B, T)
<1> DEFINE m == Remove(l, d, w)
           N == [M EXCEPT ![d] = @ \ {w}]
           p == l.prev[w]
           q == l.next[w]
           R == Root(L)
<1>1. /\ M \in [Depths -> SUBSET Node] /\ M \in [Depths -> SUBSET (1..u)]
      /\ \A e, f \in Depths : e # f => M[e] \cap M[f] = {}
  BY FamilyFacts
<1>2. l \in ListType /\ ListOK(l, d, M[d]) /\ M[d] \in SUBSET Node
  BY <1>1 DEF ListsOK
<1>3. \A e \in Depths : N[e] = IF e = d THEN M[d] \ {w} ELSE M[e]
  BY <1>1
<1>4. /\ p \in (M[d] \ {w}) \cup {Root(d)} /\ p < w /\ l.next[p] = w
      /\ q \in (M[d] \ {w}) \cup {NULL}
      /\ \A n \in M[d] \ {w} : n < w => n <= p
      /\ q # NULL => w < q
  BY <1>2, RemoveFrom DEF ListOK
<1>5. /\ \A x \in Place : m.next[x] = IF x = p THEN q ELSE l.next[x]
      /\ \A x \in Place : m.prev[x] = IF x = (IF q = NULL THEN Root(d) ELSE q) THEN p ELSE l.prev[x]
  BY <1>2, RemoveIs
<1>6. /\ R \in Place /\ R \in Int /\ R < 0 /\ NULL = 0 /\ (d # L => R # Root(d))
      /\ Root(d) \in Int /\ Root(d) < 0
      /\ \A n \in Node : n \in Place /\ n \in Int /\ n > 0
  BY PlaceFacts
<1>7. PICK W \in SUBSET (1..u) : Way(l, M, at, L, B, T, W)
  BY DEF LoopOK
<1>8. /\ M[L] \subseteq W /\ \A e \in Depths : e # L => W \cap M[e] = {}
      /\ at \in W \cup {R}
      /\ \A x \in W \cup {R} :
           /\ l.next[x] \in W \cup {NULL}
           /\ l.next[x] # NULL => x < l.next[x]
           /\ \A n \in B \cap M[L] : x < n => l.next[x] # NULL /\ l.next[x] <= n
      /\ \A n \in W \cap T : n <= at
  BY <1>7 DEF Way
<1>9. N \in Families(u) /\ ListsOK(m, N)
  BY RemoveLists
<1>10. w \in Int /\ w \in Place /\ w > 0 /\ p \in Int /\ (q # NULL => q \in Int) /\ w # q
       /\ q = l.next[w] /\ p = l.prev[w]
  <2>1. w \in Int /\ w \in Place /\ w > 0 /\ w # q
    BY <1>2, <1>4, <1>6
  <2> HIDE DEF p, q
  <2>2. p \in Int /\ (q # NULL => q \in Int)
    BY <1>2, <1>4, <1>6
  <2> QED BY <2>1, <2>2 DEF p, q
<1> HIDE DEF m, N, p, q, R
<1>11. \A x \in W \cup {R} : x \in Place /\ x \in Int
  <2>1. 1..u \subseteq Node
    BY PlaceFacts DEF Node
  <2> QED BY <1>6, <2>1
<1>12. \A e \in Depths : N[e] \subseteq M[e]
  BY <1>3
<1>13. Shown(N, at, L, B, T)
  <2>1. Shown(M, at, L, B, T)
    BY DEF LoopOK
  <2>2. M \in [Depths -> SUBSET Nat] /\ N \in [Depths -> SUBSET Nat]
    <3>1. \A e \in Depths : M[e] \in SUBSET Nat
      BY <1>1
    <3>2. \A e \in Depths : N[e] \in SUBSET Nat
      BY <1>12, <3>1
    <3>3. M = [e \in Depths |-> M[e]] /\ N = [e \in Depths |-> N[e]]
      BY <1>1 DEF N
    <3> QED BY <3>1, <3>2, <3>3
  <2> QED BY <1>12, <2>1, <2>2, ShownLess
<1>14. Way(m, N, at, L, B, T, W)
  <2>1. N[L] \subseteq W /\ \A e \in Depths : e # L => W \cap N[e] = {}
    BY <1>8, <1>12
  <2>2. ASSUME NEW x \in W \cup {R}
        PROVE  /\ m.next[x] \in W \cup {NULL}
               /\ m.next[x] # NULL => x < m.next[x]
               /\ \A n \in B \cap N[L] : x < n => m.next[x] # NULL /\ m.next[x] <= n
    <3>1. CASE x # p
      BY <1>5, <1>8, <1>11, <1>12, <3>1
    <3>2. CASE x = p
      <4>1. d = L
        <5> SUFFICES ASSUME d # L PROVE FALSE
          OBVIOUS
        <5>1. W \cap M[d] = {} /\ R \notin M[d] /\ Root(d) \notin W
          <6>1. Root(d) \notin 1..u /\ R \notin Node
            BY <1>6
          <6> QED BY <1>2, <1>8, <6>1
        <5> QED BY <1>4, <1>6, <3>2, <5>1
      <4>2. m.next[x] = q /\ q \in W \cup {NULL}
        BY <1>4, <1>5, <1>8, <1>11, <3>2, <4>1
      <4>3. q # NULL => x < q
        BY <1>4, <1>10, <3>2
      <4>4. ASSUME NEW n \in B \cap N[L], x < n PROVE q # NULL /\ q <= n
        <5>1. n \in B \cap M[L] /\ n # w /\ n \in Int
          <6>1. N[L] = M[L] \ {w}
            BY <1>3, <4>1
          <6>2. n \in W /\ n \in M[L] /\ n # w
            BY <1>8, <6>1
          <6> QED BY <1>11, <6>2
        <5>2. w <= n
          BY <1>4, <1>8, <3>2, <4>4, <5>1
        <5>3. w < n
          BY <1>10, <5>1, <5>2
        <5>4. w \in W
          BY <1>8, <4>1
        <5> QED BY <1>8, <1>10, <5>1, <5>3, <5>4
      <4> QED BY <4>2, <4>3, <4>4
    <3> QED BY <3>1, <3>2
  <2> QED BY <1>8, <2>1, <2>2 DEF Way, R
<1>15. LoopOK(m, N, u, at, L, B, T)
  BY <1>13, <1>14 DEF LoopOK
<1>16. LoopOK(m, N, u, Standing(at, w, m), L, B, T)
  <2>1. CASE at # w
    BY <1>15, <2>1 DEF Standing
  <2>2. CASE at = w
    <3>1. d = L
      <4> SUFFICES ASSUME d # L PROVE FALSE
        OBVIOUS
      <4>1. W \cap M[d] = {} /\ R # w
        BY <1>6, <1>8, <1>10
      <4> QED BY <1>8, <2>2, <4>1
    <3>2. Standing(at, w, m) = p
      <4>1. m.prev[w] = p
        <5>1. w # Root(d)
          BY <1>6, <1>10
        <5> QED BY <1>5, <1>10, <5>1
      <4> QED BY <2>2, <4>1 DEF Standing
    <3>3. p \in N[L] \cup {R} /\ N[L] = M[L] \ {w}
      BY <1>3, <1>4, <3>1 DEF R
    <3>4. \A n \in N[L] : n \in Int /\ (n <= at => n <= p)
      BY <1>2, <1>4, <1>6, <1>10, <2>2, <3>1, <3>3
    <3>5. \A n \in N[L] \cap T : n <= p
      BY <1>8, <3>3, <3>4
    <3>6. N[L] \in SUBSET (1..u) /\ Way(m, N, p, L, B, T, N[L])
      BY <1>9, <3>3, <3>5, WayOfList DEF R
    <3>7. Shown(N, p, L, B, T)
      <4>1. \A n \in B \cap N[L] : n <= p => n <= at
        BY <1>4, <1>10, <2>2, <3>4
      <4> QED BY <1>13, <4>1 DEF Shown
    <3>8. LoopOK(m, N, u, p, L, B, T)
      BY <3>6, <3>7 DEF LoopOK
    <3> QED BY <3>2, <3>8
  <2> QED BY <2>1, <2>2
<1> QED BY <1>15, <1>16 DEF m, N

-----------------------------------------------------------------------------
(* draw_insts: the requests are carried out                                *)

\* The lists PlacesOK speaks of: every linked node is in that of its depth.
LEMMA MembersFacts ==
  ASSUME NEW c, NEW D, PlacesOK(c, D)
  PROVE  /\ c.used \in 0..MaxNode /\ c.used \in Nat /\ Members(c.live, c.who, D) \in Families(c.used)
         /\ ListsOK(c.l, Members(c.live, c.who, D))
         /\ \A n \in c.live : D[c.who[n]] \in Depths /\ n \in Members(c.live, c.who, D)[D[c.who[n]]]
<1> DEFINE M == Members(c.live, c.who, D)
<1>1. /\ c.used \in 0..MaxNode /\ c.live \subseteq 1..c.used
      /\ \A n \in c.live : D[c.who[n]] \in Depths
      /\ ListsOK(c.l, M)
  BY DEF PlacesOK, NodesOK
<1>2. \A d \in Depths : M[d] = {n \in c.live : D[c.who[n]] = d}
  BY DEF Members
<1>3. M \in [Depths -> SUBSET (1..c.used)]
  <2>1. M = [d \in Depths |-> M[d]]
    BY DEF Members
  <2>2. \A d \in Depths : M[d] \in SUBSET (1..c.used)
    BY <1>1, <1>2
  <2> HIDE DEF M
  <2> QED BY <2>1, <2>2
<1>4. c.used \in Nat
  BY <1>1, DepthsAssumption
<1> HIDE DEF M
<1>5. M \in Families(c.used)
  <2>1. \A d, e \in Depths : d # e => M[d] \cap M[e] = {}
    BY <1>2
  <2> QED BY <1>3, <2>1 DEF Families
<1> QED BY <1>1, <1>2, <1>4, <1>5 DEF M

\* One request carried out: the instance is in the list of its new depth, and a
\* loop under way goes on.  (the body of draw_insts)
LEMMA MovedOK ==
  ASSUME NEW c, NEW D \in [Inst -> Depths \cup {0}], PlacesOK(c, D), c.used + 1 <= MaxNode,
         NEW i \in Inst, c.myiter[i] # NULL, NEW g \in Depths, NEW e, 
         LET w == c.myiter[i]
             l == Remove(c.l, D[i], w)
         IN e = [l |-> Add(l, g, c.used + 1), used |-> c.used + 1,
                 live |-> (c.live \ {w}) \cup {c.used + 1},
                 who |-> [c.who EXCEPT ![c.used + 1] = i],
                 myiter |-> [c.myiter EXCEPT ![i] = c.used + 1],
                 iter |-> Standing(c.iter, w, l)]
  PROVE  /\ PlacesOK(e, [D EXCEPT ![i] = g])
         /\ \A at : \A L \in Depths, B, T \in SUBSET (1..c.used) :
              WalkOK(c, D, at, L, B, T) => WalkOK(e, [D EXCEPT ![i] = g], at, L, B, T)
         /\ \A L \in Depths, B, T \in SUBSET (1..c.used) :
              WalkOK(c, D, c.iter, L, B, T) => WalkOK(e, [D EXCEPT ![i] = g], e.iter, L, B, T)
<1> DEFINE w == c.myiter[i]
           a == c.used + 1
           d == D[i]
           l == Remove(c.l, d, w)
           M == Members(c.live, c.who, D)
           N == [M EXCEPT ![d] = @ \ {w}]
           K == [N EXCEPT ![g] = @ \cup {a}]
           E == [D EXCEPT ![i] = g]
<1>1. /\ e.l = Add(l, g, a) /\ e.used = a /\ e.live = (c.live \ {w}) \cup {a}
      /\ e.who = [c.who EXCEPT ![a] = i] /\ e.myiter = [c.myiter EXCEPT ![i] = a]
      /\ e.iter = Standing(c.iter, w, l)
  OBVIOUS
<1>2. /\ c.used \in 0..MaxNode /\ c.used \in Nat /\ M \in Families(c.used) /\ ListsOK(c.l, M)
      /\ \A n \in c.live : D[c.who[n]] \in Depths /\ n \in M[D[c.who[n]]]
  BY MembersFacts
<1>3. /\ c.live \subseteq 1..c.used
      /\ c.who \in [Node -> Inst \cup {NULL}] /\ c.myiter \in [Inst -> Node \cup {NULL}]
      /\ \A n \in c.live : c.who[n] \in Inst /\ c.myiter[c.who[n]] = n
      /\ \A j \in Inst : c.myiter[j] # NULL => c.myiter[j] \in c.live /\ c.who[c.myiter[j]] = j
  BY DEF PlacesOK, NodesOK
<1>4. w \in c.live /\ c.who[w] = i /\ d \in Depths /\ w \in M[d]
  <2>1. w \in c.live /\ c.who[w] = i
    BY <1>3
  <2> QED BY <1>2, <2>1
<1>5. a \in Node /\ a \notin c.live /\ a \in 1..a /\ 1..c.used \subseteq 1..a /\ a \in 0..MaxNode
      /\ 1..c.used \subseteq Node /\ a \in Node \ 1..c.used /\ a # NULL
  BY <1>2, <1>3, DepthsAssumption DEF Node, NULL
<1>6. N \in Families(c.used) /\ ListsOK(l, N)
  <2> HIDE DEF w, d, M, N
  <2>1. [M EXCEPT ![d] = @ \ {w}] \in Families(c.used)
        /\ ListsOK(Remove(c.l, d, w), [M EXCEPT ![d] = @ \ {w}])
    BY <1>2, <1>4, RemoveLists
  <2> QED BY <2>1 DEF N
<1>7. K \in Families(a) /\ ListsOK(e.l, K)
  <2> HIDE DEF l, N, w, d
  <2>1. [N EXCEPT ![g] = @ \cup {c.used + 1}] \in Families(c.used + 1)
        /\ ListsOK(Add(l, g, c.used + 1), [N EXCEPT ![g] = @ \cup {c.used + 1}])
    BY <1>2, <1>6, AddLists
  <2> QED BY <1>1, <2>1
<1>8. \A f \in Depths : K[f] = IF f = g THEN N[f] \cup {a} ELSE N[f]
  <2> HIDE DEF N
  <2>1. N \in [Depths -> SUBSET (1..c.used)]
    BY <1>2, <1>6, FamilyFacts
  <2> QED BY <2>1
<1>9. \A f \in Depths : N[f] = IF f = d THEN M[f] \ {w} ELSE M[f]
  <2>1. M \in [Depths -> SUBSET (1..c.used)]
    BY <1>2, FamilyFacts
  <2> HIDE DEF M, w, d
  <2> QED BY <2>1
<1>10. \A f \in Depths : M[f] = {n \in c.live : D[c.who[n]] = f}
  BY DEF Members
<1> HIDE DEF w, a, d, l, M, N, K
<1>11. /\ \A j \in Inst : E[j] = IF j = i THEN g ELSE D[j]
       /\ \A n \in Node : e.who[n] = IF n = a THEN i ELSE c.who[n]
       /\ \A j \in Inst : e.myiter[j] = IF j = i THEN a ELSE c.myiter[j]
  BY <1>1, <1>3, <1>5
<1>12. \A n \in c.live \ {w} : n \in Node /\ n # a /\ c.who[n] \in Inst /\ c.who[n] # i
  BY <1>3, <1>4, <1>5 DEF w
<1>13. NodesOK(e)
  <2>1. e.used \in 0..MaxNode /\ e.live \subseteq 1..e.used
    BY <1>1, <1>3, <1>5
  <2>2. e.who \in [Node -> Inst \cup {NULL}] /\ e.myiter \in [Inst -> Node \cup {NULL}]
    BY <1>1, <1>3, <1>5
  <2>3. ASSUME NEW n \in e.live PROVE e.who[n] \in Inst /\ e.myiter[e.who[n]] = n
    <3>1. CASE n = a
      BY <1>5, <1>11, <3>1
    <3>2. CASE n # a
      <4>1. n \in c.live \ {w}
        BY <1>1, <3>2
      <4>2. e.who[n] = c.who[n] /\ c.who[n] \in Inst /\ c.who[n] # i
        BY <1>11, <1>12, <4>1
      <4> QED BY <1>3, <1>11, <4>1, <4>2
    <3> QED BY <3>1, <3>2
  <2>4. ASSUME NEW j \in Inst, e.myiter[j] # NULL
        PROVE  e.myiter[j] \in e.live /\ e.who[e.myiter[j]] = j
    <3>1. CASE j = i
      BY <1>1, <1>5, <1>11, <3>1
    <3>2. CASE j # i
      <4>1. e.myiter[j] = c.myiter[j]
        BY <1>11, <3>2
      <4>2. c.myiter[j] \in c.live /\ c.who[c.myiter[j]] = j
        BY <1>3, <2>4, <4>1
      <4>3. c.myiter[j] # w
        BY <1>4, <3>2, <4>2
      <4> QED BY <1>1, <1>11, <1>12, <4>1, <4>2, <4>3
    <3> QED BY <3>1, <3>2
  <2> QED BY <2>1, <2>2, <2>3, <2>4 DEF NodesOK
<1>14. \A n \in e.live : E[e.who[n]] = IF n = a THEN g ELSE D[c.who[n]]
  BY <1>1, <1>5, <1>11, <1>12
<1>15. Members(e.live, e.who, E) = K
  <2>1. \A f \in Depths : {n \in e.live : E[e.who[n]] = f} = K[f]
    <3> SUFFICES ASSUME NEW f \in Depths, NEW n
                 PROVE  n \in e.live /\ E[e.who[n]] = f <=> n \in K[f]
      BY Zenon
    <3>1. CASE n = a
      <4>1. n \in e.live /\ E[e.who[n]] = g
        BY <1>1, <1>14, <3>1
      <4>2. n \in K[f] <=> f = g
        <5>1. n \notin c.live
          BY <1>5, <3>1
        <5>2. n \notin M[f]
          BY <1>10, <5>1
        <5>3. n \notin N[f]
          BY <1>9, <5>2
        <5> QED BY <1>8, <3>1, <5>3
      <4> QED BY <4>1, <4>2
    <3>2. CASE n # a
      <4>1. n \in K[f] <=> n \in N[f]
        BY <1>8, <3>2
      <4>2. n \in N[f] <=> n \in c.live /\ n # w /\ D[c.who[n]] = f
        <5>1. n \in M[f] <=> n \in c.live /\ D[c.who[n]] = f
          BY <1>10
        <5>2. D[c.who[w]] = d
          BY <1>4 DEF d
        <5>3. CASE f = d
          BY <1>9, <5>1, <5>3
        <5>4. CASE f # d
          <6>1. n = w => D[c.who[n]] # f
            BY <5>2, <5>4
          <6> QED BY <1>9, <5>1, <5>4, <6>1
        <5> QED BY <5>3, <5>4
      <4>3. n \in e.live <=> n \in c.live /\ n # w
        BY <1>1, <3>2
      <4> QED BY <1>14, <3>2, <4>1, <4>2, <4>3
    <3> QED BY <3>1, <3>2
  <2>2. K = [f \in Depths |-> K[f]]
    BY <1>7 DEF Families
  <2> HIDE DEF E
  <2> QED BY <2>1, <2>2, Zenon DEF Members
<1>16. PlacesOK(e, E)
  <2>1. \A n \in e.live : E[e.who[n]] \in Depths
    BY <1>1, <1>2, <1>14
  <2> HIDE DEF E
  <2> QED BY <1>7, <1>13, <1>15, <2>1 DEF PlacesOK
<1>17. ASSUME NEW at, NEW L \in Depths, NEW B \in SUBSET (1..c.used), NEW T \in SUBSET (1..c.used),
              LoopOK(l, N, c.used, at, L, B, T)
       PROVE  WalkOK(e, E, at, L, B, T)
  <2>1. LoopOK(Add(l, g, c.used + 1), [N EXCEPT ![g] = @ \cup {c.used + 1}], c.used + 1,
               at, L, B, T)
    BY <1>2, <1>6, <1>17, AddLoop
  <2>2. LoopOK(e.l, K, e.used, at, L, B, T)
    BY <1>1, <2>1 DEF a, K
  <2> QED BY <1>15, <2>2, Zenon DEF WalkOK
<1>18. ASSUME NEW at, NEW L \in Depths, NEW B \in SUBSET (1..c.used), NEW T \in SUBSET (1..c.used),
              WalkOK(c, D, at, L, B, T)
       PROVE  LoopOK(l, N, c.used, at, L, B, T) /\ LoopOK(l, N, c.used, Standing(at, w, l), L, B, T)
  <2>1. LoopOK(c.l, M, c.used, at, L, B, T)
    BY <1>18 DEF WalkOK, M
  <2> QED BY <1>2, <1>4, <2>1, RemoveLoop, Zenon DEF l, N
<1>19. ASSUME NEW at, NEW L \in Depths, NEW B \in SUBSET (1..c.used), NEW T \in SUBSET (1..c.used),
              WalkOK(c, D, at, L, B, T)
       PROVE  WalkOK(e, E, at, L, B, T)
  BY <1>17, <1>18, <1>19
<1>20. ASSUME NEW L \in Depths, NEW B \in SUBSET (1..c.used), NEW T \in SUBSET (1..c.used),
              WalkOK(c, D, c.iter, L, B, T)
       PROVE  WalkOK(e, E, e.iter, L, B, T)
  BY <1>1, <1>17, <1>18, <1>20
<1> HIDE DEF E
<1> QED BY <1>16, <1>19, <1>20 DEF E

\* A set of natural numbers has a least one.
LEMMA LeastOf ==
  ASSUME NEW S \in SUBSET Nat, S # {}
  PROVE  \E i \in S : \A j \in S : i <= j
<1> DEFINE R == {ss \in Nat \X Nat : ss[1] < ss[2]}
<1>1. PICK i \in S : \A j \in S : ~(<<j, i>> \in R)
  <2>1. IsWellFoundedOn(R, Nat)
    BY NatLessThanWellFounded DEF OpToRel
  <2> HIDE DEF R
  <2> QED BY <2>1, WFMin
<1>2. \A j \in S : ~(<<j, i>> \in R) => i <= j
  OBVIOUS
<1> HIDE DEF R
<1> QED BY <1>1, <1>2

\* The state draw_insts begins with, and the recursive function of its states.
Start == [l |-> Lists, used |-> used, live |-> live, who |-> who, myiter |-> myiter, iter |-> iter]
Served ==
  CHOOSE s : s = [i \in 0..MaxInst |->
    IF i = 0 THEN Start ELSE IF i \in Moves THEN Moved(s[i-1], i) ELSE s[i-1]]

\* The state draw_insts ends with is the last of them.
LEMMA AnsweredIs == Answered = Served[MaxInst]
  BY Zenon DEF Answered, Served, Start

\* The recursive function of draw_insts exists and satisfies its equation: take
\* the least number of ids for which it would not.
LEMMA ServedIs ==
  \A i \in 0..MaxInst : Served[i] =
    IF i = 0 THEN Start ELSE IF i \in Moves THEN Moved(Served[i-1], i) ELSE Served[i-1]
<1> DEFINE a == Start
           Step(i, v) == IF i \in Moves THEN Moved(v, i) ELSE v
           Eq(f, n) == [i \in 0..n |-> IF i = 0 THEN a ELSE Step(i, f[i-1])]
           Wrong == {n \in Nat : ~\E f : f = Eq(f, n)}
<1>1. Served = CHOOSE f : f = Eq(f, MaxInst)
  BY Zenon DEF Served
<1> HIDE DEF a, Step
<1>2. Wrong = {}
  <2> SUFFICES ASSUME Wrong # {} PROVE FALSE
    OBVIOUS
  <2>1. PICK n \in Wrong : \A j \in Wrong : n <= j
    <3>1. Wrong \in SUBSET Nat
      OBVIOUS
    <3> HIDE DEF Wrong
    <3> QED BY <3>1, LeastOf
  <2>2. n # 0
    <3> SUFFICES ASSUME n = 0 PROVE FALSE
      OBVIOUS
    <3> DEFINE f == [i \in 0..0 |-> a]
    <3>1. f = Eq(f, 0)
      OBVIOUS
    <3> HIDE DEF f, Eq
    <3> QED BY <3>1
  <2>3. n \in Nat /\ n - 1 \in Nat /\ n - 1 \notin Wrong
    <3>1. n \in Nat
      OBVIOUS
    <3>2. n - 1 \in Nat /\ ~(n <= n - 1)
      BY <2>2, <3>1
    <3> HIDE DEF Wrong
    <3> QED BY <2>1, <3>1, <3>2
  <2>4. PICK f : f = Eq(f, n - 1)
    BY <2>3
  <2> DEFINE g == [i \in 0..n |-> IF i = n THEN Step(n, f[n - 1]) ELSE f[i]]
  <2>5. \A i \in 0..n : g[i] = IF i = 0 THEN a ELSE Step(i, g[i - 1])
    <3> SUFFICES ASSUME NEW i \in 0..n PROVE g[i] = IF i = 0 THEN a ELSE Step(i, g[i - 1])
      OBVIOUS
    <3>1. CASE i = n
      BY <2>2, <2>3, <3>1
    <3>2. CASE i # n
      <4>1. i \in 0..n-1 /\ g[i] = f[i]
        BY <2>3, <3>2
      <4>2. f[i] = IF i = 0 THEN a ELSE Step(i, f[i - 1])
        BY <2>4, <4>1
      <4>3. i # 0 => i - 1 \in 0..n /\ i - 1 # n /\ g[i - 1] = f[i - 1]
        BY <2>3, <4>1
      <4> HIDE DEF g
      <4> QED BY <4>1, <4>2, <4>3
    <3> QED BY <3>1, <3>2
  <2>6. g = Eq(g, n)
    <3>1. g = [i \in 0..n |-> g[i]]
      OBVIOUS
    <3> HIDE DEF g
    <3> QED BY <2>5, <3>1
  <2> HIDE DEF g, Eq
  <2> QED BY <2>6
<1>3. MaxInst \notin Wrong /\ MaxInst \in Nat
  BY <1>2, DepthsAssumption
<1>4. Served = Eq(Served, MaxInst)
  <2>1. \E f : f = Eq(f, MaxInst)
    BY <1>3
  <2> HIDE DEF Eq
  <2> QED BY <1>1, <2>1, Zenon
<1>5. \A i \in 0..MaxInst : Served[i] = IF i = 0 THEN a ELSE Step(i, Served[i - 1])
  BY <1>4, Zenon
<1> QED BY <1>5, Zenon DEF a, Step

\* The depths of the lists after the requests of the ids up to k.
DepthAt(k) == [j \in Inst |-> IF j \in Moves /\ j <= k THEN request[j][2] ELSE Committed(j, rval[j])]

\* The state c after the requests of the ids up to k: a loop under way goes on
\* from where it was, and the iterator from where it is put.
ServedOK(c, k) ==
  /\ PlacesOK(c, DepthAt(k))
  /\ used <= c.used /\ c.used + Cardinality(Moves \ (1..k)) <= MaxNode
  /\ \A j \in Inst : c.myiter[j] = NULL <=> myiter[j] = NULL
  /\ \A at : \A L \in Depths, B, T \in SUBSET (1..used) :
       WalkOK(Now, DepthNow, at, L, B, T) => WalkOK(c, DepthAt(k), at, L, B, T)
  /\ \A L \in Depths, B, T \in SUBSET (1..used) :
       WalkOK(Now, DepthNow, iter, L, B, T) => WalkOK(c, DepthAt(k), c.iter, L, B, T)

\* What holds of that state whatever the requests say.
ServedTypes(c, k) ==
  /\ c.l \in ListType /\ c.used \in 0..MaxNode /\ used <= c.used
  /\ c.used + Cardinality(Moves \ (1..k)) <= MaxNode
  /\ c.live \subseteq 1..c.used /\ c.who \in [Node -> Inst \cup {NULL}]
  /\ c.myiter \in [Inst -> {NULL} \cup 1..c.used]
  /\ \A j \in Inst : c.myiter[j] = NULL <=> myiter[j] = NULL
  /\ \A x \in Roots \cup 1..c.used : c.l.prev[x] # NULL
  /\ c.iter \in Place \cup {NULL} /\ (iter # NULL => c.iter # NULL)

\* The depths on file, and those the lists were built with.
LEMMA RequestTypes ==
  ASSUME DepthTypeOK
  PROVE  /\ \A j \in Inst : rval[j] \in Depths \cup {0}
         /\ \A j \in Inst : request[j] # NoRequest
              => request[j] \in Depths \X Depths /\ request[j][1] \in Depths /\ request[j][2] \in Depths
         /\ \A j \in Inst : Committed(j, rval[j]) \in Depths \cup {0}
         /\ DepthNow \in [Inst -> Depths \cup {0}]
<1>1. \A j \in Inst : rval[j] \in Depths \cup {0}
  BY DEF DepthTypeOK
<1>2. \A j \in Inst : request[j] # NoRequest
        => request[j] \in Depths \X Depths /\ request[j][1] \in Depths /\ request[j][2] \in Depths
  <2> SUFFICES ASSUME NEW j \in Inst, request[j] # NoRequest
               PROVE  request[j] \in Depths \X Depths /\ request[j][1] \in Depths
                      /\ request[j][2] \in Depths
    OBVIOUS
  <2>1. request[j] \in Depths \X Depths
    BY DEF DepthTypeOK
  <2> QED BY <2>1
<1>3. \A j \in Inst : Committed(j, rval[j]) \in Depths \cup {0}
  BY <1>1, <1>2 DEF Committed
<1> QED BY <1>1, <1>2, <1>3 DEF DepthNow

\* Each request carried out leaves one fewer: there are nodes for the rest.
LEMMA MovesLeft ==
  /\ IsFiniteSet(Moves) /\ Cardinality(Moves) \in Nat
  /\ Moves \ (1..0) = Moves
  /\ \A k \in 1..MaxInst :
       /\ k \notin Moves => Moves \ (1..k) = Moves \ (1..k-1)
       /\ k \in Moves => Cardinality(Moves \ (1..k-1)) = Cardinality(Moves \ (1..k)) + 1
       /\ Cardinality(Moves \ (1..k)) \in Nat
<1>1. IsFiniteSet(1..MaxInst) /\ Moves \subseteq 1..MaxInst
  BY FS_Interval, DepthsAssumption DEF Moves, Inst
<1>2. \A S \in SUBSET Moves : IsFiniteSet(S) /\ Cardinality(S) \in Nat
  <2> SUFFICES ASSUME NEW S \in SUBSET Moves PROVE IsFiniteSet(S) /\ Cardinality(S) \in Nat
    OBVIOUS
  <2>1. IsFiniteSet(S)
    BY <1>1, FS_Subset
  <2> QED BY <2>1, FS_CardinalityType
<1>3. ASSUME NEW k \in 1..MaxInst
      PROVE  /\ k \notin Moves => Moves \ (1..k) = Moves \ (1..k-1)
             /\ k \in Moves => Cardinality(Moves \ (1..k-1)) = Cardinality(Moves \ (1..k)) + 1
  <2>1. \A m \in Moves : m \in 1..k <=> m \in 1..k-1 \/ m = k
    BY <1>1, DepthsAssumption
  <2>2. ASSUME k \in Moves PROVE Cardinality(Moves \ (1..k-1)) = Cardinality(Moves \ (1..k)) + 1
    <3> DEFINE S == Moves \ (1..k)
    <3>1. k \notin S
      BY DepthsAssumption
    <3>2. Moves \ (1..k-1) = S \cup {k}
      <4>1. k \notin 1..k-1
        BY DepthsAssumption
      <4> QED BY <2>1, <2>2, <4>1
    <3>3. IsFiniteSet(S)
      BY <1>2
    <3> HIDE DEF S
    <3>4. Cardinality(S \cup {k}) = Cardinality(S) + 1
      BY <3>1, <3>3, FS_AddElement
    <3> QED BY <3>2, <3>4 DEF S
  <2> QED BY <2>1, <2>2
<1> QED BY <1>2, <1>3

\* The requests up to k, from those up to k - 1.
LEMMA ServedStep ==
  ASSUME DepthTypeOK, used \in Nat, NEW k \in 1..MaxInst,
         NEW b, ServedOK(b, k - 1), NEW c,
         c = IF k \in Moves THEN Moved(b, k) ELSE b
  PROVE  ServedOK(c, k)
<1> DEFINE D == DepthAt(k - 1)
           E == DepthAt(k)
<1>1. /\ PlacesOK(b, D)
      /\ used <= b.used /\ b.used + Cardinality(Moves \ (1..k-1)) <= MaxNode
      /\ \A j \in Inst : b.myiter[j] = NULL <=> myiter[j] = NULL
      /\ \A at : \A L \in Depths, B, T \in SUBSET (1..used) :
           WalkOK(Now, DepthNow, at, L, B, T) => WalkOK(b, D, at, L, B, T)
      /\ \A L \in Depths, B, T \in SUBSET (1..used) :
           WalkOK(Now, DepthNow, iter, L, B, T) => WalkOK(b, D, b.iter, L, B, T)
  BY DEF ServedOK
<1>2. k \in Inst /\ k \in Nat /\ MaxNode \in Nat /\ b.used \in Nat
  BY <1>1, MembersFacts, DepthsAssumption DEF Inst
<1>3. \A j \in Inst : j \in Nat
  BY DEF Inst
<1>4. CASE k \notin Moves
  <2>1. E = D
    <3>1. \A j \in Inst : j \in Moves /\ j <= k <=> j \in Moves /\ j <= k - 1
      BY <1>2, <1>3, <1>4
    <3> QED BY <3>1 DEF DepthAt
  <2>2. c = b /\ Moves \ (1..k) = Moves \ (1..k-1)
    BY <1>4, MovesLeft
  <2> HIDE DEF D, E
  <2> QED BY <1>1, <2>1, <2>2 DEF ServedOK, E
<1>5. CASE k \in Moves
  <2> DEFINE g == request[k][2]
             w == b.myiter[k]
             l == Remove(b.l, request[k][1], w)
  <2>1. /\ request[k] # NoRequest /\ myiter[k] # NULL /\ g \in Depths
    BY <1>5, RequestTypes DEF Moves
  <2>2. D[k] = request[k][1]
    BY <1>2, <2>1 DEF DepthAt, Committed
  <2>3. D \in [Inst -> Depths \cup {0}]
    BY <1>2, RequestTypes DEF DepthAt, Moves
  <2>4. E = [D EXCEPT ![k] = g]
    <3>1. \A j \in Inst : E[j] = IF j = k THEN g ELSE D[j]
      <4> SUFFICES ASSUME NEW j \in Inst PROVE E[j] = IF j = k THEN g ELSE D[j]
        OBVIOUS
      <4>1. CASE j = k
        BY <1>2, <1>5, <4>1 DEF DepthAt
      <4>2. CASE j # k
        <5>1. j <= k <=> j <= k - 1
          BY <1>2, <1>3, <4>2
        <5> QED BY <4>2, <5>1 DEF DepthAt
      <4> QED BY <4>1, <4>2
    <3>2. E = [j \in Inst |-> E[j]]
      BY DEF DepthAt
    <3> HIDE DEF D, E, g
    <3> QED BY <2>3, <3>1, <3>2
  <2> HIDE DEF D, E
  <2>5. c = [l |-> Add(l, g, b.used + 1), used |-> b.used + 1,
             live |-> (b.live \ {w}) \cup {b.used + 1},
             who |-> [b.who EXCEPT ![b.used + 1] = k],
             myiter |-> [b.myiter EXCEPT ![k] = b.used + 1],
             iter |-> Standing(b.iter, w, l)]
    BY <1>5, Zenon DEF Moved, Goal
  <2>6. /\ Cardinality(Moves \ (1..k)) \in Nat
        /\ Cardinality(Moves \ (1..k-1)) = Cardinality(Moves \ (1..k)) + 1
    BY <1>5, MovesLeft
  <2>7. b.used + 1 <= MaxNode /\ (b.used + 1) + Cardinality(Moves \ (1..k)) <= MaxNode
        /\ used <= b.used + 1
    BY <1>1, <1>2, <2>6
  <2>8. b.myiter[k] # NULL
    BY <1>1, <1>2, <2>1
  <2> HIDE DEF g
  <2>9. /\ PlacesOK(c, E)
        /\ \A at : \A L \in Depths, B, T \in SUBSET (1..b.used) :
             WalkOK(b, D, at, L, B, T) => WalkOK(c, E, at, L, B, T)
        /\ \A L \in Depths, B, T \in SUBSET (1..b.used) :
             WalkOK(b, D, b.iter, L, B, T) => WalkOK(c, E, c.iter, L, B, T)
    <3>1. c = [l |-> Add(Remove(b.l, D[k], b.myiter[k]), g, b.used + 1), used |-> b.used + 1,
               live |-> (b.live \ {b.myiter[k]}) \cup {b.used + 1},
               who |-> [b.who EXCEPT ![b.used + 1] = k],
               myiter |-> [b.myiter EXCEPT ![k] = b.used + 1],
               iter |-> Standing(b.iter, b.myiter[k], Remove(b.l, D[k], b.myiter[k]))]
      BY <2>2, <2>5
    <3>2. /\ PlacesOK(c, [D EXCEPT ![k] = g])
          /\ \A at : \A L \in Depths, B, T \in SUBSET (1..b.used) :
               WalkOK(b, D, at, L, B, T) => WalkOK(c, [D EXCEPT ![k] = g], at, L, B, T)
          /\ \A L \in Depths, B, T \in SUBSET (1..b.used) :
               WalkOK(b, D, b.iter, L, B, T) => WalkOK(c, [D EXCEPT ![k] = g], c.iter, L, B, T)
      BY <1>1, <1>2, <2>1, <2>3, <2>7, <2>8, <3>1, MovedOK
    <3> QED BY <2>4, <3>2
  <2>10. \A B \in SUBSET (1..used) : B \in SUBSET (1..b.used)
    BY <1>1, <1>2
  <2>11. /\ \A at : \A L \in Depths, B, T \in SUBSET (1..used) :
              WalkOK(Now, DepthNow, at, L, B, T) => WalkOK(c, E, at, L, B, T)
         /\ \A L \in Depths, B, T \in SUBSET (1..used) :
              WalkOK(Now, DepthNow, iter, L, B, T) => WalkOK(c, E, c.iter, L, B, T)
    BY <1>1, <2>9, <2>10
  <2>12. c.used = b.used + 1 /\ c.myiter = [b.myiter EXCEPT ![k] = b.used + 1]
    BY <2>5
  <2>13. b.myiter \in [Inst -> Node \cup {NULL}] /\ (\A j \in Inst : b.myiter[j] # NULL => b.myiter[j] \in Node)
    <3>1. b.myiter \in [Inst -> Node \cup {NULL}]
      BY <1>1 DEF PlacesOK, NodesOK
    <3> QED BY <3>1
  <2>14. \A j \in Inst : c.myiter[j] = NULL <=> myiter[j] = NULL
    <3>1. b.used + 1 # NULL
      BY <1>2 DEF NULL
    <3> QED BY <1>1, <1>2, <2>1, <2>12, <2>13, <3>1
  <2> QED BY <2>7, <2>9, <2>11, <2>12, <2>14 DEF ServedOK, E
<1> QED BY <1>4, <1>5

\* The same for what holds whatever the requests say.
LEMMA ServedTypesStep ==
  ASSUME DepthTypeOK, NEW k \in 1..MaxInst,
         NEW b, ServedTypes(b, k - 1), NEW c,
         c = IF k \in Moves THEN Moved(b, k) ELSE b
  PROVE  ServedTypes(c, k)
<1>1. /\ b.l \in ListType /\ b.used \in 0..MaxNode /\ used <= b.used
      /\ b.used + Cardinality(Moves \ (1..k-1)) <= MaxNode
      /\ b.live \subseteq 1..b.used /\ b.who \in [Node -> Inst \cup {NULL}]
      /\ b.myiter \in [Inst -> {NULL} \cup 1..b.used]
      /\ \A j \in Inst : b.myiter[j] = NULL <=> myiter[j] = NULL
      /\ \A x \in Roots \cup 1..b.used : b.l.prev[x] # NULL
      /\ b.iter \in Place \cup {NULL} /\ (iter # NULL => b.iter # NULL)
  BY DEF ServedTypes
<1>2. k \in Inst /\ b.used \in Nat /\ MaxNode \in Nat /\ used \in Nat
  <2>1. used \in 0..MaxNode
    BY DEF DepthTypeOK
  <2>2. MaxNode \in Nat /\ MaxInst \in Nat
    BY DepthsAssumption
  <2> QED BY <1>1, <2>1, <2>2 DEF Inst
<1>3. CASE k \notin Moves
  <2>1. c = b /\ Moves \ (1..k) = Moves \ (1..k-1)
    BY <1>3, MovesLeft
  <2> QED BY <1>1, <2>1 DEF ServedTypes
<1>4. CASE k \in Moves
  <2> DEFINE d == request[k][1]
             g == request[k][2]
             w == b.myiter[k]
             a == b.used + 1
             l == Remove(b.l, d, w)
             m == Add(l, g, a)
  <2>1. d \in Depths /\ g \in Depths /\ myiter[k] # NULL
    BY <1>2, <1>4, RequestTypes DEF Moves
  <2>2. w \in 1..b.used /\ w # NULL
    BY <1>1, <1>2, <2>1
  <2>3. /\ Cardinality(Moves \ (1..k)) \in Nat
        /\ Cardinality(Moves \ (1..k-1)) = Cardinality(Moves \ (1..k)) + 1
    BY <1>4, MovesLeft
  <2>4. a <= MaxNode /\ a + Cardinality(Moves \ (1..k)) <= MaxNode /\ used <= a /\ a \in 0..MaxNode
    BY <1>1, <1>2, <2>3
  <2>5. /\ a \in Node /\ 1..a = 1..b.used \cup {a} /\ a # NULL /\ 1..b.used \subseteq Node
        /\ w \in Node /\ a \in 1..a
    BY <1>2, <2>2, <2>4 DEF Node, NULL
  <2>6. c = [l |-> m, used |-> a, live |-> (b.live \ {w}) \cup {a},
             who |-> [b.who EXCEPT ![a] = k],
             myiter |-> [b.myiter EXCEPT ![k] = a],
             iter |-> Standing(b.iter, w, l)]
    BY <1>4, Zenon DEF Moved, Goal
  <2>7. c.l = m /\ c.used = a /\ c.live = (b.live \ {w}) \cup {a} /\ c.who = [b.who EXCEPT ![a] = k]
        /\ c.myiter = [b.myiter EXCEPT ![k] = a] /\ c.iter = Standing(b.iter, w, l)
    BY <2>6
  <2> HIDE DEF d, g, w, a, l, m
  <2>8. l \in ListType /\ \A x \in Place : b.l.prev[x] # NULL => l.prev[x] # NULL
    BY <1>1, <2>1, <2>2, <2>5, RemoveTypes DEF l
  <2>9. /\ \A x \in Roots : x \in Place
        /\ Root(g) \in Roots /\ \A x \in 1..b.used : x \in Place
    BY <2>1, <2>5 DEF Place, Roots
  <2>10. \A x \in Roots \cup 1..b.used : l.prev[x] # NULL
    BY <1>1, <2>8, <2>9
  <2>11. m \in ListType /\ (\A x \in Place : x = a \/ l.prev[x] # NULL => m.prev[x] # NULL)
    BY <2>1, <2>5, <2>8, <2>9, <2>10, AddTypes DEF m
  <2>12. \A x \in Roots \cup 1..a : m.prev[x] # NULL
    <3> SUFFICES ASSUME NEW x \in Roots \cup 1..a PROVE m.prev[x] # NULL
      OBVIOUS
    <3>1. x \in Place /\ (x = a \/ x \in Roots \cup 1..b.used)
      BY <2>5, <2>9 DEF Place
    <3> QED BY <2>10, <2>11, <3>1
  <2>13. c.myiter \in [Inst -> {NULL} \cup 1..a]
    BY <1>1, <1>2, <2>5, <2>7
  <2>14. \A j \in Inst : c.myiter[j] = NULL <=> myiter[j] = NULL
    BY <1>1, <1>2, <2>1, <2>5, <2>7
  <2>15. c.live \subseteq 1..a /\ c.who \in [Node -> Inst \cup {NULL}]
    BY <1>1, <1>2, <2>5, <2>7
  <2>16. c.iter \in Place \cup {NULL} /\ (iter # NULL => c.iter # NULL)
    <3>1. w \in Place /\ l.prev[w] # NULL
      BY <2>2, <2>9, <2>10
    <3>2. l.prev[w] \in Place
      BY <2>8, <3>1 DEF ListType
    <3> QED BY <1>1, <2>7, <3>1, <3>2 DEF Standing
  <2> QED BY <2>4, <2>7, <2>11, <2>12, <2>13, <2>14, <2>15, <2>16 DEF ServedTypes
<1> QED BY <1>3, <1>4

\* Only the depths of linked instances matter to the lists.
LEMMA MembersSame ==
  ASSUME NEW lv, NEW wh, NEW D, NEW E, \A n \in lv : D[wh[n]] = E[wh[n]]
  PROVE  Members(lv, wh, D) = Members(lv, wh, E)
<1>1. \A d \in Depths : {n \in lv : D[wh[n]] = d} = {n \in lv : E[wh[n]] = d}
  OBVIOUS
<1> QED BY <1>1 DEF Members

\* The state draw_insts ends with: its types whatever the requests say, and the
\* lists in order if they were.
LEMMA AnsweredOK ==
  ASSUME DepthTypeOK, Allocated, used + Cardinality(Moves) <= MaxNode
  PROVE  /\ ServedTypes(Answered, MaxInst)
         /\ PlacesOK(Now, DepthNow) => ServedOK(Answered, MaxInst)
<1> DEFINE s == Served
           Good(k) == ServedTypes(s[k], k) /\ (PlacesOK(Now, DepthNow) => ServedOK(s[k], k))
           Wrong == {k \in 0..MaxInst : ~Good(k)}
<1>1. \A i \in 0..MaxInst : s[i] = IF i = 0 THEN Start
                                   ELSE IF i \in Moves THEN Moved(s[i-1], i) ELSE s[i-1]
  BY ServedIs
<1> HIDE DEF s
<1>2. used \in 0..MaxNode /\ used \in Nat /\ MaxInst \in Nat
  BY DepthsAssumption DEF DepthTypeOK
<1>3. /\ Start.l = Lists /\ Start.used = used /\ Start.live = live
      /\ Start.who = who /\ Start.myiter = myiter /\ Start.iter = iter
  BY DEF Start
<1>4. Moves \ (1..0) = Moves /\ Cardinality(Moves) \in Nat
  BY MovesLeft
<1>5. ServedTypes(Start, 0)
  <2>1. Lists \in ListType /\ Lists.prev = prev
    BY DEF Lists, ListType, DepthTypeOK, Place
  <2>2. /\ live \subseteq 1..used /\ who \in [Node -> Inst \cup {NULL}]
        /\ iter \in Place \cup {NULL}
    BY DEF DepthTypeOK, Place
  <2>3. myiter \in [Inst -> {NULL} \cup 1..used] /\ \A x \in Roots \cup 1..used : prev[x] # NULL
    BY DEF Allocated
  <2> QED BY <1>2, <1>3, <1>4, <2>1, <2>2, <2>3 DEF ServedTypes
<1>6. PlacesOK(Now, DepthNow) => ServedOK(Start, 0)
  <2> SUFFICES ASSUME PlacesOK(Now, DepthNow) PROVE ServedOK(Start, 0)
    OBVIOUS
  <2>1. DepthAt(0) = DepthNow
    <3>1. \A j \in Inst : ~(j <= 0)
      BY DEF Inst
    <3> QED BY <3>1 DEF DepthAt, DepthNow
  <2>2. /\ Now.l = Lists /\ Now.used = used /\ Now.live = live /\ Now.who = who
        /\ Now.myiter = myiter
    BY DEF Now
  <2>3. PlacesOK(Start, DepthNow)
    BY <1>3, <2>2 DEF PlacesOK, NodesOK
  <2>4. \A at : \A L, B, T : WalkOK(Now, DepthNow, at, L, B, T) => WalkOK(Start, DepthNow, at, L, B, T)
    BY <1>3, <2>2 DEF WalkOK
  <2> QED BY <1>2, <1>3, <1>4, <2>1, <2>3, <2>4 DEF ServedOK
<1>7. ASSUME NEW k \in 1..MaxInst, Good(k-1) PROVE Good(k)
  <2>1. s[k] = IF k \in Moves THEN Moved(s[k-1], k) ELSE s[k-1]
    BY <1>1, <1>2
  <2>2. ServedTypes(s[k], k)
    BY <1>7, <2>1, ServedTypesStep
  <2>3. PlacesOK(Now, DepthNow) => ServedOK(s[k], k)
    BY <1>2, <1>7, <2>1, ServedStep
  <2> QED BY <2>2, <2>3
<1>8. Good(0)
  BY <1>1, <1>2, <1>5, <1>6
<1> HIDE DEF Good
<1>9. Wrong = {}
  <2> SUFFICES ASSUME Wrong # {} PROVE FALSE
    OBVIOUS
  <2>1. PICK k \in Wrong : \A j \in Wrong : k <= j
    <3>1. Wrong \in SUBSET Nat
      BY <1>2
    <3> HIDE DEF Wrong
    <3> QED BY <3>1, LeastOf
  <2>2. k \in 0..MaxInst /\ ~Good(k)
    OBVIOUS
  <2>3. k \in 1..MaxInst /\ k - 1 \in 0..MaxInst /\ ~(k <= k - 1)
    BY <1>2, <1>8, <2>2
  <2>4. k - 1 \notin Wrong
    <3> HIDE DEF Wrong
    <3> QED BY <2>1, <2>3
  <2>5. Good(k - 1)
    BY <2>3, <2>4
  <2> QED BY <1>7, <2>2, <2>3, <2>5
<1>10. Good(MaxInst)
  <2>1. MaxInst \in 0..MaxInst
    BY <1>2
  <2> QED BY <1>9, <2>1
<1> QED BY <1>10, AnsweredIs, Zenon DEF Good, s

\* draw_insts keeps the types, and the places the pointers name.
LEMMA DrawInstsTypes ==
  ASSUME DepthTypeOK, Allocated, DrawInsts, rval' = rval
  PROVE  /\ used' \in 0..MaxNode /\ used' \in Nat /\ used \in Nat /\ used <= used'
         /\ live' \subseteq 1..used'
         /\ who' \in [Node -> Inst \cup {NULL}]
         /\ next' \in [Roots \cup Node -> Node \cup {NULL}]
         /\ prev' \in [Roots \cup Node -> Roots \cup Node \cup {NULL}]
         /\ myiter' \in [Inst -> Node \cup {NULL}]
         /\ request' \in [Inst -> {NoRequest} \cup (Depths \X Depths)]
         /\ Answered.iter \in Roots \cup Node \cup {NULL} /\ (iter # NULL => Answered.iter # NULL)
         /\ myiter' \in [Inst -> {NULL} \cup 1..used']
         /\ \A x \in Roots \cup 1..used' : prev'[x] # NULL
         /\ \A i \in Inst : myiter'[i] # NULL => rval'[i] \in Depths
<1> DEFINE c == Answered
<1>1. /\ used + Cardinality(Moves) <= MaxNode
      /\ next' = c.l.next /\ prev' = c.l.prev
      /\ used' = c.used /\ live' = c.live /\ who' = c.who
      /\ myiter' = c.myiter
      /\ request' = [i \in Inst |-> NoRequest]
  BY Zenon DEF DrawInsts
<1> HIDE DEF c
<1>2. ServedTypes(c, MaxInst)
  BY <1>1, AnsweredOK DEF c
<1>3. /\ c.l \in ListType /\ c.used \in 0..MaxNode /\ used <= c.used
      /\ c.live \subseteq 1..c.used /\ c.who \in [Node -> Inst \cup {NULL}]
      /\ c.myiter \in [Inst -> {NULL} \cup 1..c.used]
      /\ \A j \in Inst : c.myiter[j] = NULL <=> myiter[j] = NULL
      /\ \A x \in Roots \cup 1..c.used : c.l.prev[x] # NULL
      /\ c.iter \in Place \cup {NULL} /\ (iter # NULL => c.iter # NULL)
  BY <1>2 DEF ServedTypes
<1>4. used \in Nat /\ used' \in Nat /\ 1..used' \subseteq Node
  <2>1. MaxNode \in Nat /\ used \in 0..MaxNode
    BY DepthsAssumption DEF DepthTypeOK
  <2> QED BY <1>1, <1>3, <2>1 DEF Node
<1>5. /\ next' \in [Roots \cup Node -> Node \cup {NULL}]
      /\ prev' \in [Roots \cup Node -> Roots \cup Node \cup {NULL}]
  BY <1>1, <1>3 DEF ListType, Place
<1>6. myiter' \in [Inst -> Node \cup {NULL}] /\ request' \in [Inst -> {NoRequest} \cup (Depths \X Depths)]
  BY <1>1, <1>3, <1>4
<1>7. \A i \in Inst : myiter'[i] # NULL => rval'[i] \in Depths
  BY <1>1, <1>3 DEF Allocated
<1> QED BY <1>1, <1>3, <1>4, <1>5, <1>6, <1>7 DEF c, Place

\* draw_insts leaves every instance in the list of the depth it was last
\* given, and the loops under way go on: those that stay where they are, and
\* one at the iterator from where it is put.
LEMMA DrawInstsInv ==
  ASSUME DepthTypeOK, Allocated, PlacesOK(Now, DepthNow), RequestInv, DrawInsts, rval' = rval
  PROVE  /\ PlacesOK(Now', DepthNow') /\ RequestInv'
         /\ used \in Nat /\ used' \in Nat /\ used <= used'
         /\ request' = [i \in Inst |-> NoRequest]
         /\ \A at : \A L \in Depths, B, T \in SUBSET (1..used) :
              WalkOK(Now, DepthNow, at, L, B, T) => WalkOK(Now', DepthNow', at, L, B, T)
         /\ \A L \in Depths, B, T \in SUBSET (1..used) :
              WalkOK(Now, DepthNow, iter, L, B, T) => WalkOK(Now', DepthNow', Answered.iter, L, B, T)
<1> DEFINE c == Answered
<1>1. /\ used + Cardinality(Moves) <= MaxNode
      /\ next' = c.l.next /\ prev' = c.l.prev
      /\ used' = c.used /\ live' = c.live /\ who' = c.who
      /\ myiter' = c.myiter
      /\ request' = [i \in Inst |-> NoRequest]
  BY Zenon DEF DrawInsts
<1> HIDE DEF c
<1>3. used \in Nat /\ MaxInst \in Nat
  BY DepthsAssumption DEF DepthTypeOK
<1>6. ServedOK(c, MaxInst)
  BY <1>1, AnsweredOK DEF c
<1> DEFINE D == DepthAt(MaxInst)
<1>7. PlacesOK(c, D) /\ used <= c.used /\ c.used \in Nat
      /\ (\A j \in Inst : c.myiter[j] = NULL <=> myiter[j] = NULL)
      /\ c.myiter \in [Inst -> Node \cup {NULL}]
      /\ (\A n \in c.live : c.who[n] \in Inst /\ c.myiter[c.who[n]] = n /\ n \in Node)
  <2>1. PlacesOK(c, D) /\ used <= c.used /\ \A j \in Inst : c.myiter[j] = NULL <=> myiter[j] = NULL
    BY <1>6 DEF ServedOK
  <2>2. c.used \in Nat
    BY <2>1, MembersFacts
  <2>3. /\ c.myiter \in [Inst -> Node \cup {NULL}]
        /\ \A n \in c.live : c.who[n] \in Inst /\ c.myiter[c.who[n]] = n
        /\ c.live \subseteq 1..c.used /\ c.used \in 0..MaxNode
    BY <2>1 DEF PlacesOK, NodesOK
  <2>4. 1..c.used \subseteq Node
    BY <2>3, DepthsAssumption DEF Node
  <2> QED BY <2>1, <2>2, <2>3, <2>4
<1>8. c.l \in ListType /\ Lists' = c.l /\ Now'.l = c.l
  <2>1. c.l \in ListType
    BY <1>7, MembersFacts DEF ListsOK
  <2>2. Lists' = [next |-> c.l.next, prev |-> c.l.prev]
    BY <1>1 DEF Lists
  <2>3. c.l = [next |-> c.l.next, prev |-> c.l.prev]
    BY <2>1 DEF ListType
  <2> QED BY <2>1, <2>2, <2>3 DEF Now
<1>9. /\ Now'.used = c.used /\ Now'.live = c.live /\ Now'.who = c.who
      /\ Now'.myiter = c.myiter
  BY <1>1 DEF Now
<1>10. \A n \in c.live : D[c.who[n]] = DepthNow'[c.who[n]]
  <2> SUFFICES ASSUME NEW n \in c.live PROVE D[c.who[n]] = DepthNow'[c.who[n]]
    OBVIOUS
  <2> DEFINE j == c.who[n]
  <2>1. j \in Inst /\ c.myiter[j] # NULL
    <3>1. NULL \notin Node
      BY PlaceFacts
    <3> QED BY <1>7, <3>1
  <2>2. myiter[j] # NULL /\ j <= MaxInst
    BY <1>3, <1>7, <2>1 DEF Inst
  <2> HIDE DEF j
  <2>3. DepthNow'[j] = rval[j]
    BY <1>1, <2>1 DEF DepthNow, Committed
  <2>4. D[j] = rval[j]
    BY <2>1, <2>2 DEF DepthAt, Moves, Committed, RequestInv
  <2> QED BY <2>3, <2>4 DEF j
<1> HIDE DEF D
<1>11. Members(c.live, c.who, D) = Members(c.live, c.who, DepthNow')
  BY <1>10, MembersSame
<1>12. PlacesOK(Now', DepthNow')
  <2>1. /\ NodesOK(c) /\ \A n \in c.live : D[c.who[n]] \in Depths
        /\ ListsOK(c.l, Members(c.live, c.who, D))
    BY <1>7 DEF PlacesOK
  <2>2. NodesOK(Now')
    BY <1>9, <2>1 DEF NodesOK
  <2>3. (\A n \in c.live : DepthNow'[c.who[n]] \in Depths)
    BY <1>10, <2>1
  <2> QED BY <1>8, <1>9, <1>11, <2>1, <2>2, <2>3 DEF PlacesOK
<1>13. RequestInv'
  BY <1>1 DEF RequestInv
<1>14. \A at, L, B, T : WalkOK(c, D, at, L, B, T) => WalkOK(Now', DepthNow', at, L, B, T)
  BY <1>8, <1>9, <1>11 DEF WalkOK
<1>15. /\ \A at : \A L \in Depths, B, T \in SUBSET (1..used) :
            WalkOK(Now, DepthNow, at, L, B, T) => WalkOK(c, D, at, L, B, T)
       /\ \A L \in Depths, B, T \in SUBSET (1..used) :
            WalkOK(Now, DepthNow, iter, L, B, T) => WalkOK(c, D, c.iter, L, B, T)
  BY <1>6 DEF ServedOK, D
<1> QED BY <1>1, <1>3, <1>7, <1>12, <1>13, <1>14, <1>15 DEF c

\* The recursive function of Chain.
Reached(d) ==
  CHOOSE from : from = [k \in 0..MaxNode |->
    IF k = 0 THEN {next[Root(d)]} \ {NULL}
    ELSE LET S == from[k-1] IN S \cup ({next[x] : x \in S} \ {NULL})]

-----------------------------------------------------------------------------
(* The nodes a loop meets                                                  *)

\* The recursive function of Chain exists and satisfies its equation.
LEMMA ReachedIs ==
  ASSUME NEW d
  PROVE  /\ Chain(d) = Reached(d)[MaxNode]
         /\ Reached(d)[0] = {next[Root(d)]} \ {NULL}
         /\ \A k \in 1..MaxNode : Reached(d)[k] =
              Reached(d)[k-1] \cup ({next[x] : x \in Reached(d)[k-1]} \ {NULL})
<1> DEFINE a == {next[Root(d)]} \ {NULL}
           Step(S) == S \cup ({next[x] : x \in S} \ {NULL})
           Eq(f, n) == [k \in 0..n |-> IF k = 0 THEN a ELSE Step(f[k-1])]
           Wrong == {n \in Nat : ~\E f : f = Eq(f, n)}
<1>0. Chain(d) = Reached(d)[MaxNode]
  BY Zenon DEF Chain, Reached
<1>1. Reached(d) = CHOOSE f : f = Eq(f, MaxNode)
  BY Zenon DEF Reached
<1> HIDE DEF a, Step
<1>2. Wrong = {}
  <2> SUFFICES ASSUME Wrong # {} PROVE FALSE
    OBVIOUS
  <2>1. PICK n \in Wrong : \A j \in Wrong : n <= j
    <3>1. Wrong \in SUBSET Nat
      OBVIOUS
    <3> HIDE DEF Wrong
    <3> QED BY <3>1, LeastOf
  <2>2. n # 0
    <3> SUFFICES ASSUME n = 0 PROVE FALSE
      OBVIOUS
    <3> DEFINE f == [i \in 0..0 |-> a]
    <3>1. f = Eq(f, 0)
      OBVIOUS
    <3> HIDE DEF f, Eq
    <3> QED BY <3>1
  <2>3. n \in Nat /\ n - 1 \in Nat /\ n - 1 \notin Wrong
    <3>1. n \in Nat
      OBVIOUS
    <3>2. n - 1 \in Nat /\ ~(n <= n - 1)
      BY <2>2, <3>1
    <3> HIDE DEF Wrong
    <3> QED BY <2>1, <3>1, <3>2
  <2>4. PICK f : f = Eq(f, n - 1)
    BY <2>3
  <2> DEFINE g == [i \in 0..n |-> IF i = n THEN Step(f[n - 1]) ELSE f[i]]
  <2>5. \A i \in 0..n : g[i] = IF i = 0 THEN a ELSE Step(g[i - 1])
    <3> SUFFICES ASSUME NEW i \in 0..n PROVE g[i] = IF i = 0 THEN a ELSE Step(g[i - 1])
      OBVIOUS
    <3>1. CASE i = n
      BY <2>2, <2>3, <3>1
    <3>2. CASE i # n
      <4>1. i \in 0..n-1 /\ g[i] = f[i]
        BY <2>3, <3>2
      <4>2. f[i] = IF i = 0 THEN a ELSE Step(f[i - 1])
        BY <2>4, <4>1
      <4>3. i # 0 => i - 1 \in 0..n /\ i - 1 # n /\ g[i - 1] = f[i - 1]
        BY <2>3, <4>1
      <4> HIDE DEF g
      <4> QED BY <4>1, <4>2, <4>3
    <3> QED BY <3>1, <3>2
  <2>6. g = Eq(g, n)
    <3>1. g = [i \in 0..n |-> g[i]]
      OBVIOUS
    <3> HIDE DEF g
    <3> QED BY <2>5, <3>1
  <2> HIDE DEF g, Eq
  <2> QED BY <2>6
<1>3. MaxNode \notin Wrong /\ MaxNode \in Nat
  BY <1>2, DepthsAssumption
<1>4. Reached(d) = Eq(Reached(d), MaxNode)
  <2>1. \E f : f = Eq(f, MaxNode)
    BY <1>3
  <2> HIDE DEF Eq
  <2> QED BY <1>1, <2>1, Zenon
<1>5. \A k \in 0..MaxNode : Reached(d)[k] = IF k = 0 THEN a ELSE Step(Reached(d)[k - 1])
  BY <1>4, Zenon
<1>6. Reached(d)[0] = a /\ \A k \in 1..MaxNode : Reached(d)[k] = Step(Reached(d)[k - 1])
  <2> HIDE DEF Eq, Wrong
  <2>1. 0 \in 0..MaxNode /\ \A k \in 1..MaxNode : k \in 0..MaxNode /\ k # 0
    BY <1>3
  <2> QED BY <1>5, <2>1
<1> QED BY <1>0, <1>6, Zenon DEF a, Step

\* Following next from the root of a list in order meets its members, all of
\* them, and prev of the root is the last.
LEMMA ChainIs ==
  ASSUME NEW d \in Depths, NEW S \in SUBSET Node, Lists \in ListType, ListOK(Lists, d, S)
  PROVE  /\ Chain(d) = S
         /\ prev[Root(d)] \in {Root(d)} \cup Chain(d) /\ next[prev[Root(d)]] = NULL
<1> DEFINE r == Root(d)
           C(k) == Reached(d)[k]
<1>1. /\ Chain(d) = C(MaxNode)
      /\ C(0) = {next[r]} \ {NULL}
      /\ \A k \in 1..MaxNode : C(k) = C(k-1) \cup ({next[x] : x \in C(k-1)} \ {NULL})
  BY ReachedIs
<1>2. /\ \A x \in S \cup {r} :
           /\ next[x] \in S \cup {NULL}
           /\ next[x] # NULL => x < next[x]
           /\ \A y \in S : x < y => next[x] # NULL /\ next[x] <= y
      /\ \A y \in S : prev[y] \in S \cup {r} /\ next[prev[y]] = y
      /\ prev[r] \in S \cup {r} /\ next[prev[r]] = NULL
  <2>1. Lists.next = next /\ Lists.prev = prev
    BY DEF Lists
  <2> QED BY <2>1 DEF ListOK
<1>3. /\ r \in Int /\ r < 0 /\ NULL = 0 /\ MaxNode \in Nat
      /\ \A y \in S : y \in Nat /\ y > 0 /\ y <= MaxNode
  <2>1. \A y \in S : y \in Nat /\ y > 0 /\ y <= MaxNode
    BY PlaceFacts
  <2> QED BY <2>1, PlaceFacts
<1> HIDE DEF r, C
<1> DEFINE Right(k) == /\ C(k) \subseteq S
                       /\ next[r] # NULL => next[r] \in C(k)
                       /\ \A n \in S : n <= k + 1 => n \in C(k)
           Wrong == {k \in 0..MaxNode : ~Right(k)}
<1>4. Right(0)
  <2>1. C(0) \subseteq S /\ (next[r] # NULL => next[r] \in C(0))
    BY <1>1, <1>2
  <2>2. ASSUME NEW n \in S, n <= 0 + 1 PROVE n \in C(0)
    <3>1. next[r] # NULL /\ next[r] <= n
      BY <1>2, <1>3
    <3>2. next[r] \in S /\ next[r] \in Nat /\ next[r] > 0 /\ n \in Nat
      BY <1>2, <1>3, <3>1
    <3>3. next[r] = n
      BY <2>2, <3>1, <3>2
    <3> QED BY <1>1, <3>1, <3>3
  <2> QED BY <2>1, <2>2
<1>5. ASSUME NEW k \in 1..MaxNode, Right(k - 1) PROVE Right(k)
  <2>1. /\ C(k-1) \subseteq S /\ (next[r] # NULL => next[r] \in C(k-1))
        /\ \A n \in S : n <= k => n \in C(k-1)
    <3>1. k - 1 + 1 = k
      BY <1>3
    <3> QED BY <1>5, <3>1
  <2>2. C(k) = C(k-1) \cup ({next[x] : x \in C(k-1)} \ {NULL})
    BY <1>1
  <2> HIDE DEF Right
  <2>3. C(k) \subseteq S /\ (next[r] # NULL => next[r] \in C(k))
    BY <1>2, <2>1, <2>2
  <2>4. ASSUME NEW n \in S, n <= k + 1 PROVE n \in C(k)
    <3>1. n \in Nat /\ n # NULL /\ prev[n] \in S \cup {r} /\ next[prev[n]] = n
      BY <1>2, <1>3
    <3>2. CASE prev[n] = r
      BY <2>3, <3>1, <3>2
    <3>3. CASE prev[n] \in S
      <4>1. prev[n] \in Nat /\ prev[n] < n
        <5> DEFINE p == prev[n]
        <5> HIDE DEF p
        <5>1. p \in S /\ next[p] = n /\ n # NULL
          BY <3>1, <3>3 DEF p
        <5>2. p < n /\ p \in Nat
          BY <1>2, <1>3, <5>1
        <5> QED BY <5>2 DEF p
      <4>2. prev[n] <= k
        BY <1>3, <2>4, <3>1, <4>1
      <4>3. prev[n] \in C(k-1)
        BY <2>1, <3>3, <4>2
      <4> QED BY <2>2, <3>1, <4>3
    <3> QED BY <3>1, <3>2, <3>3
  <2> QED BY <2>3, <2>4 DEF Right
<1> HIDE DEF Right
<1>6. Wrong = {}
  <2> SUFFICES ASSUME Wrong # {} PROVE FALSE
    OBVIOUS
  <2>1. PICK k \in Wrong : \A j \in Wrong : k <= j
    <3>1. Wrong \in SUBSET Nat
      BY <1>3
    <3> HIDE DEF Wrong
    <3> QED BY <3>1, LeastOf
  <2>2. k \in 0..MaxNode /\ ~Right(k)
    OBVIOUS
  <2>3. k # 0
    BY <1>4, <2>2
  <2>4. k \in 1..MaxNode /\ k - 1 \in 0..MaxNode /\ ~(k <= k - 1)
    BY <1>3, <2>2, <2>3
  <2>5. k - 1 \notin Wrong
    <3> HIDE DEF Wrong
    <3> QED BY <2>1, <2>4
  <2>6. Right(k - 1)
    BY <2>4, <2>5
  <2> QED BY <1>5, <2>2, <2>4, <2>6
<1>7. Right(MaxNode)
  <2>1. MaxNode \in 0..MaxNode
    BY <1>3
  <2> QED BY <1>6, <2>1
<1>8. C(MaxNode) = S
  BY <1>3, <1>7 DEF Right
<1> QED BY <1>1, <1>2, <1>8 DEF r

\* The lists are those that OneLayerEach speaks of.
LEMMA LayersRight ==
  ASSUME PlacesOK(Now, DepthNow)
  PROVE  /\ \A d \in Depths : Chain(d) =
              {myiter[i] : i \in {i \in Inst : myiter[i] # NULL /\ Committed(i, rval[i]) = d}}
         /\ LastIsLast
<1> DEFINE M == Members(live, who, DepthNow)
<1>1. Now.l = Lists /\ Now.used = used /\ Now.live = live /\ Now.who = who /\ Now.myiter = myiter
  BY DEF Now
<1>2. M \in Families(used) /\ ListsOK(Lists, M) /\ used \in 0..MaxNode
  BY <1>1, MembersFacts
<1>3. /\ \A n \in live : who[n] \in Inst /\ myiter[who[n]] = n
      /\ \A i \in Inst : myiter[i] # NULL => myiter[i] \in live /\ who[myiter[i]] = i
      /\ live \subseteq Node
  <2>1. 1..used \subseteq Node
    BY <1>2, DepthsAssumption DEF Node
  <2> QED BY <1>1, <2>1 DEF PlacesOK, NodesOK
<1>4. ASSUME NEW d \in Depths
      PROVE  M[d] = {myiter[i] : i \in {i \in Inst : myiter[i] # NULL /\ Committed(i, rval[i]) = d}}
  <2> DEFINE J == {i \in Inst : myiter[i] # NULL /\ Committed(i, rval[i]) = d}
  <2>1. M[d] = {n \in live : DepthNow[who[n]] = d}
    BY DEF Members
  <2>2. \A i \in Inst : DepthNow[i] = Committed(i, rval[i])
    BY DEF DepthNow
  <2> HIDE DEF M
  <2>3. ASSUME NEW n \in M[d] PROVE n \in {myiter[i] : i \in J}
    <3>1. n \in live /\ who[n] \in Inst /\ myiter[who[n]] = n /\ DepthNow[who[n]] = d /\ n \in Node
      BY <1>3, <2>1
    <3>2. n # NULL
      BY <3>1, PlaceFacts
    <3>3. who[n] \in J
      BY <2>2, <3>1, <3>2
    <3> HIDE DEF J
    <3> QED BY <3>1, <3>3
  <2>4. ASSUME NEW i \in J PROVE myiter[i] \in M[d]
    BY <1>3, <2>1, <2>2
  <2> QED BY <2>3, <2>4
<1>5. ASSUME NEW d \in Depths
      PROVE  /\ Chain(d) = M[d]
             /\ prev[Root(d)] \in {Root(d)} \cup Chain(d) /\ next[prev[Root(d)]] = NULL
  <2> HIDE DEF M
  <2>1. M[d] \in SUBSET Node /\ Lists \in ListType /\ ListOK(Lists, d, M[d])
    BY <1>2, FamilyFacts DEF ListsOK
  <2> QED BY <2>1, ChainIs
<1> HIDE DEF M
<1> QED BY <1>4, <1>5 DEF LastIsLast

-----------------------------------------------------------------------------
(* The invariant is kept                                                   *)

\* The record of the lists as they stand, field by field.
LEMMA NowIs ==
  /\ Now.l = Lists /\ Now.used = used /\ Now.live = live /\ Now.who = who /\ Now.myiter = myiter
  /\ Now'.l = Lists' /\ Now'.used = used' /\ Now'.live = live' /\ Now'.who = who'
  /\ Now'.myiter = myiter'
  BY DEF Now

\* The types of the lists, of a redraw under way, and of the depths.
LEMMA DepthFacts ==
  ASSUME DepthTypeOK
  PROVE  /\ used \in 0..MaxNode /\ used \in Nat /\ MaxNode \in Nat /\ 1..used \subseteq Node
         /\ live \subseteq 1..used /\ who \in [Node -> Inst \cup {NULL}]
         /\ myiter \in [Inst -> Node \cup {NULL}]
         /\ rval \in [Inst -> Depths \cup {0}]
         /\ request \in [Inst -> {NoRequest} \cup (Depths \X Depths)]
         /\ Lists \in ListType /\ Lists.next = next /\ Lists.prev = prev
<1>1. used \in 0..MaxNode /\ MaxNode \in Nat
  BY DepthsAssumption DEF DepthTypeOK
<1>2. used \in Nat /\ 1..used \subseteq Node
  BY <1>1 DEF Node
<1>3. Lists \in ListType /\ Lists.next = next /\ Lists.prev = prev
  BY DEF DepthTypeOK, Lists, ListType, Place
<1> QED BY <1>1, <1>2, <1>3 DEF DepthTypeOK

\* The types of the redraws under way.
LEMMA FrameTypes ==
  ASSUME DepthTypeOK
  PROVE  /\ Len(frames) \in Nat /\ \A k \in 1..Len(frames) :
              /\ frames[k] \in [layer : Depths, push : Roots \cup Node \cup {NULL},
                                begun : SUBSET Node, ran : Seq(Node)]
              /\ frames[k].layer \in Depths /\ frames[k].layer \in Nat
              /\ frames[k].push \in Roots \cup Node \cup {NULL}
              /\ frames[k].begun \subseteq Node /\ frames[k].ran \in Seq(Node)
<1> DEFINE R == [layer : Depths, push : Roots \cup Node \cup {NULL}, begun : SUBSET Node, ran : Seq(Node)]
<1>1. frames \in Seq(R)
  BY DEF DepthTypeOK
<1>2. \A f \in R : f.layer \in Depths /\ f.push \in Roots \cup Node \cup {NULL}
                   /\ f.begun \subseteq Node /\ f.ran \in Seq(Node)
  OBVIOUS
<1>3. \A d \in Depths : d \in Nat
  BY DepthsAssumption
<1> HIDE DEF R
<1>4. Len(frames) \in Nat /\ \A k \in 1..Len(frames) : frames[k] \in R
  BY <1>1
<1> QED BY <1>2, <1>3, <1>4 DEF R

\* Only the depths of linked instances matter to the invariant.
LEMMA PlacesSame ==
  ASSUME NEW c, NEW D, NEW E, PlacesOK(c, D), \A n \in c.live : D[c.who[n]] = E[c.who[n]]
  PROVE  /\ PlacesOK(c, E)
         /\ \A at, L, B, T : WalkOK(c, D, at, L, B, T) => WalkOK(c, E, at, L, B, T)
<1>1. Members(c.live, c.who, D) = Members(c.live, c.who, E)
  BY MembersSame
<1> QED BY <1>1 DEF PlacesOK, WalkOK

\* The redraws under way are none the worse when the loops are not.
LEMMA FramesKept ==
  ASSUME DepthTypeOK, FramesInv, frames' = frames, iter' = iter, leaving => leaving',
         used' \in Nat, used <= used',
         \A at : \A L \in Depths, B, T \in SUBSET (1..used) :
           WalkOK(Now, DepthNow, at, L, B, T) => WalkOK(Now', DepthNow', at, L, B, T)
  PROVE  FramesInv'
<1> SUFFICES ASSUME NEW k \in 1..Len(frames)
             PROVE  /\ FrameOK(frames[k], used')
                    /\ ~leaving' => WalkOK(Now', DepthNow', At(k)', frames[k].layer,
                                          frames[k].begun, Ran(frames[k]))
  BY Zenon DEF FramesInv
<1> DEFINE f == frames[k]
<1>1. FrameOK(f, used) /\ (~leaving => WalkOK(Now, DepthNow, At(k), f.layer, f.begun, Ran(f)))
  BY DEF FramesInv
<1>2. f.layer \in Depths
  BY FrameTypes
<1>3. At(k)' = At(k)
  BY DEF At
<1> HIDE DEF f
<1>4. f.begun \in SUBSET (1..used) /\ Ran(f) \in SUBSET (1..used)
  BY <1>1 DEF FrameOK
<1>5. FrameOK(f, used')
  <2>1. used \in Nat /\ 1..used \subseteq 1..used'
    BY DepthFacts
  <2> QED BY <1>1, <2>1 DEF FrameOK
<1>6. ASSUME ~leaving' PROVE WalkOK(Now', DepthNow', At(k), f.layer, f.begun, Ran(f))
  BY <1>1, <1>2, <1>4, <1>6
<1> QED BY <1>3, <1>5, <1>6 DEF f

\* The invariant holds when the game begins.
LEMMA InitDraw == DepthInit => DrawInv
<1> SUFFICES ASSUME DepthInit PROVE DrawInv
  OBVIOUS
<1>1. /\ used = 0 /\ live = {} /\ who = [n \in Node |-> NULL]
      /\ next = [x \in Place |-> NULL]
      /\ prev = [x \in Place |-> IF x \in Roots THEN x ELSE NULL]
      /\ rval = [i \in Inst |-> 0] /\ myiter = [i \in Inst |-> NULL]
      /\ request = [i \in Inst |-> NoRequest]
      /\ iter = NULL /\ frames = <<>> /\ leaving = FALSE /\ stale = FALSE /\ calls = 0
  BY DEF DepthInit, Place
<1>2. MaxNode \in Nat /\ MaxCalls \in Nat /\ Roots \subseteq Place
  BY DepthsAssumption DEF Place
<1>3. Len(frames) = 0 /\ 1..0 = {} /\ 2..0 = {}
  BY <1>1
<1>4. DepthTypeOK
  <2>1. \A R : frames \in Seq(R)
    BY <1>1
  <2>2. /\ used \in 0..MaxNode /\ live \subseteq 1..used /\ calls \in 0..MaxCalls
        /\ who \in [Node -> Inst \cup {NULL}] /\ rval \in [Inst -> Depths \cup {0}]
        /\ myiter \in [Inst -> Node \cup {NULL}]
        /\ request \in [Inst -> {NoRequest} \cup (Depths \X Depths)]
    BY <1>1, <1>2
  <2>3. next \in [Place -> Node \cup {NULL}] /\ prev \in [Place -> Place \cup {NULL}]
    BY <1>1, <1>2
  <2> QED BY <1>1, <2>1, <2>2, <2>3 DEF DepthTypeOK, Place
<1>5. Lists \in ListType
  BY <1>4, DepthFacts
<1>6. \A d \in Depths : ListOK(Lists, d, {})
  <2> SUFFICES ASSUME NEW d \in Depths PROVE ListOK(Lists, d, {})
    OBVIOUS
  <2>1. Root(d) \in Place /\ Root(d) \in Roots
    BY PlaceFacts DEF Roots
  <2>2. Lists.next[Root(d)] = NULL /\ Lists.prev[Root(d)] = Root(d)
    BY <1>1, <2>1 DEF Lists
  <2> QED BY <2>2 DEF ListOK
<1>7. Members(live, who, DepthNow) = [d \in Depths |-> {}]
  BY <1>1 DEF Members
<1>8. PlacesOK(Now, DepthNow)
  <2>1. NodesOK(Now)
    BY <1>1, <1>2, NowIs DEF NodesOK
  <2>2. ListsOK(Lists, Members(live, who, DepthNow))
    BY <1>5, <1>6, <1>7 DEF ListsOK
  <2> QED BY <1>1, <2>1, <2>2, NowIs DEF PlacesOK
<1>9. RequestInv
  BY <1>1 DEF RequestInv
<1>10. FramesInv
  BY <1>3 DEF FramesInv
<1>11. Allocated
  <2>1. \A x \in Roots \cup 1..used : prev[x] # NULL
    <3>1. 1..used = {}
      BY <1>1, <1>3
    <3>2. \A x \in Roots : x \in Place /\ x # NULL
      BY <1>2, PlaceFacts
    <3> QED BY <1>1, <3>1, <3>2
  <2> QED BY <1>1, <1>3, <2>1 DEF Allocated
<1> QED BY <1>4, <1>8, <1>9, <1>10, <1>11 DEF DrawInv, Sound

\* The number of calls stays in its bound.
LEMMA CallType == ASSUME DepthTypeOK, Call PROVE calls' \in 0..MaxCalls
  BY DepthsAssumption DEF DepthTypeOK, Call

\* depth = d moves no node: what changes is the request on file, which keeps
\* the depth of the list the instance is in.  (depthv::function)
LEMMA SetDepthInv ==
  ASSUME DrawInv, NEW i \in Inst, NEW d \in Depths, SetDepth(i, d) PROVE DrawInv'
<1>1. /\ Call /\ rval' = [rval EXCEPT ![i] = d]
      /\ request' = IF Files(i, d) THEN [request EXCEPT ![i] = <<Committed(i, rval[i]), d>>]
                    ELSE request
      /\ UNCHANGED <<used, live, who, next, prev, myiter, iter, frames, leaving, stale>>
  BY DEF SetDepth, listVars, loopVars
<1>2. DepthTypeOK /\ Allocated /\ (~stale => Sound)
  BY DEF DrawInv
<1>3. /\ rval \in [Inst -> Depths \cup {0}] /\ request \in [Inst -> {NoRequest} \cup (Depths \X Depths)]
  BY <1>2 DEF DepthTypeOK
<1>4. Now' = Now /\ Now.live = live /\ Now.who = who 
  BY <1>1 DEF Now, Lists
<1>5. myiter[i] # NULL => Committed(i, rval[i]) \in Depths
  BY <1>2, RequestTypes DEF Allocated, Committed
<1>6. request' \in [Inst -> {NoRequest} \cup (Depths \X Depths)]
  BY <1>1, <1>3, <1>5 DEF Files
<1>7. rval' \in [Inst -> Depths \cup {0}]
  BY <1>1, <1>3
<1>8. DepthTypeOK' /\ Allocated'
  <2>1. DepthTypeOK'
    BY <1>1, <1>2, <1>6, <1>7, CallType DEF DepthTypeOK
  <2>2. Allocated'
    BY <1>1, <1>2, <1>3 DEF Allocated
  <2> QED BY <2>1, <2>2
<1>9. \A j \in Inst : myiter[j] # NULL => DepthNow'[j] = DepthNow[j]
  <2> SUFFICES ASSUME NEW j \in Inst, myiter[j] # NULL PROVE DepthNow'[j] = DepthNow[j]
    OBVIOUS
  <2>0. DepthNow[j] = (IF request[j] = NoRequest THEN rval[j] ELSE request[j][1])
        /\ DepthNow'[j] = (IF request'[j] = NoRequest THEN rval'[j] ELSE request'[j][1])
    BY DEF DepthNow, Committed
  <2>1. CASE j # i
    <3>1. rval'[j] = rval[j] /\ request'[j] = request[j]
      BY <1>1, <1>3, <2>1
    <3> QED BY <2>0, <3>1
  <2>2. CASE j = i /\ rval[i] = d
    <3>1. rval'[j] = rval[j] /\ request' = request
      BY <1>1, <1>3, <2>2 DEF Files
    <3> QED BY <2>0, <3>1
  <2>3. CASE j = i /\ rval[i] # d
    <3>1. request'[i] = <<Committed(i, rval[i]), d>>
      BY <1>1, <1>3, <2>3 DEF Files
    <3>2. request'[i] # NoRequest /\ request'[i][1] = Committed(i, rval[i])
      BY <3>1 DEF NoRequest
    <3> QED BY <2>0, <2>3, <3>2 DEF Committed
  <2> QED BY <2>1, <2>2, <2>3
<1>10. ASSUME Sound PROVE Sound'
  <2>1. PlacesOK(Now, DepthNow) /\ RequestInv /\ FramesInv
    BY <1>10 DEF Sound
  <2>2. \A n \in Now.live : DepthNow[Now.who[n]] = DepthNow'[Now.who[n]]
    <3> SUFFICES ASSUME NEW n \in live PROVE DepthNow[who[n]] = DepthNow'[who[n]]
      BY <1>4
    <3>1. who[n] \in Inst /\ myiter[who[n]] = n /\ n # NULL
      <4>1. n \in 1..used
        BY <1>2, DepthFacts
      <4> QED BY <2>1, <4>1, NowIs DEF PlacesOK, NodesOK, NULL
    <3> QED BY <1>9, <3>1
  <2>3. /\ PlacesOK(Now', DepthNow')
        /\ \A at, L, B, T : WalkOK(Now, DepthNow, at, L, B, T) => WalkOK(Now', DepthNow', at, L, B, T)
    <3> DEFINE E == DepthNow'
    <3> HIDE DEF E
    <3>1. \A n \in Now.live : DepthNow[Now.who[n]] = E[Now.who[n]]
      BY <2>2 DEF E
    <3>2. PlacesOK(Now, E)
          /\ \A at, L, B, T : WalkOK(Now, DepthNow, at, L, B, T) => WalkOK(Now, E, at, L, B, T)
      BY <2>1, <3>1, PlacesSame
    <3> QED BY <1>4, <3>2 DEF E
  <2>4. RequestInv'
    <3> SUFFICES ASSUME NEW j \in Inst, myiter'[j] # NULL, request'[j] # NoRequest
                 PROVE  request'[j][2] = rval'[j]
      BY DEF RequestInv
    <3>1. j # i \/ rval[i] = d => rval'[j] = rval[j] /\ request'[j] = request[j]
      BY <1>1, <1>3 DEF Files
    <3>2. CASE j # i \/ rval[i] = d
      BY <1>1, <2>1, <3>1, <3>2 DEF RequestInv
    <3>3. CASE j = i /\ rval[i] # d
      <4>1. request'[i] = <<Committed(i, rval[i]), d>>
        BY <1>1, <1>3, <3>3 DEF Files
      <4>2. request'[i][2] = d /\ rval'[i] = d
        BY <1>1, <1>3, <4>1
      <4> QED BY <3>3, <4>2
    <3> QED BY <3>2, <3>3
  <2>5. FramesInv'
    <3>1. used' \in Nat /\ used <= used'
      BY <1>1, <1>2, DepthFacts
    <3> QED BY <1>1, <1>2, <2>1, <2>3, <3>1, FramesKept
  <2> QED BY <2>3, <2>4, <2>5 DEF Sound
<1> QED BY <1>1, <1>2, <1>8, <1>10 DEF DrawInv

\* What PlacesOK says of the lists as they stand.
LEMMA DrawFacts ==
  ASSUME PlacesOK(Now, DepthNow)
  PROVE  LET M == Members(live, who, DepthNow)
         IN /\ used \in 0..MaxNode /\ used \in Nat /\ live \subseteq 1..used /\ NULL \notin live
            /\ 1..used \subseteq Node
            /\ who \in [Node -> Inst \cup {NULL}] /\ myiter \in [Inst -> Node \cup {NULL}]
            /\ \A n \in live : who[n] \in Inst /\ myiter[who[n]] = n
            /\ \A j \in Inst : myiter[j] # NULL => myiter[j] \in live /\ who[myiter[j]] = j
            /\ M \in Families(used) /\ ListsOK(Lists, M)
            /\ \A d \in Depths : M[d] = {n \in live : DepthNow[who[n]] = d}
            /\ \A n \in live : DepthNow[who[n]] \in Depths
<1>2. /\ used \in 0..MaxNode /\ used \in Nat /\ Members(live, who, DepthNow) \in Families(used)
      /\ ListsOK(Lists, Members(live, who, DepthNow))
  BY MembersFacts, NowIs
<1>3. /\ live \subseteq 1..used
      /\ who \in [Node -> Inst \cup {NULL}] /\ myiter \in [Inst -> Node \cup {NULL}]
      /\ \A n \in live : who[n] \in Inst /\ myiter[who[n]] = n
      /\ \A j \in Inst : myiter[j] # NULL => myiter[j] \in live /\ who[myiter[j]] = j
      /\ \A n \in live : DepthNow[who[n]] \in Depths
  BY NowIs DEF PlacesOK, NodesOK
<1>4. NULL \notin live /\ 1..used \subseteq Node
  BY <1>2, <1>3, DepthsAssumption DEF NULL, Node
<1>5. \A d \in Depths : Members(live, who, DepthNow)[d] = {n \in live : DepthNow[who[n]] = d}
  BY DEF Members
<1> QED BY <1>2, <1>3, <1>4, <1>5

\* depthv::remove takes the node of the instance out of the list it is in.
\* (deactivate)
LEMMA DeactivateInv ==
  ASSUME DrawInv, NEW i \in Inst, Deactivate(i) PROVE DrawInv'
<1> DEFINE w == myiter[i]
           d == DepthNow[i]
           M == Members(live, who, DepthNow)
           N == [M EXCEPT ![d] = @ \ {w}]
           m == Remove(Lists, d, w)
<1>1. /\ Call /\ w # NULL
      /\ live' = live \ {w} /\ myiter' = [myiter EXCEPT ![i] = NULL]
      /\ UNCHANGED <<used, who, rval, request, iter, frames, leaving, stale>>
  BY DEF Deactivate, loopVars
<1>2. DepthTypeOK /\ Allocated /\ (~stale => Sound)
  BY DEF DrawInv
<1>3. Lists' = m /\ next' = m.next /\ prev' = m.prev
  <2>1. d = Committed(i, rval[i])
    BY DEF DepthNow
  <2>2. next' = Remove(Lists, Committed(i, rval[i]), myiter[i]).next
        /\ prev' = Remove(Lists, Committed(i, rval[i]), myiter[i]).prev
    BY Zenon DEF Deactivate
  <2>3. next' = m.next /\ prev' = m.prev
    BY <2>1, <2>2
  <2> HIDE DEF m
  <2>4. m = [next |-> m.next, prev |-> m.prev]
    BY DEF m, Remove
  <2> QED BY <2>3, <2>4 DEF Lists
<1>4. DepthNow' = DepthNow
  BY <1>1 DEF DepthNow, Committed
<1>5. DepthTypeOK' /\ Allocated'
  <2>1. w \in 1..used /\ w \in Node /\ Lists \in ListType /\ Lists.prev = prev /\ prev[w] # NULL
        /\ myiter \in [Inst -> Node \cup {NULL}] /\ live \subseteq 1..used
    <3>1. w \in 1..used
      BY <1>1, <1>2 DEF Allocated
    <3> QED BY <1>2, <3>1, DepthFacts DEF Allocated
  <2>2. d \in Depths
    BY <1>1, <1>2, RequestTypes DEF Allocated, DepthNow, Committed
  <2> HIDE DEF w, d
  <2>3. m \in ListType /\ \A x \in Place : prev[x] # NULL => m.prev[x] # NULL
    BY <2>1, <2>2, RemoveTypes
  <2> HIDE DEF m
  <2>4. /\ next' \in [Roots \cup Node -> Node \cup {NULL}]
        /\ prev' \in [Roots \cup Node -> Roots \cup Node \cup {NULL}]
    BY <1>3, <2>3 DEF ListType, Place
  <2>5. myiter' \in [Inst -> Node \cup {NULL}] /\ live' \subseteq 1..used
    BY <1>1, <2>1
  <2>6. DepthTypeOK'
    BY <1>1, <1>2, <2>4, <2>5, CallType DEF DepthTypeOK
  <2>7. myiter' \in [Inst -> {NULL} \cup 1..used] /\ \A j \in Inst : myiter'[j] # NULL => myiter[j] # NULL
    BY <1>1, <1>2 DEF Allocated
  <2>8. \A x \in Roots \cup 1..used : prev'[x] # NULL
    <3>1. \A x \in Roots \cup 1..used : x \in Place
      BY <1>2, DepthFacts DEF Place
    <3> QED BY <1>2, <1>3, <2>3, <3>1 DEF Allocated
  <2>9. Allocated'
    BY <1>1, <1>2, <2>7, <2>8 DEF Allocated
  <2> QED BY <2>6, <2>9
<1>6. SUFFICES ASSUME Sound PROVE Sound'
  BY <1>1, <1>2, <1>5 DEF DrawInv
<1>7. PlacesOK(Now, DepthNow) /\ RequestInv /\ FramesInv
  BY <1>6 DEF Sound
<1>8. /\ used \in 0..MaxNode /\ used \in Nat /\ live \subseteq 1..used /\ NULL \notin live
      /\ 1..used \subseteq Node
      /\ who \in [Node -> Inst \cup {NULL}] /\ myiter \in [Inst -> Node \cup {NULL}]
      /\ \A n \in live : who[n] \in Inst /\ myiter[who[n]] = n
      /\ \A j \in Inst : myiter[j] # NULL => myiter[j] \in live /\ who[myiter[j]] = j
      /\ M \in Families(used) /\ ListsOK(Lists, M)
      /\ \A f \in Depths : M[f] = {n \in live : DepthNow[who[n]] = f}
      /\ \A n \in live : DepthNow[who[n]] \in Depths
  BY <1>7, DrawFacts
<1>9. w \in live /\ who[w] = i /\ d \in Depths /\ w \in M[d]
  <2>1. w \in live /\ who[w] = i
    BY <1>1, <1>8
  <2>2. d \in Depths
    BY <1>8, <2>1
  <2> HIDE DEF M, d
  <2> QED BY <1>8, <2>1, <2>2 DEF d
<1> HIDE DEF w, d, M
<1>10. N \in Families(used) /\ ListsOK(m, N)
  BY <1>8, <1>9, RemoveLists
<1>11. \A f \in Depths : N[f] = IF f = d THEN M[f] \ {w} ELSE M[f]
  <2>1. M \in [Depths -> SUBSET (1..used)]
    BY <1>8, FamilyFacts
  <2> QED BY <2>1
<1>12. Members(live', who', DepthNow') = N
  <2>1. \A f \in Depths : {n \in live' : DepthNow[who[n]] = f} = N[f]
    <3> SUFFICES ASSUME NEW f \in Depths, NEW n
                 PROVE  n \in live' /\ DepthNow[who[n]] = f <=> n \in N[f]
      BY Zenon
    <3>1. n \in M[f] <=> n \in live /\ DepthNow[who[n]] = f
      BY <1>8
    <3>2. n = w /\ DepthNow[who[n]] = f => f = d
      BY <1>9 DEF d
    <3>3. n \in live' <=> n \in live /\ n # w
      BY <1>1
    <3> HIDE DEF N
    <3>4. CASE f = d
      <4>1. n \in N[f] <=> n \in M[f] /\ n # w
        BY <1>11, <3>4
      <4> QED BY <3>1, <3>3, <4>1
    <3>5. CASE f # d
      <4>1. n \in N[f] <=> n \in M[f]
        BY <1>11, <3>5
      <4> QED BY <3>1, <3>2, <3>3, <3>5, <4>1
    <3> QED BY <3>4, <3>5
  <2>2. N = [f \in Depths |-> N[f]]
    BY <1>10 DEF Families
  <2>3. Members(live', who', DepthNow') = [f \in Depths |-> {n \in live' : DepthNow[who[n]] = f}]
    BY <1>1, <1>4 DEF Members
  <2> HIDE DEF N
  <2> QED BY <2>1, <2>2, <2>3, Zenon
<1> HIDE DEF m, N
<1>13. PlacesOK(Now', DepthNow')
  <2>1. \A n \in live' : n \in live /\ who[n] \in Inst /\ who[n] # i /\ myiter[who[n]] = n
    BY <1>1, <1>8 DEF w
  <2>2. NodesOK(Now')
    <3>1. myiter' \in [Inst -> Node \cup {NULL}]
      BY <1>1, <1>8
    <3>2. \A n \in live' : who'[n] \in Inst /\ myiter'[who'[n]] = n
      BY <1>1, <1>8, <2>1
    <3>3. ASSUME NEW j \in Inst, myiter'[j] # NULL PROVE myiter'[j] \in live' /\ who'[myiter'[j]] = j
      <4>1. j # i /\ myiter'[j] = myiter[j]
        BY <1>1, <1>8, <3>3
      <4>2. myiter[j] \in live /\ who[myiter[j]] = j
        BY <1>8, <3>3, <4>1
      <4> QED BY <1>1, <1>9, <4>1, <4>2
    <3>4. used' \in 0..MaxNode /\ live' \subseteq 1..used' /\ who' \in [Node -> Inst \cup {NULL}]
      BY <1>1, <1>8
    <3> QED BY <3>1, <3>2, <3>3, <3>4, NowIs DEF NodesOK
  <2>3. \A n \in Now'.live : DepthNow'[Now'.who[n]] \in Depths
    BY <1>1, <1>4, <1>8, <2>1, NowIs
  <2>4. ListsOK(Now'.l, Members(Now'.live, Now'.who, DepthNow'))
    BY <1>3, <1>10, <1>12, NowIs
  <2> DEFINE E == DepthNow'
  <2> HIDE DEF E
  <2>5. \A n \in Now'.live : E[Now'.who[n]] \in Depths
    BY <2>3 DEF E
  <2>6. ListsOK(Now'.l, Members(Now'.live, Now'.who, E))
    BY <2>4 DEF E
  <2>7. PlacesOK(Now', E)
    BY <2>2, <2>5, <2>6 DEF PlacesOK
  <2> QED BY <2>7 DEF E
<1>14. RequestInv'
  <2>1. \A j \in Inst : myiter'[j] # NULL => myiter[j] # NULL
    BY <1>1, <1>8
  <2> QED BY <1>1, <1>7, <2>1 DEF RequestInv
<1>15. ASSUME NEW at, NEW L \in Depths, NEW B \in SUBSET (1..used), NEW T \in SUBSET (1..used),
              WalkOK(Now, DepthNow, at, L, B, T)
       PROVE  WalkOK(Now', DepthNow', at, L, B, T)
  <2>1. LoopOK(Lists, M, used, at, L, B, T)
    BY <1>15, NowIs DEF WalkOK, M
  <2>2. LoopOK(m, N, used, at, L, B, T)
    BY <1>8, <1>9, <2>1, RemoveLoop DEF m, N
  <2> DEFINE E == DepthNow'
  <2> HIDE DEF E
  <2>3. Members(live', who', E) = N
    BY <1>12 DEF E
  <2>4. WalkOK(Now', E, at, L, B, T)
    BY <1>1, <1>3, <2>2, <2>3, NowIs DEF WalkOK
  <2> QED BY <2>4 DEF E
<1>16. FramesInv'
  BY <1>1, <1>2, <1>7, <1>8, <1>15, FramesKept
<1> QED BY <1>13, <1>14, <1>16 DEF Sound

\* The lists of Activate after each object of the instance.
Linked(i) ==
  CHOOSE s : s = [k \in 1..Len(ObjDepths[i]) |->
    IF k = 1 THEN Init1(Lists, i, 1)
    ELSE Init1(Remove(s[k-1], Committed(i, ObjDepths[i][k-1]), used + k - 1), i, k)]

\* activate(), with its recursive function by name.
LEMMA ActivateIs ==
  ASSUME NEW i \in Inst, Activate(i)
  PROVE  LET n == Len(ObjDepths[i])
         IN /\ Call
            /\ myiter[i] = NULL
            /\ used + n <= MaxNode
            /\ used' = used + n
            /\ next' = Linked(i)[n].next /\ prev' = Linked(i)[n].prev
            /\ who' = [x \in Node |-> IF x > used /\ x <= used + n THEN i ELSE who[x]]
            /\ live' = live \cup {used + n}
            /\ myiter' = [myiter EXCEPT ![i] = used + n]
            /\ rval' = [rval EXCEPT ![i] = ObjDepths[i][n]]
            /\ stale' = (stale \/ Outlived(i))
            /\ UNCHANGED <<request, loopVars>>
  BY Zenon DEF Activate, Linked

\* The recursive function of Activate exists and satisfies its equation.
LEMMA LinkedIs ==
  ASSUME NEW i \in Inst
  PROVE  \A k \in 1..Len(ObjDepths[i]) : Linked(i)[k] =
           IF k = 1 THEN Init1(Lists, i, 1)
           ELSE Init1(Remove(Linked(i)[k-1], Committed(i, ObjDepths[i][k-1]), used + k - 1), i, k)
<1> DEFINE len == Len(ObjDepths[i])
           a == Init1(Lists, i, 1)
           Step(k, v) == Init1(Remove(v, Committed(i, ObjDepths[i][k-1]), used + k - 1), i, k)
           Eq(f, n) == [k \in 1..n |-> IF k = 1 THEN a ELSE Step(k, f[k-1])]
           Wrong == {n \in Nat : ~\E f : f = Eq(f, n)}
<1>1. Linked(i) = CHOOSE f : f = Eq(f, len)
  BY Zenon DEF Linked
<1>2. len \in Nat
  BY DepthsAssumption
<1> HIDE DEF a, Step, len
<1>3. Wrong = {}
  <2> SUFFICES ASSUME Wrong # {} PROVE FALSE
    OBVIOUS
  <2>1. PICK n \in Wrong : \A j \in Wrong : n <= j
    <3>1. Wrong \in SUBSET Nat
      OBVIOUS
    <3> HIDE DEF Wrong
    <3> QED BY <3>1, LeastOf
  <2>2. n # 0
    <3> SUFFICES ASSUME n = 0 PROVE FALSE
      OBVIOUS
    <3> DEFINE f == [k \in 1..0 |-> a]
    <3>1. f = Eq(f, 0)
      OBVIOUS
    <3> HIDE DEF f, Eq
    <3> QED BY <3>1
  <2>3. n \in Nat /\ n - 1 \in Nat /\ n - 1 \notin Wrong
    <3>1. n \in Nat
      OBVIOUS
    <3>2. n - 1 \in Nat /\ ~(n <= n - 1)
      BY <2>2, <3>1
    <3> HIDE DEF Wrong
    <3> QED BY <2>1, <3>1, <3>2
  <2>4. PICK f : f = Eq(f, n - 1)
    BY <2>3
  <2> DEFINE g == [k \in 1..n |-> IF k # n THEN f[k] ELSE IF n = 1 THEN a ELSE Step(n, f[n - 1])]
  <2>5. \A k \in 1..n : g[k] = IF k = 1 THEN a ELSE Step(k, g[k - 1])
    <3> SUFFICES ASSUME NEW k \in 1..n PROVE g[k] = IF k = 1 THEN a ELSE Step(k, g[k - 1])
      OBVIOUS
    <3>0. k # 1 => k - 1 \in 1..n /\ k - 1 # n /\ g[k - 1] = f[k - 1]
      BY <2>2, <2>3
    <3>1. CASE k = n
      <4>1. g[k] = IF n = 1 THEN a ELSE Step(n, f[n - 1])
        BY <3>1
      <4> HIDE DEF g
      <4> QED BY <3>0, <3>1, <4>1
    <3>2. CASE k # n
      <4>1. k \in 1..n-1 /\ g[k] = f[k]
        BY <2>3, <3>2
      <4>2. f[k] = IF k = 1 THEN a ELSE Step(k, f[k - 1])
        BY <2>4, <4>1
      <4> HIDE DEF g
      <4> QED BY <3>0, <4>1, <4>2
    <3> QED BY <3>1, <3>2
  <2>6. g = Eq(g, n)
    <3>1. g = [k \in 1..n |-> g[k]]
      OBVIOUS
    <3> HIDE DEF g
    <3> QED BY <2>5, <3>1
  <2> HIDE DEF g, Eq
  <2> QED BY <2>6
<1>4. len \notin Wrong
  BY <1>3
<1>5. Linked(i) = Eq(Linked(i), len)
  <2>1. \E f : f = Eq(f, len)
    BY <1>2, <1>4
  <2> HIDE DEF Eq
  <2> QED BY <1>1, <2>1, Zenon
<1>6. \A k \in 1..len : Linked(i)[k] = IF k = 1 THEN a ELSE Step(k, Linked(i)[k - 1])
  BY <1>5, Zenon
<1> QED BY <1>6, Zenon DEF a, Step, len

\* depthv::remove and init of the next object: the node of the one before goes.
LEMMA Relinked ==
  ASSUME NEW v \in Nat, NEW u \in 0..MaxNode, v < u, u + 1 <= MaxNode, NEW M \in Families(v),
         NEW g \in Depths, NEW h \in Depths, NEW l, NEW N, N = [M EXCEPT ![g] = @ \cup {u}],
         N \in Families(u), ListsOK(l, N)
  PROVE  LET m == Add(Remove(l, g, u), h, u + 1)
             K == [M EXCEPT ![h] = @ \cup {u + 1}]
         IN /\ K \in Families(u + 1) /\ ListsOK(m, K)
            /\ \A at : \A L \in Depths, B, T \in SUBSET (1..v) :
                 LoopOK(l, N, u, at, L, B, T) => LoopOK(m, K, u + 1, at, L, B, T)
<1> DEFINE m == Add(Remove(l, g, u), h, u + 1)
           K == [M EXCEPT ![h] = @ \cup {u + 1}]
           P == [N EXCEPT ![g] = @ \ {u}]
<1>1. M \in [Depths -> SUBSET (1..v)]
  BY DEF Families
<1>2. u \in Nat /\ u \notin 1..v /\ 1..v \subseteq 1..u
  BY DepthsAssumption
<1>3. u \in N[g] /\ N \in [Depths -> SUBSET (1..u)]
  BY <1>1 DEF Families
<1>4. P = M
  <2>1. \A d \in Depths : P[d] = M[d]
    <3>1. \A d \in Depths : u \notin M[d]
      BY <1>1, <1>2
    <3>2. \A d \in Depths : N[d] = IF d = g THEN M[g] \cup {u} ELSE M[d]
      BY <1>1
    <3>3. \A d \in Depths : P[d] = IF d = g THEN N[g] \ {u} ELSE N[d]
      BY <1>3
    <3>4. N[g] \ {u} = M[g]
      <4>1. N[g] = M[g] \cup {u} /\ u \notin M[g]
        BY <3>1, <3>2
      <4> QED BY <4>1
    <3>5. \A d \in Depths : d # g => N[d] = M[d]
      BY <3>2
    <3> HIDE DEF P
    <3> QED BY <3>3, <3>4, <3>5
  <2>2. P \in [Depths -> SUBSET (1..u)] /\ P = [d \in Depths |-> P[d]]
    BY <1>3
  <2>3. M = [d \in Depths |-> M[d]]
    BY <1>1
  <2> HIDE DEF P
  <2> QED BY <2>1, <2>2, <2>3
<1>5. P \in Families(u) /\ ListsOK(Remove(l, g, u), P)
  BY <1>3, RemoveLists
<1>6. M \in Families(u) /\ ListsOK(Remove(l, g, u), M)
  <2> HIDE DEF P
  <2> QED BY <1>4, <1>5
<1>7. K \in Families(u + 1) /\ ListsOK(m, K)
  BY <1>6, AddLists
<1>8. ASSUME NEW at, NEW L \in Depths, NEW B \in SUBSET (1..v), NEW T \in SUBSET (1..v),
             LoopOK(l, N, u, at, L, B, T)
      PROVE  LoopOK(m, K, u + 1, at, L, B, T)
  <2>1. B \in SUBSET (1..u) /\ T \in SUBSET (1..u)
    BY <1>2
  <2>2. LoopOK(Remove(l, g, u), P, u, at, L, B, T)
    BY <1>3, <1>8, <2>1, RemoveLoop
  <2>3. LoopOK(Remove(l, g, u), M, u, at, L, B, T)
    <3> HIDE DEF P
    <3> QED BY <1>4, <2>2
  <2> QED BY <1>6, <2>1, <2>3, AddLoop
<1> QED BY <1>7, <1>8

\* The lists l when the first a nodes are allocated and the last of them is in
\* the list of depth g, the others where M says.
StageOK(l, M, g, a) ==
  LET K == [M EXCEPT ![g] = @ \cup {a}]
  IN /\ K \in Families(a) /\ ListsOK(l, K)
     /\ \A at : \A L \in Depths, B, T \in SUBSET (1..used) :
          LoopOK(Lists, M, used, at, L, B, T) => LoopOK(l, K, a, at, L, B, T)

\* The types of the lists after all the objects of an instance.
LEMMA ActivateTypes ==
  ASSUME DepthTypeOK, Allocated, NEW i \in Inst, used + Len(ObjDepths[i]) <= MaxNode
  PROVE  LET n == Len(ObjDepths[i])
         IN /\ n \in Nat /\ n > 0 /\ ObjDepths[i][n] \in Depths
            /\ Linked(i)[n] \in ListType
            /\ \A x \in Roots \cup 1..(used + n) : Linked(i)[n].prev[x] # NULL
<1> DEFINE n == Len(ObjDepths[i])
           ds == ObjDepths[i]
           s == Linked(i)
           Good(k) == s[k] \in ListType /\ \A x \in Roots \cup 1..(used + k) : s[k].prev[x] # NULL
           Wrong == {k \in 1..n : ~Good(k)}
<1>1. n \in Nat /\ n > 0 /\ ds \in Seq(Depths)
  <2>1. ds \in Seq(Depths) /\ ds # <<>>
    BY DepthsAssumption
  <2> QED BY <2>1
<1>2. n \in 1..n /\ 1 \in 1..n /\ \A k \in 1..n : ds[k] \in Depths
  BY <1>1
<1>3. /\ s[1] = Add(Lists, ds[1], used + 1)
      /\ \A k \in 1..n : k # 1 =>
           s[k] = Add(Remove(s[k-1], Committed(i, ds[k-1]), used + k - 1), ds[k], used + k)
  <2>1. \A k \in 1..n : s[k] = IF k = 1 THEN Init1(Lists, i, 1)
                               ELSE Init1(Remove(s[k-1], Committed(i, ds[k-1]), used + k - 1), i, k)
    BY LinkedIs
  <2>2. \A l, k : Init1(l, i, k) = Add(l, ds[k], used + k)
    BY DEF Init1
  <2> HIDE DEF s, n, ds
  <2> QED BY <1>2, <2>1, <2>2
<1> HIDE DEF s, ds, Good
<1>4. MaxNode \in Nat /\ used + n <= MaxNode /\ used \in Nat
  BY DepthFacts
<1> HIDE DEF n
<1>5. Good(1)
  <2>1. used + 1 \in Node /\ ds[1] \in Depths /\ 1..(used + 1) = 1..used \cup {used + 1}
    BY <1>1, <1>2, <1>4 DEF Node
  <2> DEFINE l == Add(Lists, ds[1], used + 1)
  <2>2. Lists \in ListType /\ (\A x \in Roots \cup 1..used : x \in Place /\ Lists.prev[x] # NULL)
    BY DepthFacts DEF Allocated, Place
  <2>3. Root(ds[1]) \in Roots /\ (\A x \in Roots : x \in Place) /\ used + 1 \in Place
    BY <2>1 DEF Roots, Place
  <2>4. l \in ListType /\ (\A x \in Place : x = used + 1 \/ Lists.prev[x] # NULL => l.prev[x] # NULL)
    BY <2>1, <2>2, <2>3, AddTypes
  <2> HIDE DEF l
  <2>5. \A x \in Roots \cup 1..(used + 1) : l.prev[x] # NULL
    <3> SUFFICES ASSUME NEW x \in Roots \cup 1..(used + 1) PROVE l.prev[x] # NULL
      OBVIOUS
    <3>1. x = used + 1 \/ x \in Roots \cup 1..used
      BY <2>1
    <3> QED BY <2>2, <2>3, <2>4, <3>1
  <2> QED BY <1>3, <2>4, <2>5 DEF Good, l
<1>6. ASSUME NEW k \in 1..n, k # 1, Good(k - 1) PROVE Good(k)
  <2> DEFINE u == used + (k - 1)
             g == Committed(i, ds[k-1])
             h == ds[k]
             l == s[k-1]
             r == Remove(l, g, u)
             m == Add(r, h, u + 1)
  <2>1. /\ k - 1 \in 1..n /\ u \in Node /\ u \in 1..u /\ u + 1 \in Node /\ u + 1 = used + k
        /\ used + k - 1 = u /\ 1..(u + 1) = 1..u \cup {u + 1}
    BY <1>1, <1>4, <1>6 DEF Node
  <2>2. g \in Depths /\ h \in Depths
    BY <1>2, <2>1, RequestTypes DEF Committed
  <2>3. l \in ListType /\ \A x \in Roots \cup 1..u : l.prev[x] # NULL
    BY <1>6 DEF Good
  <2>4. s[k] = m
    BY <1>3, <1>6, <2>1
  <2> HIDE DEF u, g, h, l, r, m
  <2>5. r \in ListType /\ \A x \in Place : l.prev[x] # NULL => r.prev[x] # NULL
    BY <2>1, <2>2, <2>3, RemoveTypes DEF r
  <2>6. (\A x \in Roots \cup 1..u : x \in Place) /\ Root(h) \in Roots /\ u + 1 \in Place
    <3>1. 1..u \subseteq Node
      BY <1>1, <1>4, <1>6 DEF Node, u
    <3> QED BY <2>1, <2>2, <3>1 DEF Place, Roots
  <2>7. \A x \in Roots \cup 1..u : r.prev[x] # NULL
    BY <2>3, <2>5, <2>6
  <2>8. m \in ListType /\ (\A x \in Place : x = u + 1 \/ r.prev[x] # NULL => m.prev[x] # NULL)
    BY <2>1, <2>2, <2>5, <2>6, <2>7, AddTypes DEF m
  <2>9. \A x \in Roots \cup 1..(u + 1) : m.prev[x] # NULL
    <3> SUFFICES ASSUME NEW x \in Roots \cup 1..(u + 1) PROVE m.prev[x] # NULL
      OBVIOUS
    <3>1. x = u + 1 \/ x \in Roots \cup 1..u
      BY <2>1
    <3> QED BY <2>6, <2>7, <2>8, <3>1
  <2> QED BY <2>1, <2>4, <2>8, <2>9 DEF Good
<1>7. Wrong = {}
  <2> SUFFICES ASSUME Wrong # {} PROVE FALSE
    OBVIOUS
  <2>1. PICK k \in Wrong : \A j \in Wrong : k <= j
    <3>1. Wrong \in SUBSET Nat
      BY <1>1
    <3> HIDE DEF Wrong
    <3> QED BY <3>1, LeastOf
  <2>2. k \in 1..n /\ ~Good(k)
    OBVIOUS
  <2>3. k # 1 /\ k - 1 \in 1..n /\ ~(k <= k - 1)
    BY <1>1, <1>5, <2>2
  <2>4. k - 1 \notin Wrong
    <3> HIDE DEF Wrong
    <3> QED BY <2>1, <2>3
  <2>5. Good(k - 1)
    BY <2>3, <2>4
  <2> QED BY <1>6, <2>2, <2>3, <2>5
<1>8. Good(n)
  BY <1>2, <1>7
<1> QED BY <1>1, <1>2, <1>8 DEF Good, n, s, ds

\* The lists after all the objects of an instance, when a request on file says
\* what it is given anyway.
LEMMA ActivateLists ==
  ASSUME used \in Nat, NEW M \in Families(used), ListsOK(Lists, M), NEW i \in Inst,
         \A k \in 1..Len(ObjDepths[i]) : Committed(i, ObjDepths[i][k]) = ObjDepths[i][k],
         used + Len(ObjDepths[i]) <= MaxNode
  PROVE  LET n == Len(ObjDepths[i])
         IN n \in Nat /\ n > 0 /\ ObjDepths[i][n] \in Depths
            /\ StageOK(Linked(i)[n], M, ObjDepths[i][n], used + n)
<1> DEFINE n == Len(ObjDepths[i])
           ds == ObjDepths[i]
           s == Linked(i)
           Good(k) == StageOK(s[k], M, ds[k], used + k)
           Wrong == {k \in 1..n : ~Good(k)}
<1>1. n \in Nat /\ n > 0 /\ ds \in Seq(Depths)
  <2>1. ds \in Seq(Depths) /\ ds # <<>>
    BY DepthsAssumption
  <2> QED BY <2>1
<1>2. n \in 1..n /\ 1 \in 1..n /\ \A k \in 1..n : ds[k] \in Depths
  BY <1>1
<1>3. /\ s[1] = Add(Lists, ds[1], used + 1)
      /\ \A k \in 1..n : k # 1 => s[k] = Add(Remove(s[k-1], ds[k-1], used + k - 1), ds[k], used + k)
  <2>1. \A k \in 1..n : s[k] = IF k = 1 THEN Init1(Lists, i, 1)
                               ELSE Init1(Remove(s[k-1], Committed(i, ds[k-1]), used + k - 1), i, k)
    BY LinkedIs
  <2>2. \A k \in 1..n : k # 1 => Committed(i, ds[k-1]) = ds[k-1]
    <3>1. \A k \in 1..n : k # 1 => k - 1 \in 1..n
      BY <1>1
    <3> HIDE DEF n, ds
    <3> QED BY <3>1 DEF n, ds
  <2>3. \A l, k : Init1(l, i, k) = Add(l, ds[k], used + k)
    BY DEF Init1
  <2> HIDE DEF s, n, ds
  <2>4. s[1] = Add(Lists, ds[1], used + 1)
    BY <1>2, <2>1, <2>3
  <2>5. ASSUME NEW k \in 1..n, k # 1
        PROVE  s[k] = Add(Remove(s[k-1], ds[k-1], used + k - 1), ds[k], used + k)
    <3>1. s[k] = Init1(Remove(s[k-1], Committed(i, ds[k-1]), used + k - 1), i, k)
      BY <2>1, <2>5
    <3> QED BY <2>2, <2>3, <2>5, <3>1
  <2> QED BY <2>4, <2>5
<1> HIDE DEF s, ds, Good
<1>4. MaxNode \in Nat /\ used + n <= MaxNode
  BY DepthsAssumption
<1> HIDE DEF n
<1>5. Good(1)
  <2>1. used \in 0..MaxNode /\ used + 1 <= MaxNode /\ ds[1] \in Depths
    BY <1>1, <1>2, <1>4
  <2> DEFINE K == [M EXCEPT ![ds[1]] = @ \cup {used + 1}]
             l == Add(Lists, ds[1], used + 1)
  <2>2. K \in Families(used + 1) /\ ListsOK(l, K)
    BY <2>1, AddLists
  <2>3. \A at : \A L \in Depths, B, T \in SUBSET (1..used) :
          LoopOK(Lists, M, used, at, L, B, T) => LoopOK(l, K, used + 1, at, L, B, T)
    BY <2>1, AddLoop
  <2> HIDE DEF l
  <2>4. StageOK(l, M, ds[1], used + 1)
    BY <2>2, <2>3 DEF StageOK
  <2> QED BY <1>3, <2>4 DEF l, Good
<1>6. ASSUME NEW k \in 1..n, k # 1, Good(k - 1) PROVE Good(k)
  <2> DEFINE u == used + (k - 1)
             g == ds[k-1]
             h == ds[k]
             l == s[k-1]
             N == [M EXCEPT ![g] = @ \cup {u}]
             K == [M EXCEPT ![h] = @ \cup {u + 1}]
             m == Add(Remove(l, g, u), h, u + 1)
  <2>1. k - 1 \in 1..n /\ u \in 0..MaxNode /\ used < u /\ u + 1 <= MaxNode /\ u + 1 = used + k
        /\ used + k - 1 = u
    BY <1>1, <1>4, <1>6
  <2>2. g \in Depths /\ h \in Depths
    BY <1>2, <2>1
  <2>3. StageOK(l, M, g, u)
    BY <1>6 DEF Good
  <2>4. s[k] = m
    BY <1>3, <1>6, <2>1
  <2> HIDE DEF u, g, h, l, m
  <2>5. /\ N \in Families(u) /\ ListsOK(l, N)
        /\ \A at : \A L \in Depths, B, T \in SUBSET (1..used) :
             LoopOK(Lists, M, used, at, L, B, T) => LoopOK(l, N, u, at, L, B, T)
    BY <2>3 DEF StageOK
  <2>6. /\ K \in Families(u + 1) /\ ListsOK(m, K)
        /\ \A at : \A L \in Depths, B, T \in SUBSET (1..used) :
             LoopOK(l, N, u, at, L, B, T) => LoopOK(m, K, u + 1, at, L, B, T)
    <3> HIDE DEF N, K
    <3>1. N = [M EXCEPT ![g] = @ \cup {u}]
      BY DEF N
    <3>2. /\ [M EXCEPT ![h] = @ \cup {u + 1}] \in Families(u + 1)
          /\ ListsOK(Add(Remove(l, g, u), h, u + 1), [M EXCEPT ![h] = @ \cup {u + 1}])
          /\ \A at : \A L \in Depths, B, T \in SUBSET (1..used) :
               LoopOK(l, N, u, at, L, B, T)
                 => LoopOK(Add(Remove(l, g, u), h, u + 1), [M EXCEPT ![h] = @ \cup {u + 1}],
                           u + 1, at, L, B, T)
      BY <2>1, <2>2, <2>5, <3>1, Relinked
    <3> QED BY <3>2 DEF K, m
  <2>7. \A at : \A L \in Depths, B, T \in SUBSET (1..used) :
          LoopOK(Lists, M, used, at, L, B, T) => LoopOK(m, K, u + 1, at, L, B, T)
    <3> HIDE DEF N, K
    <3> QED BY <2>5, <2>6
  <2>8. StageOK(m, M, h, u + 1)
    BY <2>6, <2>7 DEF StageOK
  <2> QED BY <2>1, <2>4, <2>8 DEF Good, h
<1>7. Wrong = {}
  <2> SUFFICES ASSUME Wrong # {} PROVE FALSE
    OBVIOUS
  <2>1. PICK k \in Wrong : \A j \in Wrong : k <= j
    <3>1. Wrong \in SUBSET Nat
      BY <1>1
    <3> HIDE DEF Wrong
    <3> QED BY <3>1, LeastOf
  <2>2. k \in 1..n /\ ~Good(k)
    OBVIOUS
  <2>3. k # 1
    BY <1>5, <2>2
  <2>4. k - 1 \in 1..n /\ ~(k <= k - 1)
    BY <1>1, <2>2, <2>3
  <2>5. k - 1 \notin Wrong
    <3> HIDE DEF Wrong
    <3> QED BY <2>1, <2>4
  <2>6. Good(k - 1)
    BY <2>4, <2>5
  <2> QED BY <1>6, <2>2, <2>3, <2>6
<1>8. Good(n)
  BY <1>2, <1>7
<1> QED BY <1>1, <1>2, <1>8 DEF Good, n, s, ds

\* activate() leaves the instance in the list of the depth of its own object,
\* and no node in the lists of its ancestors' depths.
LEMMA ActivateInv ==
  ASSUME DrawInv, NEW i \in Inst, Activate(i) PROVE DrawInv'
<1> DEFINE n == Len(ObjDepths[i])
           g == ObjDepths[i][n]
           a == used + n
           l == Linked(i)[n]
           M == Members(live, who, DepthNow)
           K == [M EXCEPT ![g] = @ \cup {a}]
           E == DepthNow'
<1>1. /\ Call /\ myiter[i] = NULL /\ used + n <= MaxNode
      /\ used' = a /\ next' = l.next /\ prev' = l.prev
      /\ who' = [x \in Node |-> IF x > used /\ x <= a THEN i ELSE who[x]]
      /\ live' = live \cup {a} /\ myiter' = [myiter EXCEPT ![i] = a]
      /\ rval' = [rval EXCEPT ![i] = g]
      /\ stale' = (stale \/ Outlived(i))
      /\ UNCHANGED <<request, iter, frames, leaving>>
  BY ActivateIs DEF loopVars
<1>2. DepthTypeOK /\ Allocated /\ (~stale => Sound)
  BY DEF DrawInv
<1>3. /\ n \in Nat /\ n > 0 /\ g \in Depths /\ l \in ListType
      /\ \A x \in Roots \cup 1..a : l.prev[x] # NULL
  BY <1>1, <1>2, ActivateTypes
<1>4. /\ used \in 0..MaxNode /\ used \in Nat /\ live \subseteq 1..used
      /\ 1..used \subseteq Node
      /\ who \in [Node -> Inst \cup {NULL}] /\ myiter \in [Inst -> Node \cup {NULL}]
      /\ rval \in [Inst -> Depths \cup {0}]
  BY <1>2, DepthFacts
<1> HIDE DEF n, g, l
<1>5. a \in Nat /\ used < a /\ a <= MaxNode /\ a \in 0..MaxNode /\ a \in Node /\ a \in 1..a
      /\ a \notin 1..used /\ 1..used \subseteq 1..a /\ a # NULL /\ 1..a \subseteq Node
  BY <1>1, <1>3, <1>4, DepthsAssumption DEF Node, NULL
<1> HIDE DEF a
<1>6. DepthTypeOK' /\ Allocated'
  <2>1. used' \in 0..MaxNode /\ live' \subseteq 1..used' /\ myiter' \in [Inst -> Node \cup {NULL}]
        /\ who' \in [Node -> Inst \cup {NULL}]
    BY <1>1, <1>4, <1>5
  <2>2. /\ next' \in [Roots \cup Node -> Node \cup {NULL}]
        /\ prev' \in [Roots \cup Node -> Roots \cup Node \cup {NULL}]
    BY <1>1, <1>3 DEF ListType, Place
  <2>3. rval' \in [Inst -> Depths \cup {0}] /\ stale' \in BOOLEAN
    BY <1>1, <1>3, <1>4
  <2>4. DepthTypeOK'
    BY <1>1, <1>2, <2>1, <2>2, <2>3, CallType DEF DepthTypeOK
  <2>5. myiter' \in [Inst -> {NULL} \cup 1..a]
    BY <1>1, <1>2, <1>5 DEF Allocated
  <2>6. \A j \in Inst : myiter'[j] # NULL => rval'[j] \in Depths
    BY <1>1, <1>2, <1>3, <1>4 DEF Allocated
  <2>7. Allocated'
    BY <1>1, <1>2, <1>3, <2>5, <2>6 DEF Allocated
  <2> QED BY <2>4, <2>7
<1>7. SUFFICES ASSUME ~stale' PROVE Sound'
  BY <1>6 DEF DrawInv
<1>8. PlacesOK(Now, DepthNow) /\ RequestInv /\ FramesInv /\ ~Outlived(i)
  BY <1>1, <1>2, <1>7 DEF Sound
<1>9. /\ NULL \notin live
      /\ \A x \in live : who[x] \in Inst /\ myiter[who[x]] = x
      /\ \A j \in Inst : myiter[j] # NULL => myiter[j] \in live /\ who[myiter[j]] = j
      /\ M \in Families(used) /\ ListsOK(Lists, M)
      /\ \A d \in Depths : M[d] = {x \in live : DepthNow[who[x]] = d}
      /\ \A x \in live : DepthNow[who[x]] \in Depths
  BY <1>8, DrawFacts
<1> HIDE DEF M
<1>10. /\ \A k \in 1..Len(ObjDepths[i]) : Committed(i, ObjDepths[i][k]) = ObjDepths[i][k]
       /\ Committed(i, g) = g /\ (request[i] # NoRequest => request[i][2] = g)
  <2>1. \A k \in 1..Len(ObjDepths[i]) :
          request[i] \in {NoRequest, <<ObjDepths[i][k], ObjDepths[i][k]>>}
    BY <1>8 DEF Outlived
  <2>2. \A k \in 1..Len(ObjDepths[i]) : Committed(i, ObjDepths[i][k]) = ObjDepths[i][k]
        /\ (request[i] # NoRequest => request[i][2] = ObjDepths[i][k])
    BY <2>1 DEF Committed
  <2>3. n \in 1..Len(ObjDepths[i])
    BY <1>3 DEF n
  <2> QED BY <2>2, <2>3 DEF g
<1>11. StageOK(l, M, g, a)
  BY <1>1, <1>4, <1>9, <1>10, ActivateLists DEF n, g, l, a
<1>12. /\ K \in Families(a) /\ ListsOK(l, K)
       /\ \A at : \A L \in Depths, B, T \in SUBSET (1..used) :
            LoopOK(Lists, M, used, at, L, B, T) => LoopOK(l, K, a, at, L, B, T)
  BY <1>11 DEF StageOK
<1>13. Lists' = l
  <2>1. l = [next |-> l.next, prev |-> l.prev]
    BY <1>3 DEF ListType
  <2> QED BY <1>1, <2>1 DEF Lists
<1>14. \A j \in Inst : E[j] = IF j = i THEN g ELSE DepthNow[j]
  <2> SUFFICES ASSUME NEW j \in Inst PROVE E[j] = IF j = i THEN g ELSE DepthNow[j]
    OBVIOUS
  <2>1. rval'[j] = IF j = i THEN g ELSE rval[j]
    BY <1>1, <1>4
  <2>2. E[j] = Committed(j, rval'[j]) /\ DepthNow[j] = Committed(j, rval[j])
    BY <1>1 DEF DepthNow, Committed
  <2> QED BY <1>10, <2>1, <2>2
<1> HIDE DEF E
<1>15. /\ \A x \in live : who'[x] = who[x] /\ who[x] # i /\ who[x] \in Inst /\ x # a
      /\ who'[a] = i /\ who' \in [Node -> Inst \cup {NULL}]
      /\ \A j \in Inst : myiter'[j] = IF j = i THEN a ELSE myiter[j]
  <2>1. ASSUME NEW x \in live PROVE who'[x] = who[x] /\ who[x] # i /\ who[x] \in Inst /\ x # a
    <3>1. x \in Node /\ ~(x > used) /\ x # a
      BY <1>4, <1>9, <1>5
    <3> QED BY <1>1, <1>4, <1>9, <3>1
  <2>2. who'[a] = i /\ who' \in [Node -> Inst \cup {NULL}]
    BY <1>1, <1>4, <1>9, <1>5
  <2>3. \A j \in Inst : myiter'[j] = IF j = i THEN a ELSE myiter[j]
    BY <1>1, <1>4, <1>9
  <2> QED BY <2>1, <2>2, <2>3
<1>16. \A d \in Depths : K[d] = IF d = g THEN M[d] \cup {a} ELSE M[d]
  <2>1. M \in [Depths -> SUBSET (1..used)]
    BY <1>4, <1>9 DEF Families
  <2> QED BY <2>1
<1>17. K = [d \in Depths |-> K[d]]
  BY <1>12 DEF Families
<1> HIDE DEF K
<1>18. Members(live', who', E) = K
  <2>1. \A d \in Depths : {x \in live' : E[who'[x]] = d} = K[d]
    <3> SUFFICES ASSUME NEW d \in Depths, NEW x
                 PROVE  x \in live' /\ E[who'[x]] = d <=> x \in K[d]
      BY Zenon
    <3>1. CASE x = a
      <4>1. E[who'[x]] = g /\ x \in live'
        BY <1>1, <1>14, <1>15, <3>1
      <4>2. x \notin M[d]
        BY <1>4, <1>9, <1>15, <3>1
      <4>3. x \in K[d] <=> d = g
        BY <1>16, <3>1, <4>2
      <4> QED BY <4>1, <4>3
    <3>2. CASE x # a
      <4>1. x \in live' <=> x \in live
        BY <1>1, <3>2
      <4>2. x \in live => E[who'[x]] = DepthNow[who[x]]
        BY <1>14, <1>15
      <4>3. x \in K[d] <=> x \in M[d]
        BY <1>16, <3>2
      <4>4. x \in M[d] <=> x \in live /\ DepthNow[who[x]] = d
        BY <1>4, <1>9
      <4> QED BY <4>1, <4>2, <4>3, <4>4
    <3> QED BY <3>1, <3>2
  <2> QED BY <1>17, <2>1, Zenon DEF Members
<1>19. PlacesOK(Now', E)
  <2>1. NodesOK(Now')
    <3>1. used' \in 0..MaxNode /\ live' \subseteq 1..used'
      BY <1>1, <1>4, <1>9, <1>5
    <3>2. myiter' \in [Inst -> Node \cup {NULL}]
      BY <1>1, <1>4, <1>9, <1>5
    <3>3. \A x \in live' : who'[x] \in Inst /\ myiter'[who'[x]] = x
      BY <1>1, <1>4, <1>9, <1>15
    <3>4. \A j \in Inst : myiter'[j] # NULL => myiter'[j] \in live' /\ who'[myiter'[j]] = j
      <4> SUFFICES ASSUME NEW j \in Inst, myiter'[j] # NULL
                   PROVE  myiter'[j] \in live' /\ who'[myiter'[j]] = j
        OBVIOUS
      <4>1. CASE j = i
        BY <1>1, <1>15, <4>1
      <4>2. CASE j # i
        <5>1. myiter'[j] = myiter[j] /\ myiter[j] \in live /\ who[myiter[j]] = j
          BY <1>4, <1>9, <1>15, <4>2
        <5> QED BY <1>1, <1>15, <5>1
      <4> QED BY <4>1, <4>2
    <3> QED BY <1>15, <3>1, <3>2, <3>3, <3>4, NowIs DEF NodesOK
  <2>2. \A x \in Now'.live : E[Now'.who[x]] \in Depths
    <3> SUFFICES ASSUME NEW x \in live' PROVE E[who'[x]] \in Depths
      BY NowIs
    <3>1. CASE x = a
      BY <1>3, <1>14, <1>15, <3>1
    <3>2. CASE x # a
      <4>1. x \in live /\ who'[x] = who[x] /\ E[who[x]] = DepthNow[who[x]]
        BY <1>1, <1>14, <1>15, <3>2
      <4> QED BY <1>4, <1>9, <4>1
    <3> QED BY <3>1, <3>2
  <2>3. ListsOK(Now'.l, Members(Now'.live, Now'.who, E))
    BY <1>12, <1>13, <1>18, NowIs
  <2> QED BY <2>1, <2>2, <2>3 DEF PlacesOK
<1>20. RequestInv'
  <2> SUFFICES ASSUME NEW j \in Inst, myiter'[j] # NULL, request'[j] # NoRequest
               PROVE  request'[j][2] = rval'[j]
    BY DEF RequestInv
  <2>1. request'[j] = request[j] /\ rval'[j] = IF j = i THEN g ELSE rval[j]
    BY <1>1, <1>4
  <2>2. j # i => myiter[j] # NULL
    BY <1>15
  <2> QED BY <1>8, <1>10, <2>1, <2>2 DEF RequestInv
<1>21. ASSUME NEW at, NEW L \in Depths, NEW B \in SUBSET (1..used), NEW T \in SUBSET (1..used),
              WalkOK(Now, DepthNow, at, L, B, T)
       PROVE  WalkOK(Now', E, at, L, B, T)
  <2>1. LoopOK(Lists, M, used, at, L, B, T)
    BY <1>21, NowIs DEF WalkOK, M
  <2>2. LoopOK(l, K, a, at, L, B, T)
    BY <1>12, <2>1
  <2> QED BY <1>1, <1>13, <1>18, <2>2, NowIs DEF WalkOK
<1>22. FramesInv'
  <2>1. used' \in Nat /\ used <= used'
    BY <1>1, <1>4, <1>5
  <2> QED BY <1>1, <1>2, <1>8, <1>21, <2>1, FramesKept DEF E
<1> QED BY <1>19, <1>20, <1>22 DEF Sound, E

\* A set of depths that is not empty has a greatest member.
LEMMA GreatestOf ==
  ASSUME NEW S \in SUBSET Depths, S # {}
  PROVE  Greatest(S) \in S /\ \A e \in S : e <= Greatest(S)
<1>1. PICK g \in Depths : \A e \in Depths : e <= g
  BY DepthsAssumption
<1>2. \A d \in S : d \in Nat /\ d <= g /\ g \in Nat /\ g - d \in Nat
  <2>1. \A d \in Depths : d \in Nat
    BY DepthsAssumption
  <2> QED BY <1>1, <2>1
<1> DEFINE U == {g - d : d \in S}
<1>3. PICK m \in U : \A k \in U : m <= k
  <2>1. U \in SUBSET Nat /\ U # {}
    BY <1>2
  <2> HIDE DEF U
  <2> QED BY <2>1, LeastOf
<1>4. PICK d \in S : m = g - d
  OBVIOUS
<1>5. ASSUME NEW e \in S PROVE e <= d
  <2>1. g - d <= g - e
    <3>1. g - e \in U
      OBVIOUS
    <3> HIDE DEF U
    <3> QED BY <1>3, <1>4, <3>1
  <2> QED BY <1>2, <2>1
<1> QED BY <1>5, Zenon DEF Greatest

\* A list whose first pointer is NULL has no members.
LEMMA EmptyList ==
  ASSUME NEW d \in Depths, NEW S \in SUBSET Node, NEW l, ListOK(l, d, S), l.next[Root(d)] = NULL
  PROVE  S = {}
<1> SUFFICES ASSUME NEW y \in S PROVE FALSE
  OBVIOUS
<1> DEFINE r == Root(d)
<1>1. r \in Int /\ r < 0 /\ y \in Int /\ y > 0
  BY ListFacts
<1>2. r < y => l.next[r] # NULL
  BY DEF ListOK
<1> HIDE DEF r
<1>3. r < y
  BY <1>1
<1> QED BY <1>2, <1>3 DEF r

\* A loop that comes to a list of which it has drawn nothing.
LEMMA LoopEnters ==
  ASSUME NEW u \in 0..MaxNode, NEW M \in Families(u), NEW l, ListsOK(l, M),
         NEW L \in Depths, NEW B, NEW T,
         \A d \in Depths : (d <= L => M[d] \cap T = {}) /\ (L < d => B \cap M[d] \subseteq T)
  PROVE  LoopOK(l, M, u, Root(L), L, B, T)
<1>1. L \in Nat /\ Root(L) \in Int /\ Root(L) < 0
  BY PlaceFacts
<1>2. M[L] \cap T = {}
  BY <1>1
<1>3. M[L] \in SUBSET (1..u) /\ Way(l, M, Root(L), L, B, T, M[L])
  <2>1. \A n \in M[L] \cap T : n <= Root(L)
    BY <1>2
  <2> QED BY <2>1, WayOfList
<1>4. Shown(M, Root(L), L, B, T)
  <2>1. \A n \in B \cap M[L] : ~(n <= Root(L))
    <3>1. \A n \in 1..u : ~(n <= Root(L))
      <4> DEFINE r == Root(L)
      <4>1. r \in Int /\ r < 0
        BY <1>1
      <4> HIDE DEF r
      <4>2. \A n \in 1..u : ~(n <= r)
        BY <4>1
      <4> QED BY <4>2 DEF r
    <3> QED BY <1>3, <3>1
  <2>2. \A d \in Depths : d < L => d <= L
    BY PlaceFacts
  <2> QED BY <2>1, <2>2 DEF Shown
<1> QED BY <1>3, <1>4 DEF LoopOK

\* A loop moves on to a node it has not come to.
LEMMA LoopNext ==
  ASSUME NEW u \in 0..MaxNode, NEW M \in Families(u), NEW l, NEW L \in Depths, NEW at,
         NEW B \in SUBSET (1..u), NEW T \in SUBSET (1..u),
         LoopOK(l, M, u, at, L, B, T), l.next[at] # NULL
  PROVE  LET x == l.next[at]
         IN x \in 1..u /\ x \notin T /\ LoopOK(l, M, u, x, L, B, T \cup {x})
<1> DEFINE x == l.next[at]
           R == Root(L)
<1>1. PICK W \in SUBSET (1..u) : Way(l, M, at, L, B, T, W)
  BY DEF LoopOK
<1>2. /\ M[L] \subseteq W /\ \A d \in Depths : d # L => W \cap M[d] = {}
      /\ at \in W \cup {R}
      /\ \A y \in W \cup {R} :
           /\ l.next[y] \in W \cup {NULL}
           /\ l.next[y] # NULL => y < l.next[y]
           /\ \A n \in B \cap M[L] : y < n => l.next[y] # NULL /\ l.next[y] <= n
      /\ \A n \in W \cap T : n <= at
  BY <1>1 DEF Way
<1>3. /\ \A d \in Depths : (d < L => M[d] \cap T = {}) /\ (L < d => B \cap M[d] \subseteq T)
      /\ \A n \in B \cap M[L] : n <= at => n \in T
  BY DEF LoopOK, Shown
<1>4. R \in Int /\ R < 0 /\ W \subseteq Int /\ M[L] \subseteq Int /\ at \in Int /\ L \in Nat
      /\ \A d \in Depths : d \in Nat
  <2>1. R \in Int /\ R < 0 /\ L \in Nat /\ \A d \in Depths : d \in Nat
    BY PlaceFacts
  <2>2. W \subseteq Int
    BY <1>1
  <2> HIDE DEF R
  <2> QED BY <1>2, <2>1, <2>2
<1>5. x \in W /\ at < x
  BY <1>2
<1>6. \A n \in B \cap M[L] : at < n => x <= n
  BY <1>2
<1> HIDE DEF x, R
<1>7. x \in Int /\ x \in 1..u
  BY <1>4, <1>5
<1>8. x \notin T
  <2>1. ~(x <= at)
    BY <1>4, <1>5, <1>7
  <2> QED BY <1>2, <1>5, <2>1
<1>9. Way(l, M, x, L, B, T \cup {x}, W)
  <2>1. ASSUME NEW n \in W \cap (T \cup {x}) PROVE n <= x
    <3>1. n \in Int /\ (n = x \/ n <= at)
      BY <1>2, <1>4
    <3> QED BY <1>4, <1>5, <1>7, <3>1
  <2> QED BY <1>2, <1>5, <2>1 DEF Way, R
<1>10. Shown(M, x, L, B, T \cup {x})
  <2>1. ASSUME NEW d \in Depths
        PROVE  (d < L => M[d] \cap (T \cup {x}) = {}) /\ (L < d => B \cap M[d] \subseteq T \cup {x})
    <3>1. d < L => d # L
      BY <1>4
    <3> QED BY <1>2, <1>3, <1>5, <3>1
  <2>2. ASSUME NEW n \in B \cap M[L], n <= x PROVE n \in T \cup {x}
    <3>1. n \in Int
      BY <1>4
    <3>2. CASE n <= at
      BY <1>3, <3>2
    <3>3. CASE at < n
      BY <1>6, <1>7, <2>2, <3>1, <3>3
    <3> QED BY <1>4, <3>1, <3>2, <3>3
  <2> QED BY <2>1, <2>2 DEF Shown
<1> QED BY <1>7, <1>8, <1>9, <1>10 DEF LoopOK, x

\* A loop at the end of a list has come to all in it that it has to.
LEMMA LoopDone ==
  ASSUME NEW u \in 0..MaxNode, NEW M \in Families(u), NEW l, NEW L \in Depths, NEW at,
         NEW B, NEW T, LoopOK(l, M, u, at, L, B, T), l.next[at] = NULL
  PROVE  B \cap M[L] \subseteq T
<1> SUFFICES ASSUME NEW n \in B \cap M[L] PROVE n \in T
  OBVIOUS
<1>1. PICK W \in SUBSET (1..u) : Way(l, M, at, L, B, T, W)
  BY DEF LoopOK
<1>2. at \in W \cup {Root(L)} /\ ~(at < n) /\ n \in W
  BY <1>1 DEF Way
<1>3. at \in Int /\ n \in Int
  <2>1. W \subseteq Int
    BY <1>1
  <2>2. Root(L) \in Int
    BY PlaceFacts
  <2> QED BY <1>2, <2>1, <2>2
<1>4. n <= at
  BY <1>2, <1>3
<1> QED BY <1>4 DEF LoopOK, Shown

\* A redraw begins at the first node of the deepest list that has one.
LEMMA LoopBegins ==
  ASSUME NEW u \in 0..MaxNode, NEW M \in Families(u), NEW l, ListsOK(l, M),
         NEW d \in Depths, NEW B \in SUBSET (1..u), l.next[Root(d)] # NULL,
         \A e \in Depths : d < e => l.next[Root(e)] = NULL
  PROVE  LET x == l.next[Root(d)]
         IN x \in 1..u /\ LoopOK(l, M, u, x, d, B, {x})
<1>1. \A e \in Depths : (e <= d => M[e] \cap {} = {}) /\ (d < e => B \cap M[e] \subseteq {})
  <2> SUFFICES ASSUME NEW e \in Depths, d < e PROVE M[e] = {}
    OBVIOUS
  <2>1. M[e] \in SUBSET Node /\ ListOK(l, e, M[e])
    BY FamilyFacts DEF ListsOK
  <2> QED BY <2>1, EmptyList
<1>2. LoopOK(l, M, u, Root(d), d, B, {})
  BY <1>1, LoopEnters
<1> DEFINE T == {}
<1>3. T \in SUBSET (1..u) /\ LoopOK(l, M, u, Root(d), d, B, T) /\ \A x : T \cup {x} = {x}
  BY <1>2
<1> HIDE DEF T
<1>4. LET x == l.next[Root(d)]
      IN x \in 1..u /\ x \notin T /\ LoopOK(l, M, u, x, d, B, T \cup {x})
  BY <1>3, LoopNext
<1> QED BY <1>3, <1>4

\* A redraw goes on at the first node of the next list that has one.
LEMMA LoopRises ==
  ASSUME NEW u \in 0..MaxNode, NEW M \in Families(u), NEW l, ListsOK(l, M),
         NEW L \in Depths, NEW at, NEW B \in SUBSET (1..u), NEW T \in SUBSET (1..u),
         LoopOK(l, M, u, at, L, B, T), l.next[at] = NULL,
         NEW d \in Depths, d < L, l.next[Root(d)] # NULL,
         \A e \in Depths : e < L /\ d < e => l.next[Root(e)] = NULL
  PROVE  LET x == l.next[Root(d)]
         IN x \in 1..u /\ x \notin T /\ LoopOK(l, M, u, x, d, B, T \cup {x})
<1>1. ASSUME NEW e \in Depths
      PROVE  (e <= d => M[e] \cap T = {}) /\ (d < e => B \cap M[e] \subseteq T)
  <2>1. e \in Nat /\ d \in Nat /\ L \in Nat
    BY PlaceFacts
  <2>2. e <= d => e < L
    BY <2>1
  <2>3. (e < L => M[e] \cap T = {}) /\ (L < e => B \cap M[e] \subseteq T)
    BY DEF LoopOK, Shown
  <2>4. e < L /\ d < e => M[e] = {}
    <3>1. M[e] \in SUBSET Node /\ ListOK(l, e, M[e])
      BY FamilyFacts DEF ListsOK
    <3> QED BY <3>1, EmptyList
  <2>5. B \cap M[L] \subseteq T
    BY LoopDone
  <2>6. e < L \/ e = L \/ L < e
    BY <2>1
  <2> QED BY <2>2, <2>3, <2>4, <2>5, <2>6
<1>2. LoopOK(l, M, u, Root(d), d, B, T)
  BY <1>1, LoopEnters
<1> QED BY <1>2, LoopNext

\* A node that a redraw comes to for the first time.
LEMMA RanAppend ==
  ASSUME NEW f, NEW g, NEW u, FrameOK(f, u), f.ran \in Seq(Node), NEW x \in Node,
         x \in 1..u, x \notin Ran(f), g.begun = f.begun, g.ran = Append(f.ran, x)
  PROVE  Ran(g) = Ran(f) \cup {x} /\ FrameOK(g, u)
<1> DEFINE r == f.ran
           s == g.ran
           n == Len(f.ran)
<1>1. /\ r \in Seq(Node) /\ n \in Nat /\ Len(s) = n + 1
      /\ \A k \in 1..Len(s) : s[k] = IF k = n + 1 THEN x ELSE r[k]
  BY Zenon, SMT
<1>2. Ran(f) = {r[k] : k \in 1..n} /\ Ran(g) = {s[k] : k \in 1..Len(s)}
  BY DEF Ran
<1>3. f.begun \subseteq 1..u /\ Ran(f) \subseteq 1..u /\ \A j, k \in 1..n : r[j] = r[k] => j = k
  BY DEF FrameOK
<1> HIDE DEF r, s, n
<1>4. /\ \A k \in 1..n : k \in 1..Len(s) /\ s[k] = r[k] /\ s[k] # x
      /\ n + 1 \in 1..Len(s) /\ s[n + 1] = x
      /\ \A k \in 1..Len(s) : k = n + 1 \/ k \in 1..n
  <2>1. \A k \in 1..n : k \in 1..Len(s) /\ k # n + 1
    BY <1>1
  <2>2. n + 1 \in 1..Len(s)
    BY <1>1
  <2>3. \A k \in 1..Len(s) : k = n + 1 \/ k \in 1..n
    BY <1>1
  <2>4. \A k \in 1..n : r[k] # x
    BY <1>2
  <2> QED BY <1>1, <2>1, <2>2, <2>3, <2>4
<1>5. Ran(g) = Ran(f) \cup {x}
  BY <1>2, <1>4
<1>6. \A j, k \in 1..Len(s) : s[j] = s[k] => j = k
  BY <1>3, <1>4
<1> QED BY <1>3, <1>5, <1>6 DEF FrameOK, s

-----------------------------------------------------------------------------
(* The steps of a redraw                                                   *)

\* The steps of the loop, and the end of a step, leave the lists alone.
LEMMA ListsStay ==
  ASSUME UNCHANGED <<listVars, rval, myiter, request>>
  PROVE  /\ Now' = Now /\ DepthNow' = DepthNow /\ Lists' = Lists /\ used' = used
         /\ PlacesOK(Now, DepthNow) => PlacesOK(Now', DepthNow')
         /\ RequestInv => RequestInv'
<1>1. UNCHANGED <<used, live, who, next, prev, rval, myiter, request>>
  BY DEF listVars
<1>2. Now' = Now /\ DepthNow' = DepthNow /\ Lists' = Lists
  BY <1>1 DEF Now, Lists, DepthNow, Committed
<1>3. PlacesOK(Now, DepthNow) => PlacesOK(Now', DepthNow')
  <2> DEFINE c == Now
             D == DepthNow
             c1 == Now'
             D1 == DepthNow'
  <2>1. c1 = c /\ D1 = D
    BY <1>2
  <2> HIDE DEF c, D, c1, D1
  <2>2. PlacesOK(c, D) => PlacesOK(c1, D1)
    BY <2>1
  <2> QED BY <2>2 DEF c, D, c1, D1
<1> QED BY <1>1, <1>2, <1>3 DEF RequestInv

\* draw_insts and the first node of a redraw: an outer redraw still stands where
\* it did, or on the node before, at what is kept for it.  (push_it)
LEMMA RedrawInv == ASSUME DrawInv, Redraw, calls' \in 0..MaxCalls PROVE DrawInv'
<1> DEFINE R == [layer : Depths, push : Roots \cup Node \cup {NULL}, begun : SUBSET Node, ran : Seq(Node)]
           full == {d \in Depths : next'[Root(d)] # NULL}
           g == Greatest(full)
           x == next'[Root(g)]
           h == [layer |-> g, push |-> Answered.iter, begun |-> live', ran |-> <<x>>]
           n == Len(frames)
<1>1. /\ DrawInsts
      /\ \/ full = {} /\ iter' = Answered.iter /\ frames' = frames
         \/ full # {} /\ iter' = x /\ frames' = Append(frames, h)
      /\ rval' = rval /\ leaving' = leaving /\ stale' = stale
  BY Zenon DEF Redraw
<1>2. DepthTypeOK /\ Allocated /\ (~stale => Sound)
  BY DEF DrawInv
<1>3. /\ used' \in 0..MaxNode /\ used' \in Nat /\ used \in Nat /\ used <= used'
      /\ live' \subseteq 1..used'
      /\ who' \in [Node -> Inst \cup {NULL}]
      /\ next' \in [Roots \cup Node -> Node \cup {NULL}]
      /\ prev' \in [Roots \cup Node -> Roots \cup Node \cup {NULL}]
      /\ myiter' \in [Inst -> Node \cup {NULL}]
      /\ request' \in [Inst -> {NoRequest} \cup (Depths \X Depths)]
      /\ Answered.iter \in Roots \cup Node \cup {NULL} /\ (iter # NULL => Answered.iter # NULL)
      /\ myiter' \in [Inst -> {NULL} \cup 1..used']
      /\ \A y \in Roots \cup 1..used' : prev'[y] # NULL
      /\ \A i \in Inst : myiter'[i] # NULL => rval'[i] \in Depths
  BY <1>1, <1>2, DrawInstsTypes
<1>4. /\ n \in Nat /\ frames \in Seq(R)
      /\ \A k \in 1..n : frames[k].layer \in Depths
      /\ frames # <<>> => iter # NULL
      /\ frames # <<>> => n \in 1..n /\ n # 0
  <2>1. frames \in Seq(R) /\ (frames # <<>> => iter # NULL)
    BY <1>2 DEF DepthTypeOK
  <2>2. \A k \in 1..n : frames[k].layer \in Depths
    BY <1>2, FrameTypes
  <2> HIDE DEF R, full, g, x, h
  <2> QED BY <2>1, <2>2
<1>5. ASSUME full # {}
      PROVE  /\ g \in Depths /\ x \in Node /\ x # NULL /\ h \in R
             /\ \A e \in Depths : g < e => next'[Root(e)] = NULL
  <2>1. full \subseteq Depths
    OBVIOUS
  <2>2. g \in full /\ \A e \in full : e <= g
    <3> HIDE DEF full
    <3> QED BY <1>5, <2>1, GreatestOf
  <2>3. g \in Depths /\ x # NULL
    BY <2>2
  <2>4. x \in Node
    <3>1. Root(g) \in Roots \cup Node
      BY <2>3 DEF Roots
    <3> HIDE DEF g
    <3> QED BY <1>3, <2>3, <3>1
  <2>5. \A e \in Depths : g < e => next'[Root(e)] = NULL
    <3> SUFFICES ASSUME NEW e \in Depths, g < e, next'[Root(e)] # NULL PROVE FALSE
      OBVIOUS
    <3>1. e \in full
      OBVIOUS
    <3>2. e <= g /\ e \in Nat /\ g \in Nat
      BY <2>2, <2>3, <3>1, PlaceFacts
    <3> HIDE DEF full, g
    <3> QED BY <3>2
  <2>6. live' \subseteq Node
    <3>1. 1..used' \subseteq Node
      BY <1>3, DepthsAssumption DEF Node
    <3> QED BY <1>3, <3>1
  <2>7. h \in R
    <3> HIDE DEF g, x, full
    <3>1. <<x>> \in Seq(Node)
      BY <2>4
    <3> QED BY <1>3, <2>3, <2>6, <3>1
  <2> QED BY <2>3, <2>4, <2>5, <2>7
<1> HIDE DEF full, g, x, h, R
<1>6. /\ frames' \in Seq(R)
      /\ full # {} => /\ Len(frames') = n + 1 /\ frames'[n + 1] = h
                      /\ \A k \in 1..n : frames'[k] = frames[k]
                      /\ frames' # <<>>
  BY <1>1, <1>4, <1>5
<1> HIDE DEF n
<1>7. iter' \in Roots \cup Node \cup {NULL} /\ (frames' # <<>> => iter' # NULL)
  BY <1>1, <1>3, <1>4, <1>5
<1>8. DepthTypeOK'
  BY <1>1, <1>2, <1>3, <1>6, <1>7 DEF DepthTypeOK, R
<1>9. Allocated'
  <2>1. ASSUME NEW k \in 2..Len(frames') PROVE frames'[k].push # NULL
    <3>1. CASE k \in 2..n
      <4>1. frames'[k] = frames[k] /\ k \in 2..Len(frames)
        BY <1>1, <1>4, <1>6, <3>1 DEF n
      <4> QED BY <1>2, <4>1 DEF Allocated
    <3>2. CASE k \notin 2..n
      <4>1. full # {} /\ k = n + 1 /\ n # 0
        BY <1>1, <1>4, <1>6, <2>1, <3>2 DEF n
      <4>2. frames # <<>>
        BY <4>1 DEF n
      <4>3. frames'[k].push = Answered.iter
        BY <1>6, <4>1 DEF h
      <4> QED BY <1>3, <1>4, <4>2, <4>3
    <3> QED BY <3>1, <3>2
  <2> QED BY <1>3, <2>1 DEF Allocated
<1>10. SUFFICES ASSUME ~stale' PROVE Sound'
  BY <1>8, <1>9 DEF DrawInv
<1>11. PlacesOK(Now, DepthNow) /\ RequestInv /\ FramesInv
  BY <1>1, <1>2, <1>10 DEF Sound
<1> DEFINE E == DepthNow'
<1>12. /\ PlacesOK(Now', E) /\ RequestInv'
       /\ \A at : \A L \in Depths, B, T \in SUBSET (1..used) :
            WalkOK(Now, DepthNow, at, L, B, T) => WalkOK(Now', E, at, L, B, T)
       /\ \A L \in Depths, B, T \in SUBSET (1..used) :
            WalkOK(Now, DepthNow, iter, L, B, T) => WalkOK(Now', E, Answered.iter, L, B, T)
  BY <1>1, <1>2, <1>11, DrawInstsInv
<1> HIDE DEF E
<1>13. ASSUME NEW k \in 1..n
       PROVE  /\ FrameOK(frames[k], used')
              /\ frames'[k] = frames[k]
              /\ ~leaving => WalkOK(Now', E, At(k)', frames[k].layer, frames[k].begun, Ran(frames[k]))
  <2> DEFINE f == frames[k]
  <2>1. FrameOK(f, used) /\ (~leaving => WalkOK(Now, DepthNow, At(k), f.layer, f.begun, Ran(f)))
        /\ f.layer \in Depths
    BY <1>4, <1>11 DEF FramesInv, n
  <2>2. frames'[k] = f
    BY <1>1, <1>6
  <2>3. CASE k = n
    <3>1. At(k) = iter
      BY <2>3 DEF At, n
    <3>2. At(k)' = Answered.iter
      <4>1. CASE full = {}
        BY <1>1, <2>3, <4>1 DEF At, n
      <4>2. CASE full # {}
        <5>1. frames'[k + 1] = h /\ k # Len(frames')
          BY <1>4, <1>6, <2>3, <4>2
        <5> QED BY <5>1 DEF At, h
      <4> QED BY <4>1, <4>2
    <3> HIDE DEF f
    <3>3. f.begun \in SUBSET (1..used) /\ Ran(f) \in SUBSET (1..used)
      BY <2>1 DEF FrameOK
    <3>4. ~leaving => WalkOK(Now', E, Answered.iter, f.layer, f.begun, Ran(f))
      BY <1>12, <2>1, <3>1, <3>3
    <3>5. FrameOK(f, used')
      <4>1. 1..used \subseteq 1..used'
        BY <1>3
      <4> QED BY <2>1, <4>1 DEF FrameOK
    <3> QED BY <2>2, <3>2, <3>4, <3>5 DEF f
  <2>4. CASE k # n
    <3>1. k + 1 \in 1..n
      BY <1>4, <2>4
    <3>2. At(k)' = At(k)
      <4>1. frames'[k + 1] = frames[k + 1] /\ k # Len(frames')
        BY <1>1, <1>4, <1>6, <2>4, <3>1 DEF n
      <4> QED BY <2>4, <4>1 DEF At, n
    <3> HIDE DEF f
    <3>3. f.begun \in SUBSET (1..used) /\ Ran(f) \in SUBSET (1..used)
      BY <2>1 DEF FrameOK
    <3>4. ~leaving => WalkOK(Now', E, At(k), f.layer, f.begun, Ran(f))
      BY <1>12, <2>1, <3>3
    <3>5. FrameOK(f, used')
      <4>1. 1..used \subseteq 1..used'
        BY <1>3
      <4> QED BY <2>1, <4>1 DEF FrameOK
    <3> QED BY <2>2, <3>2, <3>4, <3>5 DEF f
  <2> QED BY <2>3, <2>4
<1>14. ASSUME full # {}, NEW k, k = n + 1
       PROVE  FrameOK(h, used') /\ WalkOK(Now', E, At(k)', h.layer, h.begun, Ran(h))
  <2> DEFINE M == Members(Now'.live, Now'.who, E)
  <2>1. M \in Families(Now'.used) /\ ListsOK(Now'.l, M)
    BY <1>12, MembersFacts
  <2>2. /\ Now'.used = used' /\ Now'.l.next = next'
    BY NowIs DEF Lists
  <2> HIDE DEF M
  <2>3. x \in 1..used' /\ LoopOK(Now'.l, M, used', x, g, live', {x})
    BY <1>3, <1>5, <1>14, <2>1, <2>2, LoopBegins DEF x
  <2>4. Len(h.ran) = 1 /\ h.ran[1] = x /\ 1..1 = {1}
    BY DEF h
  <2>5. Ran(h) = {x}
    BY <2>4 DEF Ran
  <2>6. h.layer = g /\ h.begun = live'
    BY DEF h
  <2>7. At(k)' = x
    BY <1>1, <1>6, <1>14 DEF At
  <2>8. FrameOK(h, used')
    BY <1>3, <2>3, <2>4, <2>5, <2>6 DEF FrameOK
  <2> QED BY <2>2, <2>3, <2>5, <2>6, <2>7, <2>8 DEF WalkOK, M
<1>15. FramesInv'
  <2> SUFFICES ASSUME NEW k \in 1..Len(frames')
               PROVE  /\ FrameOK(frames'[k], used')
                      /\ ~leaving' => WalkOK(Now', E, At(k)', frames'[k].layer,
                                            frames'[k].begun, Ran(frames'[k]))
    BY Zenon DEF FramesInv, E
  <2>1. CASE k \in 1..n
    BY <1>1, <1>13, <2>1
  <2>2. CASE k \notin 1..n
    <3>1. full # {} /\ k = n + 1
      BY <1>1, <1>4, <1>6, <2>2 DEF n
    <3> QED BY <1>6, <1>14, <3>1
  <2> QED BY <2>1, <2>2
<1> QED BY <1>12, <1>15 DEF Sound, E

\* What ComesTo changes: the innermost redraw.
LEMMA ComesIs ==
  ASSUME DepthTypeOK, frames # <<>>, NEW d \in Depths, NEW x \in Node, ComesTo(d, x)
  PROVE  LET n == Len(frames)
         IN /\ n \in 1..n /\ n \in Nat /\ Len(frames') = n /\ iter' = x
            /\ frames' \in Seq([layer : Depths, push : Roots \cup Node \cup {NULL},
                                begun : SUBSET Node, ran : Seq(Node)])
            /\ \A k \in 1..n : frames'[k].push = frames[k].push
            /\ \A k \in 1..n : k # n => frames'[k] = frames[k]
            /\ frames'[n].layer = d /\ frames'[n].begun = Loop.begun
            /\ frames'[n].ran = Append(Loop.ran, x)
            /\ Loop = frames[n] /\ Loop.layer \in Depths /\ Loop.ran \in Seq(Node)
<1> DEFINE R == [layer : Depths, push : Roots \cup Node \cup {NULL}, begun : SUBSET Node, ran : Seq(Node)]
           n == Len(frames)
           f == frames[n]
           g == [f EXCEPT !.layer = d, !.ran = Append(@, x)]
<1>1. frames \in Seq(R) /\ frames # <<>>
  BY DEF DepthTypeOK
<1>2. iter' = x /\ frames' = [frames EXCEPT ![n] = g]
  BY DEF ComesTo, Loop
<1>3. f \in R /\ n \in Nat /\ n \in 1..n /\ Loop = f
  <2> HIDE DEF R
  <2> QED BY <1>1 DEF Loop
<1> HIDE DEF f, n
<1>4. f.ran \in Seq(Node) /\ f.layer \in Depths
  BY <1>3
<1>5. /\ g \in R /\ g.layer = d /\ g.push = f.push /\ g.begun = f.begun
      /\ g.ran = Append(f.ran, x)
  <2>1. Append(f.ran, x) \in Seq(Node)
    BY <1>4
  <2> HIDE DEF R
  <2>2. f \in R
    BY <1>3
  <2> QED BY <2>1, <2>2 DEF R
<1> HIDE DEF g, R
<1>6. /\ frames' \in Seq(R) /\ Len(frames') = n
      /\ \A k \in 1..n : frames'[k] = IF k = n THEN g ELSE frames[k]
  BY <1>1, <1>2, <1>3, <1>5 DEF n
<1>7. \A k \in 1..n : frames'[k].push = frames[k].push
  BY <1>5, <1>6 DEF f
<1> QED BY <1>2, <1>3, <1>4, <1>5, <1>6, <1>7 DEF R, n, f

\* A step of the loop to a node from where it will come to the rest.
LEMMA ComesInv ==
  ASSUME DrawInv, LoopStep, NEW d \in Depths, NEW x \in Node, ComesTo(d, x),
         ~stale => /\ x \in 1..used /\ x \notin Ran(Loop)
                   /\ WalkOK(Now, DepthNow, x, d, Loop.begun, Ran(Loop) \cup {x})
  PROVE  DrawInv'
<1> DEFINE n == Len(frames)
<1>1. /\ frames # <<>>
      /\ UNCHANGED <<listVars, rval, myiter, request>> /\ UNCHANGED <<leaving, stale, calls>>
      /\ UNCHANGED <<used, live, who, next, prev, rval, myiter, request, leaving, stale, calls>>
  BY DEF LoopStep, listVars
<1>2. DepthTypeOK /\ Allocated /\ (~stale => Sound)
  BY DEF DrawInv
<1>3. /\ n \in 1..n /\ n \in Nat /\ Len(frames') = n /\ iter' = x
      /\ frames' \in Seq([layer : Depths, push : Roots \cup Node \cup {NULL},
                          begun : SUBSET Node, ran : Seq(Node)])
      /\ \A k \in 1..n : frames'[k].push = frames[k].push
      /\ \A k \in 1..n : k # n => frames'[k] = frames[k]
      /\ frames'[n].layer = d /\ frames'[n].begun = Loop.begun
      /\ frames'[n].ran = Append(Loop.ran, x)
      /\ Loop = frames[n] /\ Loop.layer \in Depths /\ Loop.ran \in Seq(Node)
  BY <1>1, <1>2, ComesIs
<1>4. x # NULL /\ x \in Roots \cup Node \cup {NULL}
  BY PlaceFacts
<1>5. DepthTypeOK'
  BY <1>1, <1>2, <1>3, <1>4 DEF DepthTypeOK
<1>6. Allocated'
  <2>1. \A k \in 2..Len(frames') : frames'[k].push # NULL
    <3>1. \A k \in 2..n : k \in 1..n
      BY <1>3
    <3> QED BY <1>2, <1>3, <3>1 DEF Allocated
  <2> QED BY <1>1, <1>2, <2>1 DEF Allocated
<1>7. SUFFICES ASSUME ~stale' PROVE Sound'
  BY <1>5, <1>6 DEF DrawInv
<1>8. PlacesOK(Now, DepthNow) /\ RequestInv /\ FramesInv
      /\ x \in 1..used /\ x \notin Ran(Loop)
      /\ WalkOK(Now, DepthNow, x, d, Loop.begun, Ran(Loop) \cup {x})
  BY <1>1, <1>2, <1>7 DEF Sound
<1>9. /\ Now' = Now /\ DepthNow' = DepthNow /\ used' = used
      /\ PlacesOK(Now', DepthNow') /\ RequestInv'
  BY <1>1, <1>8, ListsStay
<1> HIDE DEF n
<1>10. ASSUME NEW k \in 1..n
       PROVE  /\ FrameOK(frames'[k], used)
              /\ ~leaving => WalkOK(Now, DepthNow, At(k)', frames'[k].layer,
                                   frames'[k].begun, Ran(frames'[k]))
  <2>1. CASE k = n
    <3>1. FrameOK(Loop, used)
      BY <1>3, <1>8 DEF FramesInv, n
    <3>2. Ran(frames'[k]) = Ran(Loop) \cup {x} /\ FrameOK(frames'[k], used)
      <4> DEFINE f == Loop
                 g == frames'[k]
      <4>1. FrameOK(f, used) /\ f.ran \in Seq(Node) /\ x \in 1..used /\ x \notin Ran(f)
            /\ g.begun = f.begun /\ g.ran = Append(f.ran, x)
        BY <1>3, <1>8, <2>1, <3>1
      <4> HIDE DEF f, g
      <4>2. Ran(g) = Ran(f) \cup {x} /\ FrameOK(g, used)
        BY <4>1, RanAppend
      <4> QED BY <4>2 DEF f, g
    <3>3. At(k)' = x
      BY <1>3, <2>1 DEF At
    <3> QED BY <1>3, <1>8, <2>1, <3>2, <3>3
  <2>2. CASE k # n
    <3>1. k + 1 \in 1..n /\ k # Len(frames) /\ k # Len(frames')
      BY <1>3, <2>2 DEF n
    <3>2. At(k)' = At(k)
      BY <1>3, <3>1 DEF At
    <3>3. frames'[k] = frames[k]
      BY <1>3, <2>2
    <3> QED BY <1>8, <3>2, <3>3 DEF FramesInv, n
  <2> QED BY <2>1, <2>2
<1>11. FramesInv'
  <2> SUFFICES ASSUME NEW k \in 1..Len(frames')
               PROVE  /\ FrameOK(frames'[k], used')
                      /\ ~leaving' => WalkOK(Now', DepthNow', At(k)', frames'[k].layer,
                                            frames'[k].begun, Ran(frames'[k]))
    BY Zenon DEF FramesInv
  <2>1. k \in 1..n
    BY <1>3
  <2>2. leaving' = leaving
    BY <1>1
  <2>3. /\ FrameOK(frames'[k], used)
        /\ ~leaving => WalkOK(Now, DepthNow, At(k)', frames'[k].layer,
                             frames'[k].begun, Ran(frames'[k]))
    BY <1>10, <2>1
  <2> QED BY <1>9, <2>2, <2>3, Zenon
<1> QED BY <1>9, <1>11 DEF Sound

\* Where the innermost redraw stands.
LEMMA LoopIs ==
  ASSUME DepthTypeOK, frames # <<>>
  PROVE  /\ Len(frames) \in 1..Len(frames) /\ Loop = frames[Len(frames)]
         /\ Loop.layer \in Depths /\ Loop.layer \in Nat
         /\ Loop.push \in Roots \cup Node \cup {NULL}
         /\ iter \in Roots \cup Node /\ next[iter] \in Node \cup {NULL}
         /\ Sound => FrameOK(Loop, used)
         /\ Sound /\ ~leaving =>
              WalkOK(Now, DepthNow, iter, Loop.layer, Loop.begun, Ran(Loop))
<1> DEFINE n == Len(frames)
<1>1. n \in 1..n
  <2>1. \E R : frames \in Seq(R)
    BY DEF DepthTypeOK
  <2> QED BY <2>1
<1>2. Loop = frames[n]
  BY DEF Loop
<1>3. Loop.layer \in Depths /\ Loop.layer \in Nat /\ Loop.push \in Roots \cup Node \cup {NULL}
  BY <1>1, <1>2, FrameTypes
<1>4. At(n) = iter
  BY DEF At
<1>5. Sound => /\ FrameOK(Loop, used)
               /\ ~leaving => WalkOK(Now, DepthNow, iter, Loop.layer, Loop.begun, Ran(Loop))
  BY <1>1, <1>2, <1>4 DEF Sound, FramesInv
<1>6. iter \in Roots \cup Node /\ next[iter] \in Node \cup {NULL}
  BY DEF DepthTypeOK
<1> QED BY <1>1, <1>2, <1>3, <1>5, <1>6

\* The next node of the list.
LEMMA DrawNextInv == ASSUME DrawInv, DrawNext PROVE DrawInv'
<1> DEFINE x == next[iter]
           L == Loop.layer
           B == Loop.begun
           T == Ran(Loop)
           M == Members(live, who, DepthNow)
<1>1. LoopStep /\ ~leaving /\ x # NULL /\ ComesTo(L, x) /\ frames # <<>>
  BY DEF DrawNext, LoopStep
<1>2. DepthTypeOK /\ (~stale => Sound)
  BY DEF DrawInv
<1>3. L \in Depths /\ x \in Node
  BY <1>1, <1>2, LoopIs
<1>4. ASSUME ~stale
      PROVE  x \in 1..used /\ x \notin T /\ WalkOK(Now, DepthNow, x, L, B, T \cup {x})
  <2>1. FrameOK(Loop, used) /\ WalkOK(Now, DepthNow, iter, L, B, T)
    BY <1>1, <1>2, <1>4, LoopIs
  <2>2. B \in SUBSET (1..used) /\ T \in SUBSET (1..used)
    BY <2>1 DEF FrameOK
  <2>3. M \in Families(used) /\ used \in 0..MaxNode
    BY <1>2, <1>4, DrawFacts DEF Sound
  <2>4. LoopOK(Lists, M, used, iter, L, B, T) /\ Lists.next[iter] = x
    BY <2>1, NowIs DEF WalkOK, Lists
  <2> HIDE DEF x, L, B, T, M
  <2>5. x \in 1..used /\ x \notin T /\ LoopOK(Lists, M, used, x, L, B, T \cup {x})
    BY <1>1, <1>3, <2>2, <2>3, <2>4, LoopNext
  <2> QED BY <2>5, NowIs DEF WalkOK, M
<1> HIDE DEF x
<1> QED BY <1>1, <1>3, <1>4, ComesInv

\* The first node of the next list that has one.
LEMMA DrawLayerInv == ASSUME DrawInv, DrawLayer PROVE DrawInv'
<1> DEFINE d == Greatest(Later)
           x == next[Root(d)]
           L == Loop.layer
           B == Loop.begun
           T == Ran(Loop)
           M == Members(live, who, DepthNow)
<1>1. LoopStep /\ ~leaving /\ next[iter] = NULL /\ Later # {} /\ ComesTo(d, x) /\ frames # <<>>
  BY DEF DrawLayer, LoopStep
<1>2. DepthTypeOK /\ (~stale => Sound)
  BY DEF DrawInv
<1>3. d \in Later /\ \A e \in Later : e <= d
  <2>1. Later \subseteq Depths
    BY DEF Later
  <2> QED BY <1>1, <2>1, GreatestOf
<1> HIDE DEF d
<1>4. d \in Depths /\ d < L /\ x # NULL
  BY <1>3 DEF Later
<1>5. \A e \in Depths : e < L /\ d < e => next[Root(e)] = NULL
  <2> SUFFICES ASSUME NEW e \in Depths, e < L, d < e, next[Root(e)] # NULL PROVE FALSE
    OBVIOUS
  <2>1. e \in Later
    BY DEF Later
  <2>2. e <= d /\ e \in Nat /\ d \in Nat
    BY <1>3, <1>4, <2>1, DepthsAssumption
  <2> QED BY <2>2
<1>6. L \in Depths /\ x \in Node
  <2>1. L \in Depths
    BY <1>1, <1>2, LoopIs
  <2>2. Root(d) \in Roots \cup Node
    BY <1>4 DEF Roots
  <2>3. next \in [Roots \cup Node -> Node \cup {NULL}]
    BY <1>2 DEF DepthTypeOK
  <2> QED BY <1>4, <2>1, <2>2, <2>3
<1>7. ASSUME ~stale
      PROVE  x \in 1..used /\ x \notin T /\ WalkOK(Now, DepthNow, x, d, B, T \cup {x})
  <2>1. FrameOK(Loop, used) /\ WalkOK(Now, DepthNow, iter, L, B, T)
    BY <1>1, <1>2, <1>7, LoopIs
  <2>2. B \in SUBSET (1..used) /\ T \in SUBSET (1..used)
    BY <2>1 DEF FrameOK
  <2>3. M \in Families(used) /\ used \in 0..MaxNode /\ ListsOK(Lists, M)
    BY <1>2, <1>7, DrawFacts DEF Sound
  <2>4. LoopOK(Lists, M, used, iter, L, B, T) /\ Lists.next = next
    BY <2>1, NowIs DEF WalkOK, Lists
  <2>5. /\ Lists.next[iter] = NULL /\ Lists.next[Root(d)] = x
        /\ \A e \in Depths : e < L /\ d < e => Lists.next[Root(e)] = NULL
    BY <1>1, <1>5, <2>4
  <2> HIDE DEF L, B, T, M, x
  <2>6. x \in 1..used /\ x \notin T /\ LoopOK(Lists, M, used, x, d, B, T \cup {x})
    BY <1>4, <1>6, <2>2, <2>3, <2>4, <2>5, LoopRises
  <2> QED BY <2>6, NowIs DEF WalkOK, M
<1> HIDE DEF x
<1> QED BY <1>1, <1>4, <1>6, <1>7, ComesInv

\* A redraw is over, to its end or not: the one it was in is the innermost, and
\* the iterator is where that one stands unless it is to be abandoned as well.
LEMMA OverInv ==
  ASSUME DrawInv, LoopStep, frames' = Outer, iter' \in {iter, Loop.push},
         ~leaving => iter' = Loop.push, Len(frames) = 1 \/ Loop.push # NULL
  PROVE  DrawInv'
<1> DEFINE n == Len(frames)
           R == [layer : Depths, push : Roots \cup Node \cup {NULL}, begun : SUBSET Node, ran : Seq(Node)]
<1>1. /\ frames # <<>>
      /\ UNCHANGED <<listVars, rval, myiter, request>>
      /\ UNCHANGED <<used, live, who, next, prev, rval, myiter, request, leaving, stale, calls>>
  BY DEF LoopStep, listVars
<1>2. DepthTypeOK /\ Allocated /\ (~stale => Sound)
  BY DEF DrawInv
<1>3. frames \in Seq(R) /\ n \in Nat /\ n \in 1..n
  BY <1>1, <1>2 DEF DepthTypeOK
<1>4. frames' = SubSeq(frames, 1, n - 1)
  BY DEF Outer
<1> HIDE DEF R
<1>5. frames' \in Seq(R) /\ Len(frames') = n - 1 /\ \A k \in 1..n-1 : frames'[k] = frames[k]
  <2> DEFINE f == frames
             m == n - 1
  <2>1. m \in Nat /\ m <= Len(f) /\ f \in Seq(R) /\ frames' = SubSeq(f, 1, m) /\ Len(f) \in Nat
    BY <1>3, <1>4
  <2> HIDE DEF f, m
  <2>2. \A k \in 1..m : f[k] \in R
    BY <2>1
  <2>3. SubSeq(f, 1, m) = [k \in 1..m |-> f[k]]
    BY <2>1
  <2>4. frames' \in Seq(R) /\ Len(frames') = m /\ \A k \in 1..m : frames'[k] = f[k]
    BY <2>1, <2>2, <2>3
  <2> QED BY <2>4 DEF f, m
<1>6. iter \in Roots \cup Node /\ Loop.push \in Roots \cup Node \cup {NULL} /\ Loop = frames[n]
      /\ iter # NULL
  BY <1>1, <1>2, LoopIs DEF DepthTypeOK
<1> HIDE DEF n
<1>7. frames' # <<>> => iter' # NULL
  <2>1. frames' # <<>> => n # 1
    BY <1>3, <1>5
  <2> QED BY <1>6, <2>1 DEF n
<1>8. DepthTypeOK'
  BY <1>1, <1>2, <1>5, <1>6, <1>7 DEF DepthTypeOK, R
<1>9. Allocated'
  <2>1. \A k \in 2..Len(frames') : k \in 1..n-1 /\ k \in 2..Len(frames)
    BY <1>3, <1>5 DEF n
  <2>2. \A k \in 2..Len(frames') : frames'[k].push # NULL
    BY <1>2, <1>5, <2>1 DEF Allocated
  <2> QED BY <1>1, <1>2, <2>2 DEF Allocated
<1>10. SUFFICES ASSUME ~stale' PROVE Sound'
  BY <1>8, <1>9 DEF DrawInv
<1>11. PlacesOK(Now, DepthNow) /\ RequestInv /\ FramesInv
  BY <1>1, <1>2, <1>10 DEF Sound
<1>12. /\ Now' = Now /\ DepthNow' = DepthNow /\ used' = used
       /\ PlacesOK(Now', DepthNow') /\ RequestInv'
  BY <1>1, <1>11, ListsStay
<1>13. ASSUME NEW k \in 1..n-1, ~leaving PROVE At(k)' = At(k)
  <2>1. k # Len(frames) /\ k + 1 \in 1..n
    BY <1>3 DEF n
  <2>2. At(k) = frames[k + 1].push
    BY <2>1 DEF At
  <2>3. CASE k = n - 1
    <3>1. At(k)' = iter' /\ k + 1 = n
      BY <1>3, <1>5, <2>3 DEF At
    <3> QED BY <1>6, <1>13, <2>2, <3>1
  <2>4. CASE k # n - 1
    <3>1. k + 1 \in 1..n-1 /\ k # Len(frames')
      BY <1>3, <1>5, <2>4
    <3> QED BY <1>5, <2>2, <3>1 DEF At
  <2> QED BY <2>3, <2>4
<1>14. FramesInv'
  <2> SUFFICES ASSUME NEW k \in 1..Len(frames')
               PROVE  /\ FrameOK(frames'[k], used')
                      /\ ~leaving' => WalkOK(Now', DepthNow', At(k)', frames'[k].layer,
                                            frames'[k].begun, Ran(frames'[k]))
    BY Zenon DEF FramesInv
  <2>1. k \in 1..n-1 /\ k \in 1..Len(frames) /\ frames'[k] = frames[k]
    BY <1>3, <1>5 DEF n
  <2>2. /\ FrameOK(frames[k], used)
        /\ ~leaving => WalkOK(Now, DepthNow, At(k), frames[k].layer, frames[k].begun, Ran(frames[k]))
    BY <1>11, <2>1 DEF FramesInv
  <2>3. ~leaving => WalkOK(Now, DepthNow, At(k)', frames[k].layer, frames[k].begun, Ran(frames[k]))
    BY <1>13, <2>1, <2>2
  <2> QED BY <1>1, <1>12, <2>1, <2>2, <2>3, Zenon
<1> QED BY <1>12, <1>14 DEF Sound

\* What a redraw keeps for the one it is in is a place.
LEMMA PushedIs ==
  ASSUME DrawInv, frames # <<>> PROVE Len(frames) = 1 \/ Loop.push # NULL
<1>1. Len(frames) \in 1..Len(frames) /\ Loop = frames[Len(frames)]
  BY LoopIs DEF DrawInv
<1>2. Len(frames) = 1 \/ Len(frames) \in 2..Len(frames)
  BY <1>1
<1> QED BY <1>1, <1>2 DEF DrawInv, Allocated

\* A room request ends the redraws, innermost first.
LEMMA AbandonInv == ASSUME DrawInv, Abandon PROVE DrawInv'
<1>1. LoopStep /\ leaving /\ frames' = Outer /\ iter' = iter /\ frames # <<>>
  BY DEF Abandon, LoopStep
<1> QED BY <1>1, PushedIs, OverInv

\* The last node of the last list.
LEMMA EndDrawInv == ASSUME DrawInv, EndDraw PROVE DrawInv'
<1>1. LoopStep /\ iter' = Loop.push /\ frames' = Outer /\ frames # <<>>
  BY DEF EndDraw, LoopStep
<1> QED BY <1>1, PushedIs, OverInv

\* A room request, and the end of a step: no redraw is under way that matters.
LEMMA RoomGotoInv == ASSUME DrawInv, RoomGoto PROVE DrawInv'
<1>1. /\ Call /\ leaving' = TRUE /\ UNCHANGED <<listVars, rval, myiter, request>>
      /\ UNCHANGED <<used, live, who, next, prev, rval, myiter, request, iter, frames, stale>>
  BY DEF RoomGoto, listVars
<1>2. DepthTypeOK /\ Allocated /\ (~stale => Sound)
  BY DEF DrawInv
<1>3. DepthTypeOK'
  BY <1>1, <1>2, CallType DEF DepthTypeOK
<1>4. Allocated'
  BY <1>1, <1>2 DEF Allocated
<1>5. ASSUME ~stale' PROVE Sound'
  <2>1. PlacesOK(Now, DepthNow) /\ RequestInv /\ FramesInv
    BY <1>1, <1>2, <1>5 DEF Sound
  <2>2. PlacesOK(Now', DepthNow') /\ RequestInv'
    BY <1>1, <2>1, ListsStay
  <2>3. FramesInv'
    BY <1>1, <2>1 DEF FramesInv
  <2> QED BY <2>2, <2>3 DEF Sound
<1> QED BY <1>3, <1>4, <1>5 DEF DrawInv

\* The end of a step: no redraw is under way.
LEMMA EndStepInv == ASSUME DrawInv, EndStep PROVE DrawInv'
<1>1. /\ frames = <<>> /\ frames' = <<>> /\ leaving' \in BOOLEAN /\ iter' = NULL
      /\ UNCHANGED <<listVars, rval, myiter, request>>
      /\ UNCHANGED <<used, live, who, next, prev, rval, myiter, request, frames, stale, calls>>
  BY DEF EndStep, listVars
<1>2. DepthTypeOK /\ Allocated /\ (~stale => Sound)
  BY DEF DrawInv
<1>3. DepthTypeOK'
  BY <1>1, <1>2 DEF DepthTypeOK
<1>4. Allocated'
  BY <1>1, <1>2 DEF Allocated
<1>5. ASSUME ~stale' PROVE Sound'
  <2>1. PlacesOK(Now, DepthNow) /\ RequestInv
    BY <1>1, <1>2, <1>5 DEF Sound
  <2>2. PlacesOK(Now', DepthNow') /\ RequestInv'
    BY <1>1, <2>1, ListsStay
  <2>3. FramesInv'
    <3>1. Len(frames') = 0 /\ 1..0 = {}
      BY <1>1
    <3> QED BY <3>1 DEF FramesInv
  <2> QED BY <2>2, <2>3 DEF Sound
<1> QED BY <1>3, <1>4, <1>5 DEF DrawInv

\* Every step keeps the invariant.
LEMMA StepDraw == DrawInv /\ [DepthNext]_depthVars => DrawInv'
<1> SUFFICES ASSUME DrawInv, [DepthNext]_depthVars PROVE DrawInv'
  OBVIOUS
<1>1. ASSUME NEW i \in Inst, Activate(i) PROVE DrawInv'
  BY <1>1, ActivateInv
<1>2. ASSUME NEW i \in Inst, Deactivate(i) PROVE DrawInv'
  BY <1>2, DeactivateInv
<1>3. ASSUME NEW i \in Inst, NEW d \in Depths, SetDepth(i, d) PROVE DrawInv'
  BY <1>3, SetDepthInv
<1>4. CASE BeginDraw
  <2>1. Redraw /\ calls' = calls
    BY <1>4 DEF BeginDraw
  <2>2. calls' \in 0..MaxCalls
    BY <2>1 DEF DrawInv, DepthTypeOK
  <2> QED BY <2>1, <2>2, RedrawInv
<1>5. CASE NestedRedraw
  <2>1. Redraw /\ Call
    BY <1>5 DEF NestedRedraw
  <2>2. calls' \in 0..MaxCalls
    BY <2>1, CallType DEF DrawInv
  <2> QED BY <2>1, <2>2, RedrawInv
<1>6. CASE RoomGoto
  BY <1>6, RoomGotoInv
<1>7. CASE Abandon
  BY <1>7, AbandonInv
<1>8. CASE DrawNext
  BY <1>8, DrawNextInv
<1>9. CASE DrawLayer
  BY <1>9, DrawLayerInv
<1>10. CASE EndDraw
  BY <1>10, EndDrawInv
<1>11. CASE EndStep
  BY <1>11, EndStepInv
<1>12. CASE UNCHANGED depthVars
  <2>1. /\ UNCHANGED <<listVars, rval, myiter, request>>
        /\ UNCHANGED <<used, live, who, next, prev, rval, myiter, request, iter, frames,
                       leaving, stale, calls>>
    BY <1>12 DEF depthVars, listVars
  <2>2. DepthTypeOK' /\ Allocated'
    BY <2>1 DEF DrawInv, DepthTypeOK, Allocated
  <2>3. ASSUME ~stale' PROVE Sound'
    <3>1. PlacesOK(Now, DepthNow) /\ RequestInv /\ FramesInv
      BY <2>1, <2>3 DEF DrawInv, Sound
    <3>2. PlacesOK(Now', DepthNow') /\ RequestInv' /\ Now' = Now /\ DepthNow' = DepthNow
      BY <2>1, <3>1, ListsStay
    <3>3. FramesInv'
      <4> SUFFICES ASSUME NEW k \in 1..Len(frames')
                   PROVE  /\ FrameOK(frames'[k], used')
                          /\ ~leaving' => WalkOK(Now', DepthNow', At(k)', frames'[k].layer,
                                                frames'[k].begun, Ran(frames'[k]))
        BY Zenon DEF FramesInv
      <4>1. At(k)' = At(k) /\ frames' = frames /\ used' = used /\ leaving' = leaving
        BY <2>1 DEF At
      <4>2. /\ FrameOK(frames[k], used)
            /\ ~leaving => WalkOK(Now, DepthNow, At(k), frames[k].layer, frames[k].begun,
                                  Ran(frames[k]))
        BY <3>1, <4>1 DEF FramesInv
      <4> QED BY <3>2, <4>1, <4>2, Zenon
    <3> QED BY <3>2, <3>3 DEF Sound
  <2> QED BY <2>2, <2>3 DEF DrawInv
<1> QED BY <1>1, <1>2, <1>3, <1>4, <1>5, <1>6, <1>7, <1>8, <1>9, <1>10, <1>11, <1>12
    DEF DepthNext

-----------------------------------------------------------------------------
(* What follows from the invariant                                         *)

\* The lists are in order, every linked instance is in that of the depth it had
\* when the requests were last carried out, and every redraw under way has come
\* to what it passed and will come to the rest, until an id is activated under a
\* request it had not answered; the types hold even then.  (depthv, draw_insts,
\* draw_tiles)
THEOREM DrawInvariant == DepthSpec => []DrawInv
  BY InitDraw, StepDraw, PTL DEF DepthSpec

\* Every variable keeps its type.  (depth_draw.h, graphics_object.h)
THEOREM DepthTypes == DepthSpec => []DepthTypeOK
<1>1. DrawInv => DepthTypeOK
  BY DEF DrawInv
<1> QED BY <1>1, DrawInvariant, PTL

\* A linked instance is in one list, that of the depth it had when the requests
\* were last carried out, and a list's last pointer is on its last node, over
\* any sequence of assignments, activations, deactivations and redraws, until an
\* id is activated under a request it had not answered.  (depthv::function,
\* init, remove, draw_insts)
THEOREM LayersKept == DepthSpec => []OneLayerEach
<1>1. DrawInv => OneLayerEach
  BY LayersRight DEF DrawInv, Sound, OneLayerEach
<1> QED BY <1>1, DrawInvariant, PTL

\* What depthv::remove relies on, from the invariant.
LEMMA LocalValid == DrawInv => (~stale => LocalValueIsValid)
<1> SUFFICES ASSUME DrawInv, ~stale, NEW i \in Inst, myiter[i] # NULL, request[i] = NoRequest
             PROVE  myiter[i] \in Chain(rval[i])
  BY DEF LocalValueIsValid
<1>1. Committed(i, rval[i]) = rval[i]
  BY DEF Committed
<1>2. rval[i] \in Depths
  BY DEF DrawInv, Allocated
<1>3. \A d \in Depths : Chain(d) =
        {myiter[j] : j \in {j \in Inst : myiter[j] # NULL /\ Committed(j, rval[j]) = d}}
  BY LayersRight DEF DrawInv, Sound
<1> QED BY <1>1, <1>2, <1>3

\* An id with no request on file is linked at its local depth ("Local value is
\* valid, use it.") until an id is activated under a request it had not
\* answered: that is the only way to what the code does not keep.
THEOREM LocalValuesValid == DepthSpec => [](~stale => LocalValueIsValid)
  BY LocalValid, DrawInvariant, PTL

\* The loop comes to a node in the redraw under way.
LEMMA ComesLength ==
  ASSUME DepthTypeOK, frames # <<>>, NEW d, NEW x, ComesTo(d, x)
  PROVE  Len(frames') = Len(frames)
<1> DEFINE n == Len(frames)
           g == [Loop EXCEPT !.layer = d, !.ran = Append(@, x)]
<1>1. frames' = [frames EXCEPT ![n] = g]
  BY DEF ComesTo
<1>2. PICK R : frames \in Seq(R)
  BY DEF DepthTypeOK
<1> HIDE DEF g
<1>3. frames \in Seq(R \cup {g})
  BY <1>2
<1> QED BY <1>1, <1>3

\* Only the end of its loop ends a redraw that no room request cuts short.
LEMMA EndsDrawing ==
  ASSUME DrawInv, DepthNext, Len(frames') < Len(frames), ~leaving PROVE EndDraw
<1>1. DepthTypeOK
  BY DEF DrawInv
<1>2. Len(frames) \in Nat /\ ~(Len(frames) < Len(frames))
  BY <1>1, FrameTypes
<1>3. ASSUME Redraw PROVE FALSE
  <2>1. frames' = frames \/ \E h : frames' = Append(frames, h)
    BY <1>3 DEF Redraw
  <2>2. \A h : Len(Append(frames, h)) = Len(frames) + 1
    <3> SUFFICES ASSUME NEW h PROVE Len(Append(frames, h)) = Len(frames) + 1
      OBVIOUS
    <3>1. PICK R : frames \in Seq(R)
      BY <1>1 DEF DepthTypeOK
    <3>2. frames \in Seq(R \cup {h})
      BY <3>1
    <3> QED BY <3>2
  <2> QED BY <1>2, <2>1, <2>2
<1>4. ASSUME NEW d, NEW x, ComesTo(d, x), frames # <<>> PROVE FALSE
  BY <1>1, <1>2, <1>4, ComesLength
<1>5. ASSUME frames' = frames PROVE FALSE
  BY <1>2, <1>5
<1>6. ~BeginDraw /\ ~NestedRedraw
  BY <1>3 DEF BeginDraw, NestedRedraw
<1>7. ~DrawNext /\ ~DrawLayer
  BY <1>4 DEF DrawNext, DrawLayer, LoopStep
<1>8. ~RoomGoto /\ ~EndStep /\ ~Abandon
  BY <1>5 DEF RoomGoto, EndStep, Abandon
<1>9. /\ \A i \in Inst : ~Activate(i) /\ ~Deactivate(i)
      /\ \A i \in Inst, d \in Depths : ~SetDepth(i, d)
  BY <1>5 DEF Activate, Deactivate, SetDepth, loopVars
<1> QED BY <1>6, <1>7, <1>8, <1>9 DEF DepthNext

\* At its end a loop has come to all that was linked when it began and still is.
LEMMA AllDrawn ==
  ASSUME DrawInv, EndDraw, ~stale, NEW n \in Loop.begun \cap live
  PROVE  Cardinality({k \in 1..Len(Loop.ran) : Loop.ran[k] = n}) = 1
<1> DEFINE L == Loop.layer
           B == Loop.begun
           T == Ran(Loop)
           M == Members(live, who, DepthNow)
           d == DepthNow[who[n]]
<1>1. frames # <<>> /\ ~leaving /\ next[iter] = NULL /\ Later = {}
  BY DEF EndDraw, LoopStep
<1>2. DepthTypeOK /\ Sound /\ PlacesOK(Now, DepthNow)
  BY DEF DrawInv, Sound
<1>3. /\ FrameOK(Loop, used) /\ WalkOK(Now, DepthNow, iter, L, B, T)
      /\ L \in Depths /\ L \in Nat
  BY <1>1, <1>2, LoopIs
<1>4. /\ used \in 0..MaxNode /\ M \in Families(used) /\ ListsOK(Lists, M)
      /\ d \in Depths /\ n \in M[d]
  BY <1>2, DrawFacts
<1>5. LoopOK(Lists, M, used, iter, L, B, T) /\ Lists.next = next
  BY <1>3, NowIs DEF WalkOK, Lists
<1>6. d \in Nat /\ n \in B
  BY <1>4, DepthsAssumption
<1> HIDE DEF L, B, T, M, d
<1>7. n \in T
  <2>1. CASE d < L
    <3>1. Lists.next[Root(d)] = NULL
      BY <1>1, <1>4, <1>5, <2>1 DEF Later, L
    <3>2. M[d] \in SUBSET Node /\ ListOK(Lists, d, M[d])
      BY <1>4, FamilyFacts DEF ListsOK
    <3>3. M[d] = {}
      BY <1>4, <3>1, <3>2, EmptyList
    <3> QED BY <1>4, <3>3
  <2>2. CASE d = L
    <3>1. Lists.next[iter] = NULL
      BY <1>1, <1>5
    <3>2. B \cap M[L] \subseteq T
      BY <1>3, <1>4, <1>5, <3>1, LoopDone
    <3> QED BY <1>4, <1>6, <2>2, <3>2
  <2>3. CASE L < d
    BY <1>4, <1>5, <1>6, <2>3 DEF LoopOK, Shown
  <2> QED BY <1>3, <1>6, <2>1, <2>2, <2>3
<1>8. PICK m \in 1..Len(Loop.ran) : Loop.ran[m] = n
  BY <1>7 DEF T, Ran
<1>9. {k \in 1..Len(Loop.ran) : Loop.ran[k] = n} = {m}
  BY <1>3, <1>8 DEF FrameOK
<1> QED BY <1>9, FS_Singleton

\* A redraw that no room request cuts short runs the Draw event of every
\* instance whose node stays linked while it lasts, once, whatever Draw events
\* link, unlink, move and redraw, until an id is activated under a request it
\* had not answered.  (draw_tiles, push_it)
THEOREM DrawsComplete == DepthSpec => DrawComplete
<1> DEFINE Ends == Len(frames') < Len(frames) /\ ~leaving /\ ~stale
           Once == \A n \in Loop.begun \cap live :
                     Cardinality({k \in 1..Len(Loop.ran) : Loop.ran[k] = n}) = 1
<1>1. DrawInv /\ [DepthNext]_depthVars => [Ends => Once]_depthVars
  <2> SUFFICES ASSUME DrawInv, DepthNext, Ends PROVE Once
    OBVIOUS
  <2>1. EndDraw
    BY EndsDrawing
  <2> QED BY <2>1, AllDrawn
<1> QED BY <1>1, DrawInvariant, PTL DEF DepthSpec, DrawComplete

\* A redraw begins with every instance in the list of the depth it was last
\* given, until an id is activated under a request it had not answered.
\* (draw_insts)
THEOREM RequestsDone == DepthSpec => RequestsCarriedOut
<1> DEFINE Begins == Len(frames') > Len(frames) /\ ~stale
           InPlace == \A i \in Inst : myiter'[i] # NULL => myiter'[i] \in Chain(rval[i])'
           Local == ~stale => LocalValueIsValid
<1>1. DrawInv /\ Local' /\ [DepthNext]_depthVars => [Begins => InPlace]_depthVars
  <2> SUFFICES ASSUME DrawInv, Local', DepthNext, Begins, NEW i \in Inst, myiter'[i] # NULL
               PROVE  myiter'[i] \in Chain(rval[i])'
    OBVIOUS
  <2>1. Redraw
    <3>1. DepthTypeOK
      BY DEF DrawInv
    <3>2. Len(frames) \in Nat /\ ~(Len(frames) > Len(frames))
      BY <3>1, FrameTypes
    <3>3. ASSUME NEW d, NEW x, ComesTo(d, x), frames # <<>> PROVE FALSE
      BY <3>1, <3>2, <3>3, ComesLength
    <3>4. ASSUME frames' = Outer, frames # <<>> PROVE FALSE
      <4>1. PICK R : frames \in Seq(R)
        BY <3>1 DEF DepthTypeOK
      <4> DEFINE m == Len(frames) - 1
      <4>2. m \in Nat /\ m <= Len(frames) /\ frames' = SubSeq(frames, 1, m)
        BY <3>4, <4>1 DEF Outer
      <4> HIDE DEF m
      <4>3. Len(frames') = m
        BY <4>1, <4>2
      <4> QED BY <3>2, <4>2, <4>3 DEF m
    <3>5. frames' # frames
      BY <3>2
    <3>6. ~DrawNext /\ ~DrawLayer /\ ~EndDraw /\ ~Abandon
      BY <3>3, <3>4 DEF DrawNext, DrawLayer, EndDraw, Abandon, LoopStep
    <3>7. ~RoomGoto /\ ~EndStep
      BY <3>5 DEF RoomGoto, EndStep
    <3>8. /\ \A j \in Inst : ~Activate(j) /\ ~Deactivate(j)
          /\ \A j \in Inst, d \in Depths : ~SetDepth(j, d)
      BY <3>5 DEF Activate, Deactivate, SetDepth, loopVars
    <3> QED BY <3>6, <3>7, <3>8 DEF DepthNext, BeginDraw, NestedRedraw
  <2>2. request' = [j \in Inst |-> NoRequest] /\ stale' = stale
    BY <2>1 DEF Redraw, DrawInsts
  <2> QED BY <2>2 DEF LocalValueIsValid
<1> QED BY <1>1, LocalValuesValid, DrawInvariant, PTL DEF DepthSpec, RequestsCarriedOut
=============================================================================
