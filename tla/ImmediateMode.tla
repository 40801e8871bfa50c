--------------------------- MODULE ImmediateMode ---------------------------
(***************************************************************************)
(* What drawing promises: everything is drawn at once, in the order of the *)
(* calls, with the state that is current when it is begun.  It does not    *)
(* promise that after a program or a texture was changed behind the state, *)
(* until a change of the state is due and is acted on; and it turns around *)
(* a strip that is joined to one of odd length.                            *)
(***************************************************************************)
EXTENDS Sequences, Naturals

CONSTANTS
  Shapes,   \* of primitives: "list", "strip" and "oddstrip"
  With,     \* the states to draw with: records with st, tex and prog
  NotKnown  \* what is drawn with when that is not promised

VARIABLES
  cur,     \* the current state
  due,     \* whether it was changed, and nothing begun since
  exact,   \* FALSE after a change behind the state
  drawing, \* FALSE while primitives are to be discarded
  open,    \* the state of the primitive that is being specified, or <<>>
  odd,     \* whether the next strip may be joined to one of odd length
  screen,  \* what was drawn since the last frame, in order
  seen     \* how much of it a look at the screen has just shown

vars == <<cur, due, exact, drawing, open, odd, screen, seen>>

Item(s, w) == [what |-> s, with |-> w]
Known(w) == IF exact THEN w ELSE NotKnown

\* A strip is not joined to one that was drawn before.
MayPart == odd' \in {odd, FALSE}

\* A change of the state is due from then on.  A change of the program is not:
\* unless another change is due, it may be one behind the state.
Change ==
  /\ cur' \in With
  /\ due' \in BOOLEAN
  /\ due \/ cur'.st # cur.st \/ cur'.tex # cur.tex => due'
  /\ exact' \in {exact, exact /\ (due \/ cur'.prog = cur.prog)}
  /\ seen' = 0 /\ MayPart
  /\ UNCHANGED <<drawing, open, screen>>

\* A texture is bound behind the state; what is not on the screen yet suffers.
Bind ==
  /\ exact' \in {exact, FALSE}
  /\ \/ screen' = screen
     \/ /\ ~exact'
        /\ \E n \in 0..Len(screen) :
             screen' = [i \in 1..Len(screen) |->
                          IF i <= n THEN screen[i] ELSE Item(screen[i].what, NotKnown)]
  /\ seen' = 0
  /\ UNCHANGED <<cur, due, drawing, open, odd>>

Switch ==
  /\ drawing' \in BOOLEAN
  /\ seen' = 0 /\ MayPart
  /\ UNCHANGED <<cur, due, exact, open, screen>>

\* What is due is acted on, and the state is known again.
Acts == exact' = (exact \/ due \/ cur' # cur) /\ due' = FALSE

Begin ==
  /\ open = <<>>
  /\ cur' \in With /\ cur' = [cur EXCEPT !.tex = cur'.tex]
  /\ open' = cur'
  /\ Acts
  /\ seen' = 0 /\ MayPart
  /\ UNCHANGED <<drawing, screen>>

End(s) ==
  /\ open # <<>>
  /\ open' = <<>>
  /\ screen' = IF drawing
               THEN Append(screen, Item(IF odd /\ s # "list" THEN "turned" ELSE "plain", Known(open)))
               ELSE screen
  /\ odd' \in {FALSE, s # "list" /\ (s = "oddstrip") # odd}
  /\ seen' = 0
  /\ UNCHANGED <<cur, due, exact, drawing>>

\* Something that is drawn in one call, primitives discarded or not.
Draw ==
  /\ open = <<>>
  /\ cur' = cur
  /\ screen' = Append(screen, Item("model", IF due THEN cur ELSE Known(cur)))
  /\ Acts
  /\ seen' = 0 /\ MayPart
  /\ UNCHANGED <<drawing, open>>

\* The screen is read, or shown and begun anew.
Look ==
  /\ open = <<>>
  /\ seen' = Len(screen)
  /\ screen' \in {screen, <<>>}
  /\ MayPart
  /\ UNCHANGED <<cur, due, exact, drawing, open>>

Next == Change \/ Bind \/ Switch \/ Begin \/ Look \/ Draw \/ \E s \in Shapes : End(s)

Init ==
  /\ cur \in With /\ due = FALSE /\ exact = TRUE
  /\ drawing = TRUE /\ open = <<>> /\ odd = FALSE
  /\ screen = <<>> /\ seen = 0

Spec == Init /\ [][Next]_vars
=============================================================================
