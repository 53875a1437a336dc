------------------------------- MODULE Screen ------------------------------
(***************************************************************************)
(* The desktop with the painting of win.c: Widgets with the parameters     *)
(* Draw, DrawParent, Visible, Inside and PlaceInRoot as Painting has them. *)
(***************************************************************************)
EXTENDS Widgets, Painting

Wrong(gui) == {p \in Pixels : gui.screen[p] # Picture(gui.tree)[p]}

\* The squares that a step of a drag writes to: a symbol is drawn where the drag
\* began and where the pen is, then the one under the pen is moved, and at the end
\* both are taken away.
SymbolsAt(event) ==
    CASE ui.saved = Nothing /\ ui'.saved = Nothing -> {}
      [] ui.saved = Nothing /\ ui'.saved # Nothing -> {ui.origin, event.pos}
      [] ui.saved # Nothing /\ ui'.saved # Nothing -> {ui.last, event.pos}
      [] ui.saved # Nothing /\ ui'.saved = Nothing -> {ui.origin, ui.last}

\* No operation of the window system makes a pixel show anything but the windows
\* that cover it: nothing that is moved, resized, raised, lowered, hidden, changed
\* or destroyed leaves old paint behind, and nothing is painted over what lies on
\* top of it (win_draw and its callers).  The one thing that does is a drag of the
\* frame, and only in the squares its symbols are drawn in and put back.
Repainted ==
    [][ ui' # ui =>
        \A p \in Wrong(ui') :
            \/ p \in Wrong(ui)
            \/ /\ job = "handle" /\ Head(ring).type = "pointer"
               /\ \E pos \in SymbolsAt(Head(ring)) : p \in Square(pos) ]_ui

\* When nobody has grabbed the pointer, a press goes to the topmost window under
\* the pen: if that is a widget or the frame it takes the pointer, if it is another
\* window or the desktop nobody does.
PressGoesToWhatIsSeen ==
    [][ job = "handle" /\ job' # job /\ Head(ring).type = "pointer"
          /\ Head(ring).act = "press" /\ ui.grabber = Nothing
        => LET seen == Last(Picture(ui.tree)[Head(ring).pos])
           IN  ui'.grabber = IF \E w \in Widget \cup {Container, Resize} :
                                   seen # Background /\ seen[1] = w
                             THEN seen[1] ELSE Nothing ]_uiVars
=============================================================================
