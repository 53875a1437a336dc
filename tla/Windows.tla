------------------------------ MODULE Windows ------------------------------
(***************************************************************************)
(* The window tree of util/gfx/win.c.  A window tree is a function from    *)
(* the windows that exist to their attributes; the ring of siblings that   *)
(* starts at top_child is the sequence "children", the top child first.  A *)
(* gui is a tree together with what has been painted on the screen so far, *)
(* and an operation of the window system is an operator from gui to gui.   *)
(*                                                                         *)
(* How windows are painted is a parameter, which Painting supplies: what   *)
(* happens to the tree does not depend on it.                              *)
(***************************************************************************)
EXTENDS Areas

CONSTANTS
    Draw(_, _, _, _),        \* win_draw: the screen after a window is drawn
    DrawParent(_, _, _, _),  \* win_draw_parent: ... after what lies beneath it is
    Visible(_, _),           \* win_is_visible
    Inside(_, _, _),         \* win_is_inside_window
    PlaceInRoot(_, _)        \* win_translate_win_to_root

(***************************************************************************)
(* The tree.                                                               *)
(***************************************************************************)
win_redraw(gui, w) ==
    IF Visible(gui.tree, w)
    THEN [gui EXCEPT !.screen = Draw(gui.tree, @, w, gui.tree[w].area)]
    ELSE gui

Without(siblings, w) == RemoveAt(siblings, Position(siblings, w))

win_unlink(tree, w) ==
    [tree EXCEPT ![tree[w].parent].children = Without(@, w)]

win_add_top_child(tree, parent, w) ==
    [tree EXCEPT ![parent].children = <<w>> \o @, ![w].parent = parent]

\* The memory for the window came from the bag; attributes is a record with the
\* fields area, look, redrawParent and raiseOnPress.
win_create(gui, parent, w, attributes) ==
    LET fresh == [area |-> attributes.area, look |-> attributes.look,
                  redrawParent |-> attributes.redrawParent,
                  raiseOnPress |-> attributes.raiseOnPress,
                  mapped |-> FALSE, parent |-> parent, children |-> <<>>]
        grown == [x \in DOMAIN gui.tree \cup {w} |->
                     IF x = w THEN fresh ELSE gui.tree[x]]
    IN  [gui EXCEPT !.tree = win_add_top_child(grown, parent, w)]

win_show(gui, w) ==
    IF gui.tree[w].mapped THEN gui
    ELSE win_redraw([gui EXCEPT !.tree[w].mapped = TRUE], w)

win_hide(gui, w) ==
    LET hidden == [gui EXCEPT !.tree[w].mapped = FALSE]
    IN  IF ~gui.tree[w].mapped THEN gui
        ELSE IF w = Root
        THEN [hidden EXCEPT !.screen = [p \in Pixels |-> <<Background>>]]
        ELSE IF Visible(gui.tree, w)
        THEN [hidden EXCEPT !.screen =
                DrawParent(hidden.tree, @, w, gui.tree[w].area)]
        ELSE hidden

\* w and all that is inside: the least set of windows with w that holds the
\* children of its members (the recursion of win_destroy_children).
Family(tree, w) ==
    LET closed(S) == \A x \in S : ToSet(tree[x].children) \subseteq S
    IN  {x \in DOMAIN tree :
            \A S \in SUBSET DOMAIN tree : w \in S /\ closed(S) => x \in S}

\* win_destroy_children and membag_free: the windows no longer exist.
win_destroy(gui, w) ==
    LET hidden == win_hide(gui, w)
        left == win_unlink(hidden.tree, w)
    IN  [hidden EXCEPT !.tree = Restrict(left, DOMAIN left \ Family(gui.tree, w))]

win_reparent(gui, w, parent) ==
    LET hidden == win_hide(gui, w)
        moved == [hidden EXCEPT !.tree =
                    win_add_top_child(win_unlink(@, w), parent, w)]
    IN  IF gui.tree[w].mapped THEN win_show(moved, w) ELSE moved

\* The events of win_raise and win_lower go to the topmost child of w itself,
\* which the code takes to be there: w has children.  Their handlers (the parts of
\* the frame) reject them, and nothing changes.
win_raise(gui, w) ==
    LET parent == gui.tree[w].parent
    IN  IF Head(gui.tree[parent].children) = w THEN gui
        ELSE win_redraw([gui EXCEPT !.tree =
                            win_add_top_child(win_unlink(@, w), parent, w)], w)

win_lower(gui, w) ==
    LET parent == gui.tree[w].parent
        lowered == [gui EXCEPT !.tree[parent].children = Append(Without(@, w), w)]
    IN  IF Last(gui.tree[parent].children) = w THEN gui
        ELSE win_redraw(lowered, w)

\* Variant: a window that only moves exposes nothing.
win_set_area_Unexposed(gui, w, area, changes) ==
    LET old == gui.tree[w].area
        new == [pos |-> IF "position" \in changes THEN area.pos ELSE old.pos,
                size |-> IF "size" \in changes THEN area.size ELSE old.size]
        dirty == win_compute_union(old, area)
        placed == [gui EXCEPT !.tree[w].area = new]
    IN  IF ~Visible(gui.tree, w) THEN placed
        ELSE [placed EXCEPT !.screen =
                IF \E d \in Dims : new.size[d] < old.size[d]
                THEN DrawParent(placed.tree, @, w, dirty)
                ELSE Draw(placed.tree, @, w, dirty)]

\* "changes" are the attributes to change: "position" and "size".
win_set_area(gui, w, area, changes) ==
    LET old == gui.tree[w].area
        new == [pos |-> IF "position" \in changes THEN area.pos ELSE old.pos,
                size |-> IF "size" \in changes THEN area.size ELSE old.size]
        dirty == win_compute_union(old, area)
        exposed == \/ "position" \in changes
                   \/ /\ "size" \in changes
                      /\ \E d \in Dims : area.size[d] < old.size[d]
        placed == [gui EXCEPT !.tree[w].area = new]
    IN  IF ~Visible(gui.tree, w) THEN placed
        ELSE [placed EXCEPT !.screen =
                IF exposed THEN DrawParent(placed.tree, @, w, dirty)
                           ELSE Draw(placed.tree, @, w, dirty)]

\* A change of the background alone: the look of the window.
win_set_attributes(gui, w, look) ==
    win_redraw([gui EXCEPT !.tree[w].look = look], w)

(***************************************************************************)
(* The pointer.                                                            *)
(***************************************************************************)
\* One level of the way down: to the topmost child that is mapped and contains
\* the point, which is raised by a press if it wants to be.
Down(at, press) ==
    LET tree == at.gui.tree
        local == Minus(at.point, tree[at.win].area.pos)
        under(c) == tree[c].mapped /\ win_is_inside_area(tree[c].area, local)
        hit == SelectInSeq(tree[at.win].children, under)
        child == tree[at.win].children[hit]
    IN  IF hit = 0 THEN at
        ELSE [gui |-> IF press /\ tree[child].raiseOnPress
                      THEN win_raise(at.gui, child) ELSE at.gui,
              win |-> child, point |-> local]

\* The window that the event is offered to first.  No window is more than three
\* levels below the root: a frame, its contents, and what lies in there.
win_handle_pointer_event(gui, point, press) ==
    Down(Down(Down([gui |-> gui, win |-> Root, point |-> point], press), press), press)
=============================================================================
