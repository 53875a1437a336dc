------------------------------ MODULE Painting -----------------------------
(***************************************************************************)
(* The painting of util/gfx/win.c.  A window tree is a function from the   *)
(* windows that exist to their attributes (Windows).                       *)
(*                                                                         *)
(* A pixel holds the layers of paint that can be seen in it, from the      *)
(* bottom up.  A layer names the window it came from, the place inside     *)
(* that window and the look of the window when it was painted, so paint    *)
(* that should have been replaced can be told from fresh paint.  An opaque *)
(* window covers what lies beneath; a window with                          *)
(* WIN_BEHAVIOR_REDRAW_PARENT (a shade, a caption without a background)    *)
(* adds a layer to it.                                                     *)
(***************************************************************************)
EXTENDS Areas

\* The climb of win_compute_clipping: the region is cut at the edges of each
\* parent and moved into the coordinates the parent is placed in.
RECURSIVE ClimbToRoot(_, _, _)
ClimbToRoot(tree, w, clip) ==
    IF w = Root THEN clip
    ELSE LET parent == tree[w].parent
             area == tree[parent].area
             cut == [clip EXCEPT !.NW = Most(@, Zero),
                                 !.SE = Least(@, Minus(area.size, Ones))]
         IN  IF Empty(cut) THEN Nothing
             ELSE ClimbToRoot(tree, parent, Shift(cut, area.pos))

win_compute_clipping(tree, w, dirty) ==
    LET own == Region(tree[w].area, tree[w].area.pos)
        clip == win_compute_intersection(own, dirty)
    IN  IF clip = Nothing THEN Nothing ELSE ClimbToRoot(tree, w, clip)

\* When the window is clipped away the code compares the point with the region
\* as far as it was computed.  The windows asked about here are the root and a
\* window that was pressed, and some of both is on the screen.
win_is_inside_window(tree, w, point) ==
    LET clip == win_compute_clipping(tree, w, tree[w].area)
    IN  clip # Nothing /\ win_is_inside_clip(clip, point)

RECURSIVE win_translate_win_to_root(_, _)
win_translate_win_to_root(tree, w) ==
    IF w = Root THEN tree[w].area.pos
    ELSE Plus(tree[w].area.pos, win_translate_win_to_root(tree, tree[w].parent))

RECURSIVE win_is_visible(_, _)
win_is_visible(tree, w) ==
    tree[w].mapped /\ (w = Root \/ win_is_visible(tree, tree[w].parent))

(***************************************************************************)
(* Painting.                                                               *)
(***************************************************************************)
Layer(tree, w, p, origin) == <<w, Minus(p, origin), tree[w].look>>

Painted(under, layer, seeThrough) ==
    IF seeThrough THEN Append(under, layer) ELSE <<layer>>

\* gfx_set_clipping, the background bitmap and the DRAW event of one window.
PaintWindow(tree, screen, w, clip) ==
    [p \in {x \in Pixels : win_is_inside_clip(clip, x)} |->
        Painted(screen[p], Layer(tree, w, p, clip.origin), tree[w].redrawParent)]
    @@ screen

RECURSIVE win_draw_contents(_, _, _, _), win_draw_child(_, _, _, _)

\* The mapped ones among some siblings, the one at the bottom first.
RECURSIVE DrawMapped(_, _, _, _)
DrawMapped(tree, screen, siblings, clip) ==
    IF siblings = <<>> THEN screen
    ELSE LET w == Last(siblings)
             painted == IF tree[w].mapped
                        THEN win_draw_child(tree, screen, w, clip) ELSE screen
         IN  DrawMapped(tree, painted, Front(siblings), clip)

win_draw_contents(tree, screen, w, clip) ==
    DrawMapped(tree, PaintWindow(tree, screen, w, clip), tree[w].children, clip)

win_draw_child(tree, screen, w, parentClip) ==
    LET area == tree[w].area
        own == Shift(Region(area, area.pos), parentClip.origin)
        clip == [own EXCEPT !.NW = Most(@, parentClip.NW),
                            !.SE = Least(@, parentClip.SE)]
    IN  IF Empty(clip) THEN screen
        ELSE win_draw_contents(tree, screen, w, clip)

\* Up the tree from w: at each level the siblings above are painted over the
\* region, the nearest first.
RECURSIVE DrawCovering(_, _, _, _)
DrawCovering(tree, screen, w, clip) ==
    IF w = Root THEN screen
    ELSE LET parent == tree[w].parent
             siblings == tree[parent].children
             above == SubSeq(siblings, 1, Position(siblings, w) - 1)
             outer == [clip EXCEPT !.origin = Minus(@, tree[w].area.pos)]
         IN  DrawCovering(tree, DrawMapped(tree, screen, above, outer),
                          parent, outer)

RECURSIVE win_draw(_, _, _, _), win_draw_parent(_, _, _, _)

win_draw(tree, screen, w, dirty) ==
    LET clip == win_compute_clipping(tree, w, dirty)
    IN  IF clip = Nothing THEN screen
        ELSE IF w # Root /\ tree[w].redrawParent
        THEN win_draw_parent(tree, screen, w, dirty)
        ELSE DrawCovering(tree, win_draw_contents(tree, screen, w, clip), w, clip)

win_draw_parent(tree, screen, w, dirty) ==
    LET parent == tree[w].parent
        area == win_translate_area_to_parent(dirty, tree[parent].area)
    IN  IF area = Nothing THEN screen ELSE win_draw(tree, screen, parent, area)

(***************************************************************************)
(* What should be on the screen, pixel by pixel: the windows that contain  *)
(* the pixel, parents beneath their children and siblings from the bottom. *)
(***************************************************************************)
RECURSIVE Composed(_, _, _, _)
Composed(tree, windows, place, under) ==
    IF windows = <<>> THEN under
    ELSE LET w == Last(windows)
             inside == Minus(place, tree[w].area.pos)
             own == Painted(under, <<w, inside, tree[w].look>>,
                            tree[w].redrawParent)
             layers == IF /\ tree[w].mapped
                          /\ \A d \in Dims : inside[d] \in 0 .. tree[w].area.size[d] - 1
                       THEN Composed(tree, tree[w].children, inside, own)
                       ELSE under
         IN  Composed(tree, Front(windows), place, layers)

Picture(tree) ==
    [p \in Pixels |-> Composed(tree, <<Root>>, p, <<Background>>)]
=============================================================================
