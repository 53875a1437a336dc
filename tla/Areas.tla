------------------------------- MODULE Areas -------------------------------
(***************************************************************************)
(* Places, areas and clipping regions of util/gfx/win.c.  Every operator   *)
(* works on all the coordinates in Dims at once, as the C code repeats     *)
(* each line for x and for y.                                              *)
(***************************************************************************)
EXTENDS Integers, Sequences, SequencesExt

CONSTANTS
    Dims,        \* the coordinates
    ScreenSize,  \* gfx_get_width() and gfx_get_height(), by coordinate
    Root,        \* win_root
    Nothing,     \* NULL, and "no region"
    Background   \* WIN_SCREEN_COLOR, on the screen when the root is hidden

ASSUME ScreenAssumption == ScreenSize \in [Dims -> Nat \ {0}]

Zero == [d \in Dims |-> 0]
Plus(p, q) == [d \in Dims |-> p[d] + q[d]]
Minus(p, q) == [d \in Dims |-> p[d] - q[d]]
Least(p, q) == [d \in Dims |-> IF p[d] < q[d] THEN p[d] ELSE q[d]]
Most(p, q) == [d \in Dims |-> IF p[d] < q[d] THEN q[d] ELSE p[d]]
Ones == [d \in Dims |-> 1]

Pixels ==
    {p \in [Dims -> UNION {0 .. ScreenSize[d] - 1 : d \in Dims}] :
        \A d \in Dims : p[d] < ScreenSize[d]}

(***************************************************************************)
(* Areas and clipping regions.                                             *)
(***************************************************************************)
End(area) == Plus(area.pos, area.size)
Corner(area) == Minus(End(area), Ones)
Region(area, origin) == [origin |-> origin, NW |-> area.pos, SE |-> Corner(area)]
Empty(clip) == \E d \in Dims : clip.NW[d] > clip.SE[d]
Shift(clip, by) ==
    [origin |-> Plus(clip.origin, by), NW |-> Plus(clip.NW, by),
     SE |-> Plus(clip.SE, by)]

win_is_inside_clip(clip, point) ==
    \A d \in Dims : clip.NW[d] <= point[d] /\ point[d] <= clip.SE[d]

\* Variant: the pixel after the last one counts as inside.
win_is_inside_area_OneMore(area, point) ==
    \A d \in Dims : area.pos[d] <= point[d] /\ point[d] <= End(area)[d]

win_is_inside_area(area, point) ==
    \A d \in Dims : area.pos[d] <= point[d] /\ point[d] < End(area)[d]

win_compute_union(area, merge) ==
    LET pos == Least(area.pos, merge.pos)
    IN  [pos |-> pos, size |-> Minus(Most(End(area), End(merge)), pos)]

win_compute_intersection(clip, area) ==
    IF \E d \in Dims : clip.SE[d] < area.pos[d] \/ clip.NW[d] > Corner(area)[d]
    THEN Nothing
    ELSE [clip EXCEPT !.NW = Most(@, area.pos), !.SE = Least(@, Corner(area))]

win_translate_area_to_parent(area, parent) ==
    LET pos == Most(area.pos, Zero)
        size == Minus(Least(End(area), parent.size), pos)
    IN  IF \E d \in Dims : size[d] <= 0 THEN Nothing
        ELSE [pos |-> Plus(pos, parent.pos), size |-> size]

\* Where w is among its siblings.
Position(seq, w) == CHOOSE i \in DOMAIN seq : seq[i] = w
=============================================================================
