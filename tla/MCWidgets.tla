----------------------------- MODULE MCWidgets -----------------------------
(* A screen of one line, six pixels long, and a frame with two widgets.  The  *)
(* scenes differ in what there is beside the frame and in which of its parts  *)
(* the pen can reach, so that each of them stays small.                       *)
EXTENDS Screen

MCDims == {"x"}
At(n) == [d \in MCDims |-> n]
Span(first, size) == [pos |-> At(first), size |-> At(size)]

MoveOrResize == [a |-> "button", b |-> "button"]
WithWindow == [a |-> "slider", b |-> "slider"]
NarrowDrag == [a |-> "radio", b |-> "slider"]
Closing == [a |-> "slider", b |-> "button"]
SecondPress == [a |-> "button", b |-> "check_box"]
Group == [a |-> "radio", b |-> "radio"]
MCKindsOf ==
    {MoveOrResize, WithWindow, NarrowDrag, Closing, SecondPress, Group}
MCWindowed == {WithWindow, Closing}
MCRoomy == {WithWindow, NarrowDrag}

MCScreenSize == At(6)
MCPlaceOf == [a |-> Span(0, 1), b |-> Span(1, 2)]
MCWidget == DOMAIN MCPlaceOf
MCStacking == <<"b", "a">>
MCFrameArea == Span(0, 2)
MCWindowArea == Span(1, 3)
MCHandleSize == At(1)
MCMinSize == At(1)

(* At first the frame's borders are at 0, 1 and 4, the widgets at 2 and 3, and *)
(* the resize handle at 5.                                                     *)
MCPenPlaces ==
    [scene \in MCKindsOf |->
        CASE scene = MoveOrResize -> {At(0), At(3), At(5)}
          [] scene = WithWindow -> {At(0), At(5)}
          [] scene = NarrowDrag -> {At(0), At(2)}
          [] scene = Closing -> {At(0), At(3)}
          [] scene \in {SecondPress, Group} -> {At(2), At(3)}]
MCHandleRadius == [scene \in MCKindsOf |-> IF scene = NarrowDrag THEN 1 ELSE 0]
\* A press between a release and the command it leads to takes a third event.
MCQueueSize ==
    [scene \in MCKindsOf |->
        CASE scene \in {MoveOrResize, WithWindow} -> 1
          [] scene \in {NarrowDrag, Closing, Group} -> 2
          [] scene = SecondPress -> 3]
=============================================================================
