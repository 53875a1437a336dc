------------------------------ MODULE Widgets ------------------------------
(***************************************************************************)
(* The desktop of the display applications: the window system of           *)
(* util/gfx/win.c with its event queue, the widgets of util/gfx/wtk_*.c    *)
(* that react to the pointer, and an application with one frame of widgets *)
(* and one window of its own.                                              *)
(*                                                                         *)
(* All of it runs from the main loop, one task at a time.  Interrupt       *)
(* handlers only queue events, at any moment.  A step of the worker is the *)
(* handling of one event, up to the queueing of the command it leads to.   *)
(***************************************************************************)
EXTENDS Windows

CONSTANTS
    Widget,        \* the widgets inside the frame
    Stacking,      \* ... in a sequence, the one created last first
    KindsOf,       \* the scenes: what kind each widget is
    PlaceOf,       \* the area of each widget, in the contents of the frame
    FrameArea,     \* the area asked for the frame's contents
    WindowArea,    \* the area of the application's own window
    Border, HandleSize, MinSize, DragThreshold, KnobWidth,  \* gfx/default/wtk.h
    SliderMaximum,
    QueueSize,     \* WIN_EVENT_QUEUE_SIZE in each scene
    Windowed,      \* the scenes in which the application has a window of its own
    Roomy,         \* the scenes in which there is memory for drag symbols
    PenPlaces,     \* where the panel is touched in each scene
    HandleRadius,  \* WTK_DRAG_HANDLE_RADIUS in each scene
    DragSymbol     \* the paint of the two symbols that are drawn during a drag

Container == "container"
Contents == "contents"
Resize == "resize"
Window == "window"

Vector == [Dims -> Int]
AreaType == [pos : Vector, size : Vector]

ASSUME QueueAssumption == QueueSize \in [KindsOf -> Nat \ {0}]
ASSUME StackingAssumption ==
    /\ Stacking \in Seq(Widget) /\ ToSet(Stacking) = Widget
    /\ \A i, j \in DOMAIN Stacking : Stacking[i] = Stacking[j] => i = j

\* Windows are different things, and places are vectors of numbers.
ASSUME WindowsAssumption ==
    /\ Root # Nothing /\ {Root, Nothing} \cap {Container, Contents, Resize, Window} = {}
    /\ Widget \cap {Root, Nothing, Container, Contents, Resize, Window} = {}
    /\ KindsOf \subseteq [Widget -> {"button", "check_box", "radio", "slider"}]
    /\ FrameArea \in AreaType /\ WindowArea \in AreaType
    /\ PlaceOf \in [Widget -> AreaType]
    /\ HandleSize \in Vector /\ MinSize \in Vector
    /\ Border \in Nat /\ HandleRadius \in [KindsOf -> Nat]
    /\ PenPlaces \in [KindsOf -> SUBSET Vector] /\ Nothing \notin Vector

VARIABLES
    ui,       \* the gui, the grabber, the state of the frame and of its drag
    kind,     \* the scene: the kind of each widget
    ring,     \* win_event_queue
    queued,   \* the event task is in the main work queue
    job,      \* how far the worker is with the event at the tail of the ring
    call,     \* commands a handler queues, the first being queued now
    stylus    \* where the panel is touched, or Nothing

uiVars == <<ui, kind, ring, queued, job, call, stylus>>

Plain == [pressed |-> FALSE, value |-> 0]
Live == DOMAIN ui.tree
Frames(n) == [d \in Dims |-> n]

(***************************************************************************)
(* The frame: wtk_frame.c.                                                 *)
(***************************************************************************)
\* ... and at last the handle goes to the container's corner.
FitHandle(gui) ==
    LET box == gui.tree[Container].area
        handle == [gui.tree[Resize].area EXCEPT !.pos = Minus(box.size, HandleSize)]
    IN  win_set_area(gui, Resize, handle, {"position"})

\* ... then the container is made to fit around them, ...
FitContainer(gui) ==
    LET box == [gui.tree[Container].area EXCEPT
                    !.size = Plus(gui.tree[Contents].area.size, Frames(2 * Border))]
    IN  FitHandle(win_set_area(gui, Container, box, {"size"}))

\* Variant: the handle is placed before the container has its new size.
wtk_resize_frame_HandleFirst(gui, asked) ==
    LET wanted == [asked EXCEPT !.size = Most(@, MinSize)]
        inner == win_set_area(gui, Contents, wanted, {"size"})
        old == inner.tree[Container].area
        box == [old EXCEPT !.size = Plus(wanted.size, Frames(2 * Border))]
        handle == [inner.tree[Resize].area EXCEPT
                      !.pos = Minus(old.size, HandleSize)]
        placed == win_set_area(inner, Resize, handle, {"position"})
    IN  win_set_area(placed, Container, box, {"size"})

\* The contents get their new size first, ...
wtk_resize_frame(gui, asked) ==
    LET wanted == [asked EXCEPT !.size = Most(@, MinSize)]
    IN  FitContainer(win_set_area(gui, Contents, wanted, {"size"}))

wtk_frame_create(gui) ==
    LET attributes(area, raise, shade) ==
            [area |-> area, look |-> Plain, redrawParent |-> shade,
             raiseOnPress |-> raise]
        inside == [FrameArea EXCEPT !.pos = Frames(Border)]
        corner == [FrameArea EXCEPT !.size = HandleSize]
        box == win_create(gui, Root, Container, attributes(FrameArea, TRUE, TRUE))
        inner == win_create(box, Container, Contents,
                            attributes(inside, FALSE, FALSE))
        handle == win_show(win_create(inner, Container, Resize,
                                      attributes(corner, FALSE, FALSE)), Resize)
    IN  win_show(wtk_resize_frame([handle EXCEPT !.frame = "normal"], FrameArea),
                 Contents)

Exceeded(gui, pos) ==
    \E d \in Dims : \/ pos[d] < gui.origin[d] - DragThreshold
                    \/ pos[d] > gui.origin[d] + DragThreshold

(***************************************************************************)
(* The two symbols of a drag, a disc where it began and one where the pen  *)
(* is.  They are drawn on the screen itself, on top of whatever window is  *)
(* there; what they cover is saved and put back.  A symbol is taken to     *)
(* fill the square that is saved for it.                                   *)
(***************************************************************************)
Offsets == [Dims -> -HandleRadius[kind] .. HandleRadius[kind]]
Square(pos) == {p \in Pixels : Minus(p, pos) \in Offsets}

DrawSymbol(screen, pos) ==
    [p \in Pixels |-> IF p \in Square(pos) THEN <<DragSymbol>> ELSE screen[p]]

\* Only what is on the screen is read into a saved square and written from it:
\* the rest of its memory keeps what was in there before.
gfx_get_pixmap(screen, pos, memory) ==
    [o \in Offsets |->
        IF Plus(pos, o) \in Pixels THEN screen[Plus(pos, o)] ELSE memory[o]]

gfx_put_pixmap(screen, pos, memory) ==
    [p \in Pixels |-> IF p \in Square(pos) THEN memory[Minus(p, pos)] ELSE screen[p]]

\* The memory of the bag, before anything is saved in it.
Fresh == [o \in Offsets |-> <<>>]

\* Without memory for both squares the drag goes on without symbols.
StartDrag(gui, event) ==
    LET marked == DrawSymbol(gui.screen, gui.origin)
    IN  IF kind \notin Roomy THEN gui
        ELSE [gui EXCEPT
                !.screen = DrawSymbol(marked, event.pos),
                !.saved = [origin |-> gfx_get_pixmap(gui.screen, gui.origin, Fresh),
                           target |-> gfx_get_pixmap(marked, event.pos, Fresh)]]

\* The symbol under the pen goes from where the pen was to where it is.
ContinueDrag(gui, event) ==
    LET cleared == gfx_put_pixmap(gui.screen, event.last, gui.saved.target)
    IN  IF gui.saved = Nothing THEN gui
        ELSE [gui EXCEPT
                !.screen = DrawSymbol(cleared, event.pos),
                !.saved.target = gfx_get_pixmap(cleared, event.pos, @)]

\* Both squares are put back, the one that was saved first before the other.
StopDrag(gui, event) ==
    IF gui.saved = Nothing THEN gui
    ELSE [gui EXCEPT
            !.screen = gfx_put_pixmap(gfx_put_pixmap(@, gui.origin, gui.saved.origin),
                                      event.last, gui.saved.target),
            !.saved = Nothing]

\* The states of a drag: the container is moved, the handle resizes.
Awaiting(w) == IF w = Container THEN "awaiting move" ELSE "awaiting resize"
Dragging(w) == IF w = Container THEN "moving" ELSE "resizing"

\* Variant: the press does not grab the pointer.
FramePress_NoGrab(gui, w, pos) ==
    IF gui.frame # "normal" THEN gui
    ELSE [gui EXCEPT !.origin = pos, !.frame = Awaiting(w)]

\* The three pointer events of the container and of the handle.
FramePress(gui, w, pos) ==
    IF gui.frame # "normal" THEN gui
    ELSE [gui EXCEPT !.origin = pos, !.grabber = w, !.frame = Awaiting(w)]

FrameMove(gui, w, event) ==
    IF gui.frame = Awaiting(w) /\ Exceeded(gui, event.pos)
    THEN StartDrag([gui EXCEPT !.frame = Dragging(w)], event)
    ELSE IF gui.frame = Dragging(w) THEN ContinueDrag(gui, event) ELSE gui

MoveBy(gui, by) ==
    LET area == gui.tree[Container].area
    IN  win_set_area(gui, Container, [area EXCEPT !.pos = Plus(@, by)],
                     {"position"})

ResizeBy(gui, by) ==
    LET area == gui.tree[Contents].area
    IN  wtk_resize_frame(gui, [area EXCEPT !.size = Plus(@, by)])

FrameRelease(gui, w, event) ==
    LET stopped == [StopDrag(gui, event) EXCEPT !.grabber = Nothing,
                                                !.frame = "normal"]
        by == Minus(event.pos, gui.origin)
    IN  IF gui.frame # Dragging(w) THEN gui
        ELSE IF ~Inside(gui.tree, gui.tree[Container].parent, event.pos)
        THEN stopped
        ELSE IF w = Container THEN MoveBy(stopped, by) ELSE ResizeBy(stopped, by)

wtk_frame_handler(gui, w, event) ==
    CASE event.act = "press" -> FramePress(gui, w, event.pos)
      [] event.act = "move" -> FrameMove(gui, w, event)
      [] event.act = "release" -> FrameRelease(gui, w, event)

(***************************************************************************)
(* The widgets inside the frame.                                           *)
(***************************************************************************)
SendCommand(gui, w) == [gui EXCEPT !.sent = Append(@, w)]

\* A button that is no longer pressed, and has let the pointer go.
Up(gui, w) ==
    win_redraw([gui EXCEPT !.grabber = Nothing, !.tree[w].look.pressed = FALSE], w)

\* Buttons, check boxes and radio buttons grab the pointer when pressed and act,
\* which gives clicked, when it is released inside them.
PressAndRelease(gui, w, event, clicked) ==
    LET pressed == gui.tree[w].look.pressed
    IN  IF event.act = "press" /\ ~pressed
        THEN win_redraw([gui EXCEPT !.grabber = w,
                                   !.tree[w].look.pressed = TRUE], w)
        ELSE IF event.act = "release" /\ pressed
        THEN IF Inside(gui.tree, w, event.pos)
             THEN clicked ELSE Up(gui, w)
        ELSE gui

wtk_button_handler(gui, w, event) ==
    PressAndRelease(gui, w, event, SendCommand(Up(gui, w), w))

wtk_check_box_toggle(gui, w) ==
    win_redraw([gui EXCEPT !.tree[w].look.value = 1 - @], w)

wtk_check_box_handler(gui, w, event) ==
    PressAndRelease(gui, w, event, SendCommand(wtk_check_box_toggle(Up(gui, w), w), w))

\* The group's selected member is the one that is painted with a mark.
wtk_radio_button_select(gui, w) ==
    LET others == {x \in Widget : kind[x] = "radio" /\ x # w}
        marked == {x \in others : gui.tree[x].look.value = 1}
        chosen == [gui EXCEPT !.tree = [x \in DOMAIN @ |->
                      IF x = w THEN [@[x] EXCEPT !.look.value = 1]
                      ELSE IF x \in marked THEN [@[x] EXCEPT !.look.value = 0]
                      ELSE @[x]]]
        unmarked == IF marked = {} THEN chosen
                    ELSE win_redraw(chosen, CHOOSE x \in marked : TRUE)
    IN  IF gui.tree[w].look.value = 1 THEN gui ELSE win_redraw(unmarked, w)

wtk_radio_button_handler(gui, w, event) ==
    PressAndRelease(gui, w, event, SendCommand(wtk_radio_button_select(Up(gui, w), w), w))

wtk_rescale_value(value, from, to) == ((value * to) \div from) % 256

\* The slider follows the pointer along the first coordinate, seen from the
\* place on the screen it was created at.
wtk_slider_handler(gui, w, event) ==
    LET along == CHOOSE d \in Dims : TRUE
        moving == gui.tree[w].look.pressed
        position == event.pos[along] - gui.rootPos[w][along] - KnobWidth \div 2
        length == gui.tree[w].area.size[along] - KnobWidth
        value == IF position < 0 THEN 0
                 ELSE IF position > length THEN SliderMaximum
                 ELSE wtk_rescale_value(position, length, SliderMaximum)
    IN  CASE event.act = "press" /\ ~moving ->
                win_redraw([gui EXCEPT !.grabber = w,
                                      !.tree[w].look.pressed = TRUE], w)
          [] event.act = "move" /\ moving /\ gui.tree[w].look.value # value ->
                SendCommand(win_redraw([gui EXCEPT !.tree[w].look.value = value], w), w)
          [] event.act = "release" /\ moving ->
                win_redraw([gui EXCEPT !.grabber = Nothing,
                                      !.tree[w].look.pressed = FALSE], w)
          [] OTHER -> gui

\* win_handle_event of a pointer event: all but the root have a handler.
Handler(gui, w, event) ==
    CASE w \in {Container, Resize} -> wtk_frame_handler(gui, w, event)
      [] w \in Widget /\ kind[w] = "button" -> wtk_button_handler(gui, w, event)
      [] w \in Widget /\ kind[w] = "check_box" -> wtk_check_box_handler(gui, w, event)
      [] w \in Widget /\ kind[w] = "radio" -> wtk_radio_button_handler(gui, w, event)
      [] w \in Widget /\ kind[w] = "slider" -> wtk_slider_handler(gui, w, event)
      [] OTHER -> gui

(***************************************************************************)
(* Events.                                                                 *)
(***************************************************************************)
Pointer(act, pos) == [type |-> "pointer", act |-> act, pos |-> pos]
CommandFrom(w) == [type |-> "command", sender |-> w]

\* Handlers are told where the pointer was before; only a drag looks at it, and
\* only during a drag is it kept.
win_process_pointer_event(event) ==
    LET at == IF ui.grabber # Nothing THEN [gui |-> ui, win |-> ui.grabber]
              ELSE win_handle_pointer_event(ui, event.pos, event.act = "press")
        after == Handler(at.gui, at.win,
                         [act |-> event.act, pos |-> event.pos, last |-> ui.last])
        dragged == \E w \in {Container, Resize} : after.frame = Dragging(w)
    IN  [after EXCEPT !.last = IF dragged THEN event.pos ELSE Zero]

\* The command passes the widget and the contents and is taken by the frame,
\* whose handler asks for the frame to be destroyed when it is the button's.
win_process_command_event(event) ==
    IF kind[event.sender] = "button" THEN win_destroy(ui, Container) ELSE ui

win_event_queue_push(event) ==
    ring' = IF Len(ring) = QueueSize[kind] THEN ring ELSE Append(ring, event)

\* An interrupt handler queues an event: nothing runs between its two steps.
win_queue_event(event) ==
    /\ queued' = TRUE
    /\ win_event_queue_push(event)
    /\ UNCHANGED <<ui, kind, job, call>>

Touch(act, pos) ==
    /\ job # "undefined"
    /\ win_queue_event(Pointer(act, pos))

TouchPress ==
    \E p \in PenPlaces[kind] : /\ stylus = Nothing
                         /\ stylus' = p
                         /\ Touch("press", p)

TouchMove ==
    \E p \in PenPlaces[kind] : /\ stylus \notin {Nothing, p}
                         /\ stylus' = p
                         /\ Touch("move", p)

TouchRelease ==
    /\ stylus # Nothing
    /\ stylus' = Nothing
    /\ Touch("release", stylus)

(***************************************************************************)
(* The worker: win_event_worker and win_process_events.                    *)
(***************************************************************************)
StartWorker ==
    /\ job = "idle" /\ queued
    /\ queued' = FALSE
    /\ job' = IF ring = <<>> THEN "idle" ELSE "handle"
    /\ UNCHANGED <<ui, kind, ring, call, stylus>>

\* A window that no longer exists holds the pointer or has sent a command that
\* is still queued: its memory has been given back, and will be used.
Dangling(after) ==
    \/ after.grabber \notin DOMAIN after.tree \cup {Nothing}
    \/ \E i \in 2 .. Len(ring) :
           ring[i].type = "command" /\ ring[i].sender \notin DOMAIN after.tree

\* A handler runs to its end; the commands it queues, which is the last thing
\* it does, are left in "call".
Handled(after) ==
    /\ ui' = [after EXCEPT !.sent = <<>>]
    /\ call' = after.sent
    /\ job' = IF Dangling(after) THEN "undefined"
              ELSE IF after.sent = <<>> THEN "pop" ELSE "add task"
    /\ UNCHANGED <<kind, ring, queued, stylus>>

HandleEvent ==
    /\ job = "handle"
    /\ LET event == Head(ring)
       IN  Handled(IF event.type = "pointer" THEN win_process_pointer_event(event)
                   ELSE win_process_command_event(event))

\* Nothing can be said about what the program does from here on.
Undefined == job = "undefined" /\ UNCHANGED uiVars

QueueCommandTask ==
    /\ job = "add task"
    /\ queued' = TRUE
    /\ job' = "push"
    /\ UNCHANGED <<ui, kind, ring, call, stylus>>

QueueCommandPush ==
    /\ job = "push"
    /\ win_event_queue_push(CommandFrom(Head(call)))
    /\ call' = <<>>
    /\ job' = "pop"
    /\ UNCHANGED <<ui, kind, queued, stylus>>

\* Variant: the worker handles one event each time it is started.
win_event_queue_pop_OnePerRun ==
    /\ job = "pop"
    /\ ring' = Tail(ring)
    /\ job' = "idle"
    /\ UNCHANGED <<ui, kind, queued, call, stylus>>

win_event_queue_pop ==
    /\ job = "pop"
    /\ ring' = Tail(ring)
    /\ job' = IF Len(ring) = 1 THEN "idle" ELSE "handle"
    /\ UNCHANGED <<ui, kind, queued, call, stylus>>

(***************************************************************************)
(* The application, between tasks.                                         *)
(***************************************************************************)
Application(after) ==
    /\ job = "idle"
    /\ ui' = after
    /\ UNCHANGED <<kind, ring, queued, job, call, stylus>>

\* The widgets are created and shown one after the other, in a frame that is not
\* shown yet: nothing is drawn.
CreateWidgets(gui) ==
    LET made(w) == [area |-> PlaceOf[w], look |-> Plain,
                    redrawParent |-> kind[w] \in {"check_box", "radio"},
                    raiseOnPress |-> FALSE,
                    mapped |-> TRUE, parent |-> Contents, children |-> <<>>]
        full == [x \in DOMAIN gui.tree \cup Widget |->
                    IF x \in Widget THEN made(x)
                    ELSE IF x = Contents
                    THEN [gui.tree[x] EXCEPT !.children = Stacking \o @]
                    ELSE gui.tree[x]]
    IN  [gui EXCEPT !.tree = full,
                    !.rootPos = [w \in Widget |->
                        IF kind[w] = "slider" THEN PlaceInRoot(full, w) ELSE @[w]]]

\* app_desktop_setup: the root window gets its background and is shown.
ShowDesktop ==
    /\ ~ui.tree[Root].mapped
    /\ Application(win_show(win_set_attributes(ui, Root,
                                              [Plain EXCEPT !.value = 1]), Root))
DesktopShown == ui.tree[Root].mapped

LaunchFrame ==
    /\ DesktopShown /\ Container \notin Live
    /\ Application(win_show(CreateWidgets(wtk_frame_create(ui)), Container))

OnWindow(after) == Window \in Live /\ Application(after)

CreateWindow ==
    /\ DesktopShown /\ kind \in Windowed /\ Window \notin Live
    /\ Application(win_create(ui, Root, Window,
                              [area |-> WindowArea, look |-> Plain,
                               redrawParent |-> FALSE, raiseOnPress |-> FALSE]))
ShowWindow == OnWindow(win_show(ui, Window))
HideWindow == OnWindow(win_hide(ui, Window))
DestroyWindow == OnWindow(win_destroy(ui, Window))
MoveIntoFrame ==
    Contents \in Live /\ OnWindow(win_reparent(ui, Window, Contents))

\* Only a window with children is raised or lowered (win_raise).
OnFrame(after) == Container \in Live /\ Application(after)
RaiseFrame == OnFrame(win_raise(ui, Container))
LowerFrame == OnFrame(win_lower(ui, Container))

(***************************************************************************)
(* The specification.                                                      *)
(***************************************************************************)
Desktop ==
    [x \in {Root} |-> [area |-> [pos |-> Zero, size |-> ScreenSize],
                      look |-> Plain, redrawParent |-> FALSE,
                      raiseOnPress |-> FALSE, mapped |-> FALSE,
                      parent |-> Nothing, children |-> <<>>]]

UiInit ==
    /\ ui = [tree |-> Desktop, screen |-> [p \in Pixels |-> <<Background>>], grabber |-> Nothing,
             frame |-> "normal", origin |-> Zero, saved |-> Nothing, last |-> Zero,
             sent |-> <<>>,
             rootPos |-> [w \in Widget |-> Zero]]
    /\ kind \in KindsOf
    /\ ring = <<>> /\ queued = FALSE /\ job = "idle" /\ call = <<>>
    /\ stylus = Nothing

Worker ==
    \/ StartWorker
    \/ HandleEvent
    \/ QueueCommandTask
    \/ QueueCommandPush
    \/ win_event_queue_pop
    \/ Undefined

UiNext ==
    \/ TouchPress
    \/ TouchMove
    \/ TouchRelease
    \/ Worker
    \/ LaunchFrame
    \/ CreateWindow
    \/ ShowWindow
    \/ HideWindow
    \/ RaiseFrame
    \/ LowerFrame
    \/ DestroyWindow
    \/ ShowDesktop
    \/ MoveIntoFrame

\* The main loop runs a queued task, and a task that has started runs to its
\* end: each of the worker's steps that is not the start changes "job".
Jobs == {"idle", "handle", "add task", "push", "pop", "undefined"}
Advance == job \notin {"idle", "undefined"} /\ job' \in Jobs \ {job}
UiSpec == UiInit /\ [][UiNext]_uiVars /\ WF_uiVars(StartWorker) /\ WF_job(Advance)

(***************************************************************************)
(* Properties.                                                             *)
(***************************************************************************)
\* As long as what the program does is defined, the pointer is held by the one
\* widget that looks pressed, or by the part of the frame that awaits a drag or is
\* dragged, and by nothing else: nothing that waits for a release can miss it, and
\* nothing takes events it does not wait for.  (A part of the frame that is released
\* before it was dragged goes on waiting, and holding: wtk_handle_frame_release.)
PressedHoldsPointer ==
    LET pressed == {w \in Live : ui.tree[w].look.pressed}
        dragged == {w \in Live \cap {Container, Resize} :
                       ui.frame \in {Awaiting(w), Dragging(w)}}
    IN  job # "undefined" => pressed \cup dragged = {ui.grabber} \ {Nothing}

\* The frame's container always surrounds its contents with the borders, the
\* resize handle sits in its corner, and the contents never get smaller than
\* the handle needs (wtk_resize_frame).
FrameFits ==
    Container \in Live =>
        LET box == ui.tree[Container].area
            inner == ui.tree[Contents].area
            handle == ui.tree[Resize].area
        IN  /\ inner.pos = Frames(Border)
            /\ box.size = Plus(inner.size, Frames(2 * Border))
            /\ End(handle) = box.size
            /\ inner.size = Most(inner.size, MinSize)

\* The event queue is never left with events in it: it gets empty again and
\* again, or events are taken from it for ever (win_queue_event adds the task
\* before the event, and the task empties the queue), unless a window is used
\* that no longer exists.
EventsAreTaken ==
    \/ []<>(ring = <<>>)
    \/ []<><<win_event_queue_pop>>_uiVars
    \/ <>(job = "undefined")
=============================================================================
