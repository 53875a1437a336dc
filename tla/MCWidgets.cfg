CONSTANTS
    Dims <- MCDims
    ScreenSize <- MCScreenSize
    Root = Root
    Nothing = Nothing
    Background = Background
    Draw <- win_draw
    DrawParent <- win_draw_parent
    Visible <- win_is_visible
    Inside <- win_is_inside_window
    PlaceInRoot <- win_translate_win_to_root
    Widget <- MCWidget
    Stacking <- MCStacking
    KindsOf <- MCKindsOf
    PlaceOf <- MCPlaceOf
    FrameArea <- MCFrameArea
    WindowArea <- MCWindowArea
    Border = 2
    HandleSize <- MCHandleSize
    MinSize <- MCMinSize
    DragThreshold = 1
    KnobWidth = 1
    SliderMaximum = 1
    QueueSize <- MCQueueSize
    Windowed <- MCWindowed
    Roomy <- MCRoomy
    PenPlaces <- MCPenPlaces
    HandleRadius <- MCHandleRadius
    DragSymbol = DragSymbol

SPECIFICATION UiSpec

INVARIANTS
    PressedHoldsPointer
    FrameFits
PROPERTIES
    Repainted
    PressGoesToWhatIsSeen
    EventsAreTaken
