CONSTANTS
    Size = 3
    Items <- TwoItems
    Fades <- Middle
    Starts <- FourStarts
    Settings <- TwoSettings
    MaxInputs = 4
SPECIFICATION Spec
INVARIANTS TypeOK ShowsCurrent FramesReady Mirrored HashShowsSlide
PROPERTIES BuildsFirst
CHECK_DEADLOCK FALSE
