CONSTANTS
    Places <- TwoPlaces
    HoldTimeout = 2
    TapInterval = 1
    OptionSets <- SomeOptions
    MaxFingers = 2
SPECIFICATION FairSpec
INVARIANTS TypeOK OneFingerDrag
PROPERTIES EndsAfterStart HoldOrTap PressesResolve
CHECK_DEADLOCK FALSE
