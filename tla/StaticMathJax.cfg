CONSTANTS
    Urls <- ThreeUrls
    Within <- Beginnings
    UnderRoot <- MathJaxUrls
    Pages <- SomePages
    CommandLines <- SomeCommandLines
SPECIFICATION StaticFairSpec
INVARIANTS ScriptsGone FontsReplaced
PROPERTIES Closes
CHECK_DEADLOCK FALSE
