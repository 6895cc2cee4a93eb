SPECIFICATION Spec
CONSTANTS
    AmbiguityMargin = 800
    ConfidenceThreshold = 5800
    MinimumGain = 800
    RouteThreshold = 82
    Sources <- SomeSources
    Layouts <- SomeLayouts
    ArabicReadings <- SomeArabic
    LatinReadings <- SomeLatin
    VlmOutputs <- SomeOutputs
    Width = 20
    Height = 20
    MaxPages = 2
    FallbackEnabled = TRUE
    FallbackLimit = 1
INVARIANTS TypeOK EvidenceKept FallbackCapped NumbersGuarded ReadingOrderStable BoxesOnPage DocumentComplete
CHECK_DEADLOCK FALSE
