SPECIFICATION Spec
CONSTANTS
    Absent = Absent
    Bundles <- SomeBundles
    Contents <- SomeContents
    MaxBytes = 2
    MaxWrites = 2
    HasPack = TRUE
INVARIANTS TypeOK EveryPageSampled VerifiedBytes IntactPagesSucceed ExtractedFromSuccesses
CHECK_DEADLOCK FALSE
