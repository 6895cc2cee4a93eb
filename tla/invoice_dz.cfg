SPECIFICATION Spec
CONSTANTS
    Documents <- SomeDocuments
    MaxAmount = 999
INVARIANTS TypeOK RecoveredTotalAgrees ItemsShareOnlyNumerals LabelsWin AmountsAsRead FailsOnlyOnOversize
CHECK_DEADLOCK FALSE
