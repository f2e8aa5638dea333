SPECIFICATION FairSpec
CONSTANTS
    MaxFailures = 3
    MaxSpurious = 1
CHECK_DEADLOCK FALSE
INVARIANTS
    KilledOnlyAfterCancel
    ThreadIsHeard
    PromptHasTimer
    QuitsAfterFailures
    PromptIsAwaited
PROPERTIES
    ImplementsDialog
    LoopsEnd
    FailuresEnd
