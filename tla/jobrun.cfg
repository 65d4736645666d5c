CONSTANTS
    PipeSize = 1
    MaxLines = 3
    Kinds = {"short", "long"}
    Attempts = 3
SPECIFICATION FairRunSpec
INVARIANTS RunTypeOK CompleteOnSuccess QuietAfterReturn RecordedMeansClean LogWasStreamed NobodyIsStuck
PROPERTIES RunReturns CancelledRunReturns
