SPECIFICATION Spec
CONSTANTS
    Streams = {"stdout", "stderr"}
    Requests <- MCRequests
    MaxOutputSize = 2
    MaxTimeout = 4
    Second = 2
    DurationBits = 4
    MaxBytes = 3
INVARIANTS OutputFaithful AnswerFaithful CutOffInTime
PROPERTIES AnsweredUnlessPipeHeld
