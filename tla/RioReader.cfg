\* Answers of up to seven bytes, read in every possible way.
SPECIFICATION Spec
CONSTANTS
    MaxLine = 4
    RioBufSize = 3
    MaxBytes = 7
INVARIANTS BytesOnce LineFits
PROPERTY WholeAnswerRead
