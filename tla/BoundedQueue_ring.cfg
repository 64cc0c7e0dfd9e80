\* A capacity that is half of the word's range, rounded up: start and count
\* together reach the largest value that does not wrap.
SPECIFICATION Spec
CONSTANTS
    i1 = i1
    i2 = i2
    i3 = i3
    Items = {i1, i2, i3}
    Null = Null
    Raw = Raw
    Cap = 4
    Word = 8
INVARIANTS
    TypeOK
    LiveSlots
PROPERTY ImplementsSequence
