\* Two handler threads and a `cloudnet state clear`, with failing operations and deaths.
\* An inode for each name and each writer.
CONSTANTS
    Handlers = {h1, h2}
    Tools = {c1}
    Keys = {k1, k2}
    Records = {a, b}
    NoRecord = NoRecord
    Inodes = {i1, i2, i3, i4, i5}
    NoFile = NoFile
    Empty = Empty
    Torn = Torn
    MaxUpdates = 4
    MaxFaults = 2
SPECIFICATION Spec
SYMMETRY Symmetry
CHECK_DEADLOCK FALSE
INVARIANTS
    StoreTypeOK
    ReadableUnlessShared
PROPERTIES
    PublishedUnlessShared
    ImplementsMap
