\* Two deploys of different topologies record their entries at the same time.
CONSTANTS
    Handlers = {h1, h2}
    Tools = {}
    Keys = {k1, k2}
    Records = {a}
    NoRecord = NoRecord
    Inodes = {i1, i2, i3, i4}
    NoFile = NoFile
    Empty = Empty
    Torn = Torn
    MaxUpdates = 2
    MaxFaults = 0
SPECIFICATION Spec
CHECK_DEADLOCK FALSE
PROPERTIES
    MergeKeepsOthers
