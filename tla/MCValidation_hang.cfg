\* One link and a ping that never answers: the verdict is recorded at the timeout, and the
\* call waits for its thread for ever.
CONSTANTS
    a = a
    b = b
    links = links
    rules = rules
    Calls = {links}
    Hosts = {a, b}
    Checks <- Layout
    MaxParallel = 2
    Streak = 0
    MaxDisturbances = 0
SPECIFICATION FairSpec
CHECK_DEADLOCK FALSE
PROPERTIES
    CallsEnd
