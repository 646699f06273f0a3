\* Two calls, one on a topology with three links and one on a topology with firewall
\* rules, two threads each, one mock provider: verdicts are right, in order, final and
\* complete while servers stop, the topology goes away and the database fails.
CONSTANTS
    a = a
    b = b
    links = links
    rules = rules
    Calls = {links, rules}
    Hosts = {a, b}
    Checks <- Layout
    MaxParallel = 2
    Streak = 1
    MaxDisturbances = 1
SPECIFICATION FairSpec
CHECK_DEADLOCK FALSE
INVARIANTS
    ValidationTypeOK
    PassedIsAnswered
    NoThreadOutlivesItsCall
    StreakIsServed
PROPERTIES
    ImplementsVerdictList
    VerdictsComplete
    CallsEndIfPingsAnswer
