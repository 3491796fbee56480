\* DUP's slot, REGRESS's state machine, the ownership of address lists, the
\* symbol pointers and the supervisor's table.
SPECIFICATION Spec
CONSTANTS
    t1 = t1
    t2 = t2
    DupThreads <- MCThreads
    DupFds <- MCFds
    DupSockets = 3
    MaxMessages = 2
    MaxReplaces = 1
    RgThreads <- MCThreads
    MaxRules = 2
    MaxLookups = 2
    MaxNodes = 3
    MaxOwned = 1
    OnceThreads <- MCThreads
    Symbols = 2
    Signals = FALSE
    MaxOnceCalls = 5
    MaxOnceForks = 1
    Pids = {1, 2, 3}
    First = 1
    Capacity = 2
    Eager = 1
    RuleFiles <- MCFiles
    MaxImages = 4
    MaxCalls = 4
    Scenes <- MCScenes
INVARIANTS SymbolsAreWhole ReplaysAreOwn OneJump FreedOnce ResultsAreWhole HitsAddUp CountersStayInTheFamily
CHECK_DEADLOCK FALSE
