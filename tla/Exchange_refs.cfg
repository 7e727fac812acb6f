SPECIFICATION FileSpec
CONSTANTS
    p1 = p1
    p2 = p2
    p3 = p3
    f1 = f1
    f2 = f2
    f3 = f3
    Pages = {p1, p2, p3}
    FilePages = {p3}
    Accessed = {p1}
    Folios = {f1, f2, f3}
    Values = {0, 1}
    Workers = {w}
    Syscalls = {s}
    None = None
    Holders = {h}
    InitHome <- MCHome
    InitData <- MCData
    MaxTrials = 3
INVARIANT ReferencesExact
