CONSTANTS
    Threads = {t1, t2}
    f1 = f1
    f2 = f2
    Funcs = {f1, f2}
    StackBytes <- MCStackBytes
    Pipeline = Pipeline
    Sizes = {0, 1, 2}
    MaxAllocs = 2
    MaxFailures = 1
SPECIFICATION FairSpec
INVARIANTS
    PeakExact
    CurrentExact
PROPERTIES
    CallsEnd
