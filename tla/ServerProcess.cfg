\* Two clients and three io threads.
SPECIFICATION FairSpec
CONSTANTS
    Session = {s1, s2}
    Io = {t1, t2, t3}
INVARIANTS IInv TypeOK MembersAlive CallbackWhole OneLogger
PROPERTIES LineEnds
CHECK_DEADLOCK FALSE
