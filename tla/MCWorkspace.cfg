SPECIFICATION Spec
CONSTANTS
    Paths = {f1, f2}
    Edited = {f1}
    Texts = {e, t0, t1}
    Empty = e
    Written = {t0, t1}
    Named = {e}
    Absent = absent
    Start = t0
    Humans = {h}
    Agent = agent
    Nobody = nobody
    MaxEdits = 2
    MaxShadows = 2
    MaxCommits = 1
    MaxFailures = 1
    MaxRestarts = 1
INVARIANTS TypeOK Converged StaleMarked CommittingHasCommit CrashKeepsWork
PROPERTIES TakeoverKeepsAgentText OpenShadowKept
CHECK_DEADLOCK FALSE
