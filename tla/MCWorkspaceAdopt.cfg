SPECIFICATION Spec
CONSTANTS
    Paths = {f1, f2}
    Edited = {f1}
    Texts = {e, t0, t1}
    Empty = e
    Written = {t0, t1}
    Named = {e, t0}
    Absent = absent
    Start = t0
    Humans = {h}
    Agent = agent
    Nobody = nobody
    MaxEdits = 3
    MaxShadows = 2
    MaxCommits = 1
    MaxFailures = 0
    MaxRestarts = 0
PROPERTIES AdoptionKeepsLiveText
CHECK_DEADLOCK FALSE
