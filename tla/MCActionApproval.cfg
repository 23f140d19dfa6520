SPECIFICATION FairSpec
CONSTANTS
    MaxAsks = 2
    MaxUses = 1
    MaxRestarts = 1
    Faults = {"ask", "reply", "node", "persist"}
INVARIANT TypeOK
INVARIANT GrantNeedsApproval
INVARIANT GrantHasTimer
INVARIANT AppliedOnce
PROPERTY ImplementsPermit
PROPERTY ResumedUnlessDisturbed
CHECK_DEADLOCK FALSE
