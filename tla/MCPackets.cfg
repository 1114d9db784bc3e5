SPECIFICATION Spec
CONSTANTS
    m1 = m1
    m2 = m2
    f1 = f1
    Msgs = {m1, m2}
    Contexts = {c1, c2, c3}
    Requests = {r1, r2}
    Flows = {f1}
    FlowOf <- MCFlowOf
    SkipMsgs = {m2}
    BatchSize = 1
    MaxRebuilt = 1
    DirtyPig = FALSE
    None = None
INVARIANTS EachMessageOnce FrontOffloaded SearchesSuspended  AllSettled
PROPERTIES StallEnds Terminates
