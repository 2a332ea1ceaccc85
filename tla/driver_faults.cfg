SPECIFICATION Spec
CONSTANTS
    a = a
    b = b
    c = c
    k1 = k1
    k2 = k2
    k3 = k3
    Cmd = {a, b, c}
    NoCmd = NoCmd
    Call = {k1, k2}
    NoCall = NoCall
    CmdsOf <- MCBatchAndSend
    SequenceCall = {k2}
    CancellableCall = {k1, k2}
    QueueSize = 2
    PromptGateway = FALSE
    RefusedPublish = TRUE
    ReportDuringReset = FALSE
    LinkMayDrop = TRUE
    MayDeinit = TRUE
INVARIANTS
    NotInterleaved
    WrongAnswerIsLate
