SPECIFICATION FairTrafficSpec
CONSTANTS
    a = a
    b = b
    c = c
    k1 = k1
    k2 = k2
    Cmd = {a, b, c}
    NoCmd = NoCmd
    Call = {k1, k2}
    NoCall = NoCall
    CmdsOf <- MCSendAndSequence
    SequenceCall = {k2}
    CancellableCall = {}
    QueueSize = 2
    PromptGateway = TRUE
    RefusedPublish = FALSE
    ReportDuringReset = FALSE
    LinkMayDrop = TRUE
    MayDeinit = FALSE
INVARIANTS
    NoLostCommand
    AnswersMatch
    NothingSkipped
PROPERTIES
    CallsEnd
    WritesContinueQueue
    ImplementsOrder
