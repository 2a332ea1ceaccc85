SPECIFICATION MCSpec
CONSTANTS
    c1 = c1
    c2 = c2
    Request = {r1}
    Batch = {b1}
    Scan = {s1, s2}
    Control = {c1, c2}
    MaxMessage = 3
    ControlOf <- MCControlOf
    MaxInputs = 3
    NoTask = NoTask
INVARIANTS
    QueuedOnce
    ScanKnown
PROPERTIES
    ConfirmedInOrder
    TasksEnd
    MessagesServed
CHECK_DEADLOCK FALSE
