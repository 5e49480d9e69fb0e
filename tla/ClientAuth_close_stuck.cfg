SPECIFICATION FairSpec
CONSTANTS
    c1 = c1
    c2 = c2
    a1 = a1
    z1 = z1
    App = App
    NoWriter = NoWriter
    Callers <- OneCaller
    Adders <- NoOne
    Closers <- OneCloser
    RetryCount = 0
    MaxLost = 0
    MaxRefused = 0
    MaxExpiries = 1
PROPERTIES
    CloseReturns
CHECK_DEADLOCK FALSE
