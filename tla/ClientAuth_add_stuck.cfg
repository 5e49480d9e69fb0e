SPECIFICATION FairSpec
CONSTANTS
    c1 = c1
    c2 = c2
    a1 = a1
    z1 = z1
    App = App
    NoWriter = NoWriter
    Callers <- OneCaller
    Adders <- OneAdder
    Closers <- NoOne
    RetryCount = 0
    MaxLost = 0
    MaxRefused = 0
    MaxExpiries = 0
PROPERTIES
    DeauthDelivered
CHECK_DEADLOCK FALSE
