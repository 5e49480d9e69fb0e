SPECIFICATION FairSpec
CONSTANTS
    c1 = c1
    c2 = c2
    a1 = a1
    z1 = z1
    App = App
    NoWriter = NoWriter
    Callers <- TwoCallers
    Adders <- NoOne
    Closers <- NoOne
    RetryCount = 1
    MaxLost = 1
    MaxRefused = 1
    MaxExpiries = 1
PROPERTIES
    CallsReturn
    DeauthDelivered
