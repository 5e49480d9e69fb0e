SPECIFICATION Spec
CONSTANTS
    c1 = c1
    c2 = c2
    a1 = a1
    z1 = z1
    App = App
    NoWriter = NoWriter
    Callers <- TwoCallers
    Adders <- OneAdder
    Closers <- OneCloser
    RetryCount = 1
    MaxLost = 1
    MaxRefused = 1
    MaxExpiries = 2
INVARIANTS
    TypeOK
    IInv
    RefreshIsAlone
    CarriesCurrentTokens
    HandlersCurrent
    Resumable
    NoSpuriousDeauth
    CallsFailForAReason
PROPERTIES
    ClosedStaysClosed
    CustodySpec
CHECK_DEADLOCK FALSE
