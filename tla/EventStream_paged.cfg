SPECIFICATION Spec
CONSTANTS
    m1 = m1
    a1 = a1
    a2 = a2
    Items <- MailAndTwoAddresses
    MailItems <- TheMail
    AddressItems <- TwoAddresses
    First = a1
    Limits <- OneAtATime
    MaxUpdates = 4
    MaxCollectedEvents = 2
    MaxFailures = 1
INVARIANTS
    TypeOK
    Converged
    PanicsHaveACause
PROPERTIES
    FeedSpec
