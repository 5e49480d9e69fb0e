SPECIFICATION FairSpec
CONSTANTS
    m1 = m1
    a1 = a1
    a2 = a2
    Items <- OneAddress
    MailItems <- NoMail
    AddressItems <- OneAddress
    First = a1
    Limits <- TwoAtATime
    MaxUpdates = 4
    MaxCollectedEvents = 2
    MaxFailures = 1
PROPERTIES
    Delivered
    CancelEnds
