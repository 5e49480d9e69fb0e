SPECIFICATION Spec
CONSTANTS
    m1 = m1
    a1 = a1
    a2 = a2
    Items <- MailAndAddress
    MailItems <- TheMail
    AddressItems <- OneAddress
    First = a1
    Limits <- NoLimit
    MaxUpdates = 3
    MaxCollectedEvents = 2
    MaxFailures = 0
PROPERTIES
    NothingAfterClose
CHECK_DEADLOCK FALSE
