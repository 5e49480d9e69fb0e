SPECIFICATION Spec
CONSTANTS
    l1 = l1
    l2 = l2
    l3 = l3
    r1 = r1
    AllMail = AllMail
    Inbox = Inbox
    Nothing = Nothing
    UserLabels <- ThreeLabels
    Readers <- OneReader
INVARIANTS
    AnswersAreTrue
