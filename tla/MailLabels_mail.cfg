SPECIFICATION Spec
CONSTANTS
    l1 = l1
    l2 = l2
    n1 = n1
    n2 = n2
    h1 = h1
    m1 = m1
    i1 = i1
    Root = Root
    Stray = Stray
    LabelIDs <- TwoLabels
    Names <- TwoNames
    Types <- LabelsAndFolders
    Handlers <- OneHandler
    MessageIDs <- OneMessage
    Imports <- OneImport
    Dedup = TRUE
    MaxImported = 2
    MaxListed = 1
SYMMETRY SameLabels
INVARIANTS
    TypeOK
    OnePlace
    Announced
CHECK_DEADLOCK FALSE
