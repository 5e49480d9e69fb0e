SPECIFICATION LabelsSpec
CONSTANTS
    l1 = l1
    l2 = l2
    l3 = l3
    n1 = n1
    n2 = n2
    n3 = n3
    h1 = h1
    h2 = h2
    Root = Root
    LabelIDs <- ThreeLabels
    Names <- ThreeNames
    Types <- LabelsAndFolders
    Handlers <- TwoHandlers
SYMMETRY Interchangeable
INVARIANTS
    NamesUnique
CHECK_DEADLOCK FALSE
