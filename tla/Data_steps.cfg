SPECIFICATION DataSpec
CONSTANTS
    LabelIDs = {"l1", "l2", "l3"}
    Names = {"n1", "n2", "n3"}
    Types = {"label", "folder"}
    Root = "root"
    Handlers = {"g1"}
    Conns = {1, 2}
    Buf = 2
    DialLimits = {0, 1}
    Limits = {0, 1}
    MaxCalls = 2
    MaxIO = 2
    NoConn = 0
    Calls = {"q1", "q2", "q3"}
    Observers = {"o1", "o2"}
    Nobody = "nobody"
    Users = {"u1"}
    Logins = {"la", "lb"}
    UserOf <- OneUser
    SRPs = {"s1", "s2"}
    UIDs = {"a1", "a2", "a3"}
    Purges = {"p1"}
    MaxRefresh = 1
    Missing = "missing"
    AddressIDs = {"a1", "a2", "a3"}
    Orderers = {"h1"}
    MaxKeys = 1
    MaxOrdered = 3
    NoAddress = "none"
    Posters = {"h1", "h2"}
    CardsOf <- TwoAndOne
    Listers = {"k1"}
    ListSize = 2
    MaxPut = 1
    MaxEmails = 2
    CounterStart = 7
    Accounts = {"u1", "u2"}
    Requests = {1, 2, 3}
    Owner <- OwnerOf
    AttNames = {"n1"}
    MaxMail = 2
    MaxAtts = 2
    MaxLostAnswers = 1
    Deduplicate = TRUE
    Unasked = 0
    FileNames = {"attachment.bin", "a"}
    MaxParts = 2
    Emails = {"a", "b"}
    Groups = {"", "g"}
    Values = {"x", "y"}
    CardTypes = {"signed", "encrypted"}
    MaxFields = 4
    MaxUses = 2
    Recipients = {"a", "b"}
    Local = {"a"}
    Attachments = {"x"}
    MaxPackages = 2
    KeyAddresses = {"a", "b"}
    MaxUserKeys = 2
    MaxAddressKeys = 3
    Proxied = {"p", "q"}
    Verifiers = {"q"}
    Forgetful = {"p"}
    MaxTries = 1
    MaxRenewed = 2
    MaxErrors = 2
    Senders = {"a", "b", "c"}
    Limit = 1
    Window = 3
    Jitters = {0, 1}
    MaxWait = 3
    Attempts = 2
    LastTick = 8
    Listed = 5
    ChunkLen = 2
    MailSizes = {1, 2, 4}
    MaxSize = 3
    Ahead = 2
INVARIANTS
    LabelsIntact
    StatusIsTold
    SessionsExact
    StoreIntact
    ImportIntact
    PackagesFit
    KeysUsable
    ChunksAccounted
PROPERTIES
    NetObeys
    AddressesOrdered
    ContactsListed
    CardsIntact
    ProxyExact
    LimitKept
CHECK_DEADLOCK FALSE
