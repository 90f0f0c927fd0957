\* What a panel shares with the App: the event stream, the composer, an upload
\* and the questions of a turn, one at a time.
SPECIFICATION MCSpec
CONSTANTS
    thread = thread
    account = account
    Scope = {thread, account}
    Chats = {thread}
    Chat = thread
    System = account
    TaskScopes = {account}
    None = None
    MaxRetained = 2
    BatchLimit = 2
    MaxEvents = 3
    HistorySize = 1
    QueueSize = 1
    MaxFaults = 1
    MaxSelects = 1
    Views = {"chat", "system"}
    thisTab = thisTab
    otherTab = otherTab
    chat1 = chat1
    chat2 = chat2
    Tab = {thisTab, otherTab}
    DraftChat = {chat1, chat2}
    Self = thisTab
    Here = chat1
    MaxRecords = 1
    MaxRevisions = 4
    MaxHorizon = 1
    MaxEdits = 2
    MaxMessages = 2
    MaxMishaps = 1
    Chunks = 3
    Attempts = 1
    MaxBreaks = 4
    approval = approval
    optional = optional
    panel1 = panel1
    panel2 = panel2
    Question = {approval, optional}
    Optional = {optional}
    Panel = {panel1, panel2}
    Answer = {"accept", "cancel"}
    Cancels = {"cancel"}
    MaxPosts = 2
    MaxUpsets = 1
INVARIANTS
    NoSilentGap
    FiredOnce
    NewestStays
    AcceptedOnce
    StoreFollowsComposer
    AttachedWhole
    NothingMissing
    OutcomeHonest
PROPERTIES
    CatchesUp
    UnsentKept
    EveryQuestionCloses
CHECK_DEADLOCK FALSE
