\* A chat whose events outnumber the retained ones.
SPECIFICATION PanelSpec
CONSTANTS
    thread = thread
    account = account
    Scope = {thread, account}
    Chats = {thread}
    Chat = thread
    System = account
    TaskScopes = {account}
    None = None
    BatchLimit = 2
    HistorySize = 1
    QueueSize = 1
    MaxSelects = 0
    Views = {"chat"}
    MaxFaults = 0
    MaxEvents = 3
    MaxRetained = 1
INVARIANTS
    TranscriptCurrent
CHECK_DEADLOCK FALSE
