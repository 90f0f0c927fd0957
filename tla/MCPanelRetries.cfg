\* A chat whose event subscription is closed by the App.
SPECIFICATION PanelFairSpec
CONSTANTS
    thread = thread
    account = account
    Scope = {thread, account}
    Chats = {thread}
    Chat = thread
    System = account
    TaskScopes = {account}
    None = None
    BatchLimit = 2
    HistorySize = 1
    QueueSize = 1
    MaxSelects = 0
    Views = {"chat"}
    MaxFaults = 1
    MaxEvents = 1
    MaxRetained = 3
PROPERTIES
    PollingRetries
CHECK_DEADLOCK FALSE
