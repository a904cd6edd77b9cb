SPECIFICATION Spec
CONSTANTS
    Plugins = {p1, p2}
    PluginThread = plugin_thread
    Downloads = {d1}
    MaxThreads = 2
    MaxCalls = 2
    ReceiptTimeouts = FALSE
    None = None
INVARIANTS NoLockCycle
CHECK_DEADLOCK FALSE
