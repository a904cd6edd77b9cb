SPECIFICATION FairSpec
CONSTANTS
    Plugins = {p1, p2, p3}
    PluginThread = plugin_thread
    Downloads = {}
    MaxThreads = 3
    MaxCalls = 5
    ReceiptTimeouts = FALSE
    None = None
INVARIANTS ReceiptsTrue
PROPERTIES CallsReturn DroppedPoolStops
