SPECIFICATION Spec
CONSTANTS
    Plugins = {p1, p2, p3}
    PluginThread = plugin_thread
    Downloads = {d1}
    MaxThreads = 2
    MaxCalls = 3
    ReceiptTimeouts = TRUE
    None = None
SYMMETRY PluginSymmetry
INVARIANTS TypeOK AssignedThreadLive MapsAgree AcceptedJobsKept BusyCountExact
\* register_plugin and try_shrink_pool take E and T in opposite orders: callers
\* that do not wait for an unload to end can block for ever
CHECK_DEADLOCK FALSE
