SPECIFICATION LiveSpec
CONSTANTS
    Caller = {call1}
    Watcher = {watch1}
    Shim = {shim1}
    MaxChanges = 3
INVARIANTS
    WatchIsCurrent
    NoListenerLeft
    MessageTakenOnce
PROPERTIES
    CallsSettle
CHECK_DEADLOCK FALSE
