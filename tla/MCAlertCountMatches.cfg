SPECIFICATION Spec
CONSTANTS
    daemon = daemon
    gui = gui
    monitor = monitor
    observer = observer
    window = window
    e1 = e1
    None = None
    Process = {daemon}
    Thread = {monitor, observer}
    ProcOf <- ProcessOf
    Recorder = {monitor}
    Event = {e1}
    NotificationCapacity = 1
    EmergencyCapacity = 1
ACTION_CONSTRAINT
    HasCaller
INVARIANTS
    CountMatchesReceipts
