SPECIFICATION Spec
CONSTANTS
    daemon = daemon
    gui = gui
    monitor = monitor
    observer = observer
    window = window
    e1 = e1
    e2 = e2
    None = None
    Process = {daemon, gui}
    Thread = {monitor, observer, window}
    ProcOf <- ProcessOf
    Recorder = {monitor, window}
    Event = {e1, e2}
    NotificationCapacity = 1
    EmergencyCapacity = 1
INVARIANTS
    ReceiptBeforeRow
    CountNeverAhead
    PendingBounded
SYMMETRY EventSymmetry
