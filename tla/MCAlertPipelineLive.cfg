SPECIFICATION FairSpec
CONSTANTS
    daemon = daemon
    gui = gui
    monitor = monitor
    observer = observer
    window = window
    e1 = e1
    None = None
    Process = {daemon, gui}
    Thread = {monitor, observer, window}
    ProcOf <- ProcessOf
    Recorder = {monitor, window}
    Event = {e1}
    NotificationCapacity = 1
    EmergencyCapacity = 1
PROPERTIES
    LockReleased
