SPECIFICATION ScannerSpec
CONSTANTS
    daemon = daemon
    None = None
    Process = {daemon}
    MaxVersion = 2
    MaxBuild = 3
    Retain = 2
PROPERTIES
    ScannerCatchesUp
