SPECIFICATION Spec
CONSTANTS
    daemon = daemon
    cli = cli
    None = None
    Process = {daemon, cli}
    MaxVersion = 3
    MaxBuild = 4
    Retain = 2
PROPERTY ActivationEndsRollback
