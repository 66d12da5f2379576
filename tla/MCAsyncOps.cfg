SPECIFICATION Spec
CONSTANTS
    None = None
    Jobs <- MCJobs
    Fds <- MCFds
    Scenarios <- MCScenarios
    MaxTimers = 4
    MaxArrivals = 1
CHECK_DEADLOCK FALSE
INVARIANTS CompletesOnce TimersAccounted
PROPERTIES ConnectCompletes BackoffResumes
