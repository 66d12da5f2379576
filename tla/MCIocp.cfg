SPECIFICATION Spec
CONSTANTS
    None = None
    Addrs = {"a1", "a2"}
    Fds = {"s1", "s2"}
    Scenarios <- MCScenarios
    Slots = {"slot1", "slot2"}
    Timers = {"once", "again"}
    Repeating = {"again"}
    Budget = 1
CHECK_DEADLOCK FALSE
INVARIANTS ArmedWhileInterested PendingIsInKernel DatagramsHandedOver
PROPERTIES TimersFireOrCancel ListenerServed
