SPECIFICATION Spec
CONSTANTS
    NoConn = NoConn
    Conns = {c1, c2, c3, c4}
    Fds = {f1, f2, f3}
    MaxConn = 2
    Callers = {t1}
    MaxArrivals = 5
    MaxReplaced = 1
SYMMETRY Symmetry
CHECK_DEADLOCK FALSE
INVARIANT MaxConnections
