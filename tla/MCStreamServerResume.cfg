SPECIFICATION Spec
CONSTANTS
    NoConn = NoConn
    Conns = {c1}
    Fds = {f1}
    MaxConn = 0
    Callers = {t1, t2, t3}
    MaxArrivals = 4
    MaxReplaced = 1
SYMMETRY Symmetry
CHECK_DEADLOCK FALSE
INVARIANT ResumeAccepts
