SPECIFICATION Spec
CONSTANTS
    NoConn = NoConn
    Conns = {c1, c2, c3}
    Fds = {f1, f2}
    MaxConn = 2
    Callers = {t1, t2}
    MaxArrivals = 4
    MaxReplaced = 1
SYMMETRY Symmetry
CHECK_DEADLOCK FALSE
INVARIANTS CountCoversOpen BooksSettle CloseReported
