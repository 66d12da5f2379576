------------------------------- MODULE MCIocp -------------------------------
EXTENDS Iocp

Both == {"readable", "writable"}
Scenario(k1, k2, as, ts, int, a, n, f) ==
    [kind |-> [fd \in Fds |-> IF fd = "s1" THEN k1 ELSE k2], addrs |-> as, timers |-> ts,
     interest |-> int, adds |-> a, arrivals |-> n, faults |-> f]

\* A socket registered twice at one address or at two, or once with failures; two
\* sockets in one batch; a listener beside timers.
MCScenarios ==
    {Scenario("stream", "none", {"a1"}, {}, Both, 1, 1, 1),
     Scenario("stream", "none", {"a1"}, {}, Both, 2, 0, 1),
     Scenario("stream", "none", Addrs, {}, {"readable"}, 2, 1, 0),
     Scenario("stream", "stream", Addrs, {}, {"readable"}, 1, 1, 0),
     Scenario("dgram", "none", Addrs, {}, {}, 2, 1, 0),
     Scenario("dgram", "none", {"a1"}, {}, {}, 1, 2, 1),
     Scenario("listener", "none", {"a1"}, Timers, {}, 1, 1, 0)}
=============================================================================
