------------------------------ MODULE MCDgram -------------------------------
EXTENDS Dgram

Scenario(a1, a2, n, m, e) ==
    [addr |-> [p \in Peers |-> IF p = "p1" THEN a1 ELSE a2], datagrams |-> n, moves |-> m,
     errors |-> e]

\* Two peers of one address, two of two addresses, and pausing and failing reads
\* without peers.
MCScenarios ==
    {Scenario("a", "a", 2, 1, 0), Scenario("a", "b", 2, 1, 0), Scenario(None, None, 4, 3, 1)}
=============================================================================
