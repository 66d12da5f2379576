------------------------------ MODULE MCSockets ------------------------------
(***************************************************************************)
(* Sockets with Options, and Transfers, on small instances.  Scenarios:    *)
(* options being built on their own; one kind of socket in two threads     *)
(* with options that repeat, with options some platforms lack, with        *)
(* groups.  A behaviour is either one of Sockets or one of Transfers; the  *)
(* other is idle.  The functions of Addresses are checked in passing.      *)
(***************************************************************************)
EXTENDS Sockets, Transfers, Addresses

MCOpen(kinds, options, n, f) ==
    [platforms |-> Platforms, building |-> FALSE, kinds |-> kinds, options |-> options,
     calls |-> n, faults |-> f]

KeepAlive == <<<<"keep_alive", 0>>, <<"keep_alive_idle", 60>>, <<"keep_alive_idle", 30>>>>

MCIdle ==
    [platforms |-> {"linux"}, building |-> FALSE, kinds |-> {}, options |-> <<>>,
     calls |-> 0, faults |-> 0]

MCScenarios ==
    {MCIdle,
     [platforms |-> {"linux"}, building |-> TRUE, kinds |-> {}, options |-> <<>>,
      calls |-> 0, faults |-> 0],
     MCOpen({"listener", "accept"}, <<<<"reuse_addr", 0>>>>, 2, 1),
     MCOpen({"listener", "accept_from"}, KeepAlive, 2, 1),
     MCOpen({"connector"}, <<<<"recv_buf", 1>>, <<"tcp_cork", 1>>, <<"recv_buf", 2>>>>, 2, 1),
     MCOpen({"connector", "peer"}, <<<<"tcp_fastopen", 5>>>>, 2, 1),
     MCOpen({"udp", "dispatcher"}, <<<<"exclusive_addr", 1>>>>, 2, 1),
     MCOpen({"udp", "leave"}, <<<<"multicast_join", 1>>, <<"multicast_join", 2>>>>, 2, 1),
     MCOpen({"udp", "leave"}, <<<<"multicast_join", 1>>, <<"multicast_leave", 1>>>>, 2, 0),
     MCOpen({"dgram", "claimed"}, <<<<"recv_buf", 1>>>>, 2, 2)}

\* Zero, loopback, mapped, nearly mapped, and link-local.
MCByteVectors ==
    LET zero == [i \in 0..15 |-> 0]
        mapped == [zero EXCEPT ![10] = 255, ![11] = 255, ![12] = 127, ![15] = 1]
    IN {zero, [zero EXCEPT ![15] = 1], mapped, [mapped EXCEPT ![12] = 0],
        [mapped EXCEPT ![9] = 1], [mapped EXCEPT ![11] = 254],
        [zero EXCEPT ![0] = 254, ![1] = 128]}

MCProducts == {0, 4095, 4096, 4097, 1000000, 16777215, 16777216, 16777217, 2147483646, 2147483647}

MCIdleCase == [platform |-> "linux", dispatched |-> FALSE, net |-> <<>>, calls |-> {}]

MCCases ==
    {MCIdleCase}
    \cup
    [platform : Platforms, dispatched : {FALSE}, net : {<<>>},
     calls : {{<<"send", <<5>>>>, <<"recv", <<2>>>>, <<"send_iov", <<5, 1>>>>,
               <<"recv_iov", <<2, 9>>>>},
              {<<"send_to", <<5>>>>, <<"send_to", <<2>>>>, <<"send_to_iov", <<1, 1>>>>,
               <<"send_to_iov", <<9>>>>, <<"send_batch", <<1, 1>>>>}}]
    \cup
    [platform : Platforms, dispatched : {FALSE}, net : {<<1, 1, -1, 1>>, <<-1, 1>>},
     calls : {{<<"recv_from", <<2>>>>, <<"recv_from_iov", <<1, 1>>>>,
               <<"recv_batch", <<1, 1, 1>>>>}}]
    \cup
    [platform : {"windows"}, dispatched : {TRUE}, net : {<<1, -1, 1>>},
     calls : {{<<"recv_from", <<2>>>>, <<"recv_batch", <<1, 1, 1>>>>}}]

\* One of the two is idle.
MCInit == Init /\ TransferInit /\ (limits = MCIdle <=> case # MCIdleCase)

MCNext ==
    \/ limits # MCIdle /\ Next /\ UNCHANGED transferVars
    \/ case # MCIdleCase /\ TransferNext /\ UNCHANGED vars

MCSpec == MCInit /\ [][MCNext]_<<vars, transferVars>>
=============================================================================
