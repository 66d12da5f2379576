------------------------------ MODULE Transfers ------------------------------
(***************************************************************************)
(* Sending and receiving on one socket from several threads: tcp_socket    *)
(* (src/socket/tcp.cpp) and udp_socket_base (src/socket/udp.cpp).  A call  *)
(* tests that the socket is open, takes the spin lock of its direction,    *)
(* makes one system call with lengths converted to the types of the        *)
(* platform, and returns.  Batches are one system call on Linux, which     *)
(* takes no lock, and a loop over single calls elsewhere.  The bytes of    *)
(* the buffers of a call are numbered in order.                            *)
(***************************************************************************)
EXTENDS Integers, Sequences, FiniteSets, SequencesExt

CONSTANTS Callers,
          IntMax,        \* INT_MAX and ULONG_MAX of Windows, scaled down
          ULongMax,
          MaxDatagram,   \* the largest datagram the kernel sends
          Cases,         \* the calls, the datagrams and errors that arrive, and whether
                         \* the socket is read through the IOCP dispatcher
          NoCall

ASSUME TransfersAssumption ==
    /\ IntMax \in Nat /\ MaxDatagram \in Nat
    /\ ULongMax = 2 * IntMax + 1 /\ MaxDatagram < IntMax

VARIABLES case,   \* the case, with its platform
          open,
          lock,   \* [direction -> who holds its spin lock, or NoCall]
          thread, \* [caller -> its call or NoCall]
          net,    \* what arrives at a UDP socket: the length of a datagram, or -1, an error
          taken,  \* history: how many of these the kernel has handed over
          done    \* history: the calls that returned

transferVars == <<case, open, lock, thread, net, taken, done>>

Sending == {"send", "send_iov", "send_to", "send_to_iov", "send_batch"}
Direction(kind) == IF kind \in Sending THEN "out" ELSE "in"
Stream == {"send", "recv", "send_iov", "recv_iov"}
Batches == {"recv_batch", "send_batch"}
Total(lens) == FoldSeq(LAMBDA x, y : x + y, 0, lens)

-----------------------------------------------------------------------------
(* What the kernel is told *)

\* A mutant of TcpIovLength: the limit of the other calls is used.
TcpIovLengthInt(len) == IF case.platform = "windows" THEN Min({len, IntMax}) ELSE len

\* send_iov and recv_iov of TCP.
TcpIovLength(len) == IF case.platform = "windows" THEN Min({len, ULongMax}) ELSE len

\* send_to_iov_raw and recv_from_iov_raw: the low 32 bits.
UdpIovLength(len) == IF case.platform = "windows" THEN len % (ULongMax + 1) ELSE len

\* send, recv, send_to_raw and recv_from_raw.
PlainLength(len) == IF case.platform = "windows" THEN Min({len, IntMax}) ELSE len

KernelLength(kind, len) ==
    CASE kind \in {"send_iov", "recv_iov"} -> TcpIovLength(len)
      [] kind \in {"send_to_iov", "recv_from_iov"} -> UdpIovLength(len)
      [] OTHER -> PlainLength(len)

\* The numbers of the bytes that are in the buffers as the kernel sees them: of a
\* buffer of len bytes the first KernelLength(kind, len).
Visible(kind, lens) ==
    FlattenSeq([i \in 1..Len(lens) |->
        [j \in 1..KernelLength(kind, lens[i]) |-> Total(SubSeq(lens, 1, i - 1)) + j]])

-----------------------------------------------------------------------------
\* What recv_from_raw can get: with a dispatcher_ the datagrams of dgram_queue, to
\* which a receive that failed adds nothing.
Source == IF case.dispatched THEN SelectSeq(case.net, LAMBDA x : x # -1) ELSE case.net

TransferInit ==
    /\ case \in Cases
    /\ open = TRUE
    /\ lock = [d \in {"in", "out"} |-> NoCall]
    /\ thread = [c \in Callers |-> NoCall]
    /\ net = Source
    /\ taken = 0
    /\ done = {}

\* lens: of a batch, the lengths of its entries; else of the buffers of the call.
StartCall(c, kind, lens) ==
    /\ thread[c] = NoCall
    /\ \A d \in done : d.caller # c
    /\ thread' = [thread EXCEPT ![c] =
           [caller |-> c, kind |-> kind, lens |-> lens, pc |-> "check", out |-> <<>>, n |-> 0]]
    /\ UNCHANGED <<case, open, lock, net, taken, done>>

In(c, pc) == thread[c] # NoCall /\ thread[c].pc = pc
OneCall(kind) == kind \in Batches /\ case.platform = "linux"

Returning(c, n) == [thread EXCEPT ![c].pc = "return", ![c].n = n]

\* A call on a closed socket is invalid_state.
CheckOpen(c) ==
    /\ In(c, "check")
    /\ thread' = IF ~open THEN Returning(c, -1)
                 ELSE [thread EXCEPT ![c].pc = IF OneCall(thread[c].kind) THEN "call" ELSE "lock"]
    /\ UNCHANGED <<case, open, lock, net, taken, done>>

\* spin_guard; the loop around a failed exchange is waiting.
Lock(c) ==
    LET d == Direction(thread[c].kind)
    IN /\ In(c, "lock") /\ lock[d] = NoCall
       /\ lock' = [lock EXCEPT ![d] = c]
       /\ thread' = [thread EXCEPT ![c].pc = "call"]
       /\ UNCHANGED <<case, open, net, taken, done>>

Unlock(c) ==
    lock' = [d \in {"in", "out"} |-> IF lock[d] = c THEN NoCall ELSE lock[d]]

-----------------------------------------------------------------------------
(* The system calls *)

Fails(c) ==
    /\ In(c, "call") /\ thread[c].kind \notin Batches
    /\ thread[c].kind \in Stream \cup Sending
    /\ thread' = Returning(c, -1)
    /\ Unlock(c)
    /\ UNCHANGED <<case, open, net, taken, done>>

\* Some bytes of a stream: the first ones the kernel sees.
StreamCall(c, kind) ==
    LET bytes == Visible(kind, thread[c].lens)
    IN /\ In(c, "call") /\ thread[c].kind = kind
       /\ \E n \in 0..Len(bytes) :
             thread' = [Returning(c, n) EXCEPT ![c].out = SubSeq(bytes, 1, n)]
       /\ Unlock(c)
       /\ UNCHANGED <<case, open, net, taken, done>>

Send(c) == StreamCall(c, "send")
Recv(c) == StreamCall(c, "recv")
SendIov(c) == StreamCall(c, "send_iov")
RecvIov(c) == StreamCall(c, "recv_iov")

\* One datagram out of all the buffers; the kernel refuses one that is too long.
SendDatagram(c, kind) ==
    LET bytes == Visible(kind, thread[c].lens)
    IN /\ In(c, "call") /\ thread[c].kind = kind
       /\ Len(bytes) <= MaxDatagram
       /\ thread' = [Returning(c, Len(bytes)) EXCEPT ![c].out = bytes]
       /\ Unlock(c)
       /\ UNCHANGED <<case, open, net, taken, done>>

SendTo(c) == SendDatagram(c, "send_to")
SendToIov(c) == SendDatagram(c, "send_to_iov")

\* The next datagram, or the error that is pending, or would_block, which is all that
\* retrieve_dgram fails with.  A datagram longer than the buffers is cut; on Windows
\* that is an error of recvfrom, and the datagrams of the cases fit.
RecvDatagram(c, kind) ==
    LET r == thread[c]
        room == Total([i \in 1..Len(r.lens) |-> KernelLength(kind, r.lens[i])])
    IN /\ In(c, "call") /\ r.kind = kind
       /\ IF net = <<>> \/ Head(net) = -1
          THEN thread' = Returning(c, -1)
          ELSE thread' = [Returning(c, Min({Head(net), room})) EXCEPT ![c].out = <<taken + 1>>]
       /\ net' = IF net = <<>> THEN net ELSE Tail(net)
       /\ taken' = IF net = <<>> THEN taken ELSE taken + 1
       /\ Unlock(c)
       /\ UNCHANGED <<case, open, done>>

RecvFrom(c) == RecvDatagram(c, "recv_from")
RecvFromIov(c) == RecvDatagram(c, "recv_from_iov")

-----------------------------------------------------------------------------
(* Batches *)

\* recvmmsg: an error after the first message stays pending.
RecvBatchLinux(c) ==
    LET r == thread[c]
        errors == {i \in 1..Len(net) : net[i] = -1}
        n == Min({Len(r.lens), Len(net)} \cup {i - 1 : i \in errors})
        first == net # <<>> /\ Head(net) = -1
        used == IF first THEN 1 ELSE n
    IN /\ In(c, "call") /\ r.kind = "recv_batch" /\ case.platform = "linux"
       /\ thread' = [Returning(c, IF n = 0 THEN -1 ELSE n)
                        EXCEPT ![c].out = [i \in 1..n |-> taken + i]]
       /\ net' = SubSeq(net, used + 1, Len(net))
       /\ taken' = taken + used
       /\ UNCHANGED <<case, open, lock, done>>

\* sendmmsg: as many as the kernel takes.
SendBatchLinux(c) ==
    LET r == thread[c]
    IN /\ In(c, "call") /\ r.kind = "send_batch" /\ case.platform = "linux"
       /\ \E n \in 0..Len(r.lens) :
             thread' = [Returning(c, IF n = 0 THEN -1 ELSE n)
                           EXCEPT ![c].out = [i \in 1..n |-> i]]
       /\ UNCHANGED <<case, open, lock, net, taken, done>>

\* A mutant of FallbackFailed: the error of a later message is the result.
FallbackFailedAlways(c) == Returning(c, -1)

\* The loop ends at an error: the result of the call if it is the first message.
FallbackFailed(c) ==
    LET sofar == Len(thread[c].out) IN Returning(c, IF sofar = 0 THEN -1 ELSE sofar)

\* A message more; the next one takes the lock anew.
FallbackWent(c, item) ==
    LET out == Append(thread[c].out, item)
    IN [thread EXCEPT ![c].out = out, ![c].n = Len(out),
                      ![c].pc = IF Len(out) = Len(thread[c].lens) THEN "return" ELSE "check"]

RecvBatchFallback(c) ==
    /\ In(c, "call") /\ thread[c].kind = "recv_batch" /\ case.platform # "linux"
    /\ thread' = IF net = <<>> \/ Head(net) = -1 THEN FallbackFailed(c)
                 ELSE FallbackWent(c, taken + 1)
    /\ net' = IF net = <<>> THEN net ELSE Tail(net)
    /\ taken' = IF net = <<>> THEN taken ELSE taken + 1
    /\ Unlock(c)
    /\ UNCHANGED <<case, open, done>>

SendBatchFallback(c) ==
    /\ In(c, "call") /\ thread[c].kind = "send_batch" /\ case.platform # "linux"
    /\ \/ thread' = FallbackFailed(c)
       \/ thread' = FallbackWent(c, Len(thread[c].out) + 1)
    /\ Unlock(c)
    /\ UNCHANGED <<case, open, net, taken, done>>

\* The owner closes the socket between calls.
CloseSocket ==
    /\ open /\ \A c \in Callers : thread[c] = NoCall
    /\ open' = FALSE
    /\ UNCHANGED <<case, lock, thread, net, taken, done>>

ReturnCall(c) ==
    /\ In(c, "return")
    /\ done' = done \cup {thread[c]}
    /\ thread' = [thread EXCEPT ![c] = NoCall]
    /\ UNCHANGED <<case, open, lock, net, taken>>

TransferStep(c) ==
    \/ CheckOpen(c) \/ Lock(c) \/ Fails(c)
    \/ Send(c) \/ Recv(c) \/ SendIov(c) \/ RecvIov(c)
    \/ SendTo(c) \/ SendToIov(c) \/ RecvFrom(c) \/ RecvFromIov(c)
    \/ RecvBatchLinux(c) \/ SendBatchLinux(c) \/ RecvBatchFallback(c) \/ SendBatchFallback(c)
    \/ ReturnCall(c)

TransferNext ==
    \/ CloseSocket
    \/ \E c \in Callers : \E call \in case.calls : StartCall(c, call[1], call[2])
    \/ \E c \in Callers : TransferStep(c)

\* A caller goes on with its call.
TransferSpec ==
    TransferInit /\ [][TransferNext]_transferVars
    /\ \A c \in Callers : WF_transferVars(TransferStep(c))

-----------------------------------------------------------------------------
(* Properties *)

Big(d) == {i \in 1..Len(d.lens) : case.platform = "windows" /\ d.lens[i] > ULongMax}

\* When a stream call reports n bytes these are the first n of its buffers, although
\* lengths are clamped to what the platform can express: the caller goes on at byte
\* n + 1.  The exception is a buffer over 4 GiB on Windows with another one after it.
ReportsPrefix ==
    \A d \in done : d.kind \in Stream /\ d.n >= 0 /\ Big(d) \subseteq {Len(d.lens)} =>
        d.out = [i \in 1..d.n |-> i]

\* A datagram that is reported sent is the whole of what the caller gave, and one that
\* is too long is an error.  The exception is again a buffer over 4 GiB on Windows,
\* whose length the scatter calls of UDP cut without clamping.
SentWhole ==
    \A d \in done : d.kind \in {"send_to", "send_to_iov"} /\ d.n >= 0 /\ Big(d) = {} =>
        d.n = Total(d.lens) /\ Len(d.out) = d.n

\* What a sending or receiving call reports is what it did.
SentAsReported == ReportsPrefix /\ SentWhole

Receiving == {"recv_from", "recv_from_iov", "recv_batch"}
Reported(d) ==
    IF d.kind = "recv_batch" THEN {d.out[i] : i \in 1..d.n} ELSE IF d.n < 0 THEN {} ELSE ToSet(d.out)
Quiet == \A c \in Callers : thread[c] = NoCall

\* Each datagram that was taken from the socket is reported by exactly one call, also
\* when a batch ends early and when batches of two threads interleave.
DatagramsReported ==
    Quiet => \A k \in 1..taken : Source[k] # -1 =>
        Cardinality({d \in done : d.kind \in Receiving /\ k \in Reported(d)}) = 1

\* On Linux each error that was pending is the result of a call.  Elsewhere a batch
\* that has received something swallows the one that ends it, and those that the
\* dispatcher met are known to no call.
ErrorsReported ==
    Quiet => LET errors == {k \in 1..taken : Source[k] = -1}
                 failed == {d \in done : d.kind \in Receiving /\ d.n = -1}
                 short == {d \in done : d.kind = "recv_batch" /\ d.n \in 1..(Len(d.lens) - 1)}
             IN Cardinality(errors) <= Cardinality(failed)
                    + (IF case.platform = "linux" THEN 0 ELSE Cardinality(short))

\* Nothing that was taken from the socket, datagram or error, goes unreported.
ReceivedIsReported == DatagramsReported /\ ErrorsReported
=============================================================================
