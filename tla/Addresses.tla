------------------------------ MODULE Addresses ------------------------------
(***************************************************************************)
(* The pure functions the rest of the library branches on: IPv4 and IPv6   *)
(* addresses (src/net), the common error codes (src/platform/error.cpp)    *)
(* with result<T>, and buffer sizes (buf_profile.hpp).  They are checked   *)
(* against reference definitions over the sets that the constants give.    *)
(***************************************************************************)
EXTENDS Integers, Sequences, FiniteSets, Functions, FiniteSetsExt

CONSTANTS ByteVectors, \* IPv6 addresses: functions of 0..15 to bytes
          Numbers,     \* ports and scope ids
          Products     \* bandwidth times delay, in bytes

Words == UNION {[0..3 -> {b[12], b[13], b[14], b[15]}] : b \in ByteVectors}

-----------------------------------------------------------------------------
(* IPv6 *)

Inet4(ip, port) == [ip |-> ip, port |-> port]

Inet6(bytes, port, scope, flow) ==
    [bytes |-> bytes, port |-> port, scope |-> scope, flow |-> flow]

Inet6Addresses == {Inet6(b, p, s, f) : b \in ByteVectors, p \in Numbers, s \in Numbers, f \in {0, 1}}

IsV4Mapped(a) == (\A i \in 0..9 : a.bytes[i] = 0) /\ a.bytes[10] = 255 /\ a.bytes[11] = 255

\* Host order of the four bytes from 12 on; invalid_state is the empty set.
ToV4(a) == IF IsV4Mapped(a) THEN {Inet4([i \in 0..3 |-> a.bytes[12 + i]], a.port)} ELSE {}

\* memcmp on the bytes: the first difference decides.
BytesLess(b, c) == \E i \in 0..15 : b[i] < c[i] /\ \A j \in 0..(i - 1) : b[j] = c[j]

\* operator ==; the flow label does not count.
Inet6Equal(a, b) == a.bytes = b.bytes /\ a.port = b.port /\ a.scope = b.scope

\* operator <.
Inet6Less(a, b) ==
    \/ BytesLess(a.bytes, b.bytes)
    \/ a.bytes = b.bytes /\ a.port < b.port
    \/ a.bytes = b.bytes /\ a.port = b.port /\ a.scope < b.scope

\* What hash_value computes with.
HashInput(a) == <<a.bytes, a.port, a.scope>>

-----------------------------------------------------------------------------
(* Errors *)

\* The Windows codes WSAE... have the names without WSA; WSAEWOULDBLOCK is EAGAIN.
NormalizeError(p, e) ==
    CASE e = "EAGAIN" -> "would_block"
      [] e = "EINPROGRESS" -> "in_progress"
      [] e = "ECONNRESET" -> "connection_reset"
      [] e = "ECONNREFUSED" -> "connection_refused"
      [] e = "ECONNABORTED" -> "connection_aborted"
      [] e = "ENOTCONN" -> "not_connected"
      [] e = "EADDRINUSE" -> "address_in_use"
      [] e = "ENETUNREACH" -> "network_unreachable"
      [] e = "ETIMEDOUT" -> "timed_out"
      [] e = "EINTR" -> "interrupted"
      [] e = "EMFILE" -> "fd_limit_reached"
      [] e = "ENFILE" /\ p # "windows" -> "fd_limit_reached"
      [] OTHER -> e

\* What the system can report where the code waits for the condition.
Raised(p, condition) ==
    CASE condition = "no descriptor left" -> IF p = "windows" THEN {"EMFILE"} ELSE {"EMFILE", "ENFILE"}
      [] condition = "nothing to do now" -> {"EAGAIN"}
      [] condition = "connecting" -> IF p = "windows" THEN {"EAGAIN"} ELSE {"EINPROGRESS"}
      [] condition = "signal" -> {"EINTR"}

\* connect_impl turns would_block into in_progress.
ConnectError(p, e) ==
    IF NormalizeError(p, e) = "would_block" THEN "in_progress" ELSE NormalizeError(p, e)

-----------------------------------------------------------------------------
(* buf_profile *)

\* The conversion of a double to int.  Out of range it is undefined: the builds yield
\* the smallest int (x86) or the nearest one (ARM).
ToInt(x) == IF x >= 2147483647 THEN {-2147483647 - 1, 2147483647} ELSE {x}

\* The sizes that from_bdp may return for a product.
FromBdp(x) == {Max({4096, Min({n, 16777216})}) : n \in ToInt(x)}

-----------------------------------------------------------------------------
(* What the functions compute; TLC evaluates it for the given inputs *)

\* is_v4_mapped holds of exactly the addresses ::ffff:a.b.c.d, and to_v4 gives back
\* a.b.c.d and the port.
ASSUME MappedRoundTrip ==
    LET mapped(w) == [i \in 0..15 |-> IF i < 10 THEN 0 ELSE IF i < 12 THEN 255 ELSE w[i - 12]]
    IN \A a \in Inet6Addresses :
          ToV4(a) = {Inet4(w, a.port) : w \in {w \in Words : mapped(w) = a.bytes}}

\* As keys of the peer maps, IPv6 addresses that are equal hash alike, and the order
\* is total on the others: no two peers are merged or lost in a map, whatever their
\* scope ids and flow labels.
ASSUME KeysConsistent ==
    \A a, b \in Inet6Addresses :
        /\ Inet6Equal(a, b) => HashInput(a) = HashInput(b)
        /\ Inet6Equal(a, b) <=> ~Inet6Less(a, b) /\ ~Inet6Less(b, a)
        /\ ~(Inet6Less(a, b) /\ Inet6Less(b, a))

\* Each condition the code waits for has one code on every platform: the back-off of
\* the accept loop, the end of a drain, an asynchronous connect and a poll that was
\* interrupted are recognised whatever system error stands for them.
ASSUME ConditionsRecognised ==
    \A p \in {"linux", "macos", "windows"} :
        /\ \A e \in Raised(p, "no descriptor left") : NormalizeError(p, e) = "fd_limit_reached"
        /\ \A e \in Raised(p, "nothing to do now") : NormalizeError(p, e) = "would_block"
        /\ \A e \in Raised(p, "connecting") : ConnectError(p, e) = "in_progress"
        /\ \A e \in Raised(p, "signal") : NormalizeError(p, e) = "interrupted"

\* Every product gives a buffer size from 4 KB to 16 MB, the undefined conversion of
\* a huge one included; a larger product gives no smaller buffer as long as it is an int.
ASSUME BufferInRange ==
    \A x, y \in Products :
        /\ FromBdp(x) \subseteq 4096..16777216
        /\ x <= y /\ y < 2147483647 => \A m \in FromBdp(x), n \in FromBdp(y) : m <= n
=============================================================================
