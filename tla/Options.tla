------------------------------- MODULE Options -------------------------------
(***************************************************************************)
(* socket_options (include/socketpp/socket/options.hpp) and how it is      *)
(* applied (src/socket/options.cpp).  The builder keeps its entries in a   *)
(* small_vector: the first ones in slots of raw memory inside the object,  *)
(* all of them on the heap once there are more.  Applying the options is a *)
(* list of steps, system calls that may each fail and a refusal that       *)
(* always does; the module Sockets executes the steps.                     *)
(***************************************************************************)
EXTENDS Integers, Sequences, FiniteSets, SequencesExt

CONSTANTS InlineSlots, \* N of small_vector, 16 in the code
          Builders,    \* variables of type socket_options
          MaxEntries,  \* bound on the entries of one of them
          None         \* raw memory, an object that does not exist, no value

ASSUME OptionsAssumption == InlineSlots \in Nat \ {0} /\ MaxEntries \in Nat

VARIABLES platform, \* the operating system
          entries,  \* [builder -> its entries_, None while it does not exist]
          hasReuse, \* [builder -> has_reuse_addr_]
          given,    \* history: [builder -> the entries it should have, in order]
          moved     \* history: builders whose flags are left over from what was moved out of them

builderVars == <<entries, hasReuse, given, moved>>

Platforms == {"linux", "macos", "windows"}
Posix == {"linux", "macos"}

OptionIds ==
    {"reuse_addr", "reuse_port", "exclusive_addr", "recv_buf", "send_buf", "tcp_nodelay",
     "tcp_cork", "tcp_notsent_lowat", "tcp_user_timeout", "tcp_fastopen", "tcp_defer_accept",
     "keep_alive", "keep_alive_idle", "keep_alive_interval", "keep_alive_count", "linger_opt",
     "ipv6_only", "ip_tos", "broadcast", "multicast_join", "multicast_leave", "multicast_ttl",
     "multicast_loop", "multicast_ttl_v6", "multicast_loop_v6", "multicast_if",
     "multicast_if_v6"}

\* The has_... constants the builder looks at.
Capability(p) ==
    [reuse_port        |-> p \in Posix,
     tcp_fastopen      |-> p \in Platforms,
     tcp_notsent_lowat |-> p \in Posix,
     tcp_cork          |-> p \in Posix,
     tcp_user_timeout  |-> p = "linux",
     tcp_defer_accept  |-> p = "linux"]

\* What the builder writes into platform_available.
Available(p, id) ==
    CASE id \in DOMAIN Capability(p) -> Capability(p)[id]
      [] id = "exclusive_addr" -> p = "windows"
      [] id = "keep_alive_count" -> p \in Posix
      [] OTHER -> TRUE

\* push_int, push_multicast and the builders that fill the entry themselves.
EntryFor(p, id, val) == [id |-> id, val |-> val, available |-> Available(p, id)]

-----------------------------------------------------------------------------
(* small_vector *)

\* inline: the slots, None where no element is constructed.
EmptyVector ==
    [inline |-> [i \in 1..InlineSlots |-> None], heap |-> <<>>, size |-> 0, onHeap |-> FALSE]

\* begin() and size().
Elements(v) ==
    [i \in 1..v.size |-> IF v.onHeap THEN v.heap[i] ELSE v.inline[i]]

DestroyInline(v) ==
    [v EXCEPT !.inline = [i \in 1..InlineSlots |->
                            IF ~v.onHeap /\ i <= v.size THEN None ELSE @[i]]]

Clear(v) ==
    [(IF v.onHeap THEN [v EXCEPT !.heap = <<>>] ELSE DestroyInline(v))
        EXCEPT !.size = 0, !.onHeap = FALSE]

\* A mutant of Spill: the elements in the slots are moved out and not destroyed.
SpillOnly(v) == [v EXCEPT !.heap = @ \o Elements(v), !.onHeap = TRUE]

Spill(v) ==
    [DestroyInline(v) EXCEPT !.heap = @ \o Elements(v), !.onHeap = TRUE]

HasRoom(v) == ~v.onHeap /\ v.size < InlineSlots

PushBack(v, x) ==
    LET w == IF v.onHeap THEN v ELSE Spill(v)
    IN IF HasRoom(v)
       THEN [v EXCEPT !.inline[v.size + 1] = x, !.size = @ + 1]
       ELSE [w EXCEPT !.heap = Append(@, x), !.size = @ + 1]

\* Elements constructed in the slots of v, which is empty.
Filled(v, o) ==
    [v EXCEPT !.size = o.size, !.onHeap = o.onHeap,
              !.heap = IF o.onHeap THEN o.heap ELSE @,
              !.inline = [i \in 1..InlineSlots |->
                            IF ~o.onHeap /\ i <= o.size THEN o.inline[i] ELSE @[i]]]

\* The copy constructor on EmptyVector, copy assignment on Clear(v).
CopyTo(v, o) == Filled(v, o)

\* The source of a move: its slots are destroyed and its vector moved out.
MovedFrom(o) ==
    [DestroyInline(o) EXCEPT !.heap = IF o.onHeap THEN <<>> ELSE @, !.size = 0, !.onHeap = FALSE]

MoveTo(v, o) == Filled(v, o)

-----------------------------------------------------------------------------
(* socket_options as a value: built, copied, moved and destroyed *)

Exists(b) == entries[b] # None

Becomes(b, v, g, reuse) ==
    /\ entries' = [entries EXCEPT ![b] = v]
    /\ given' = [given EXCEPT ![b] = g]
    /\ hasReuse' = [hasReuse EXCEPT ![b] = reuse]

Construct(b) ==
    /\ ~Exists(b)
    /\ Becomes(b, EmptyVector, <<>>, FALSE)
    /\ UNCHANGED <<platform, moved>>

\* A call of a builder method.
AddOption(b, id, val) ==
    LET e == EntryFor(platform, id, val)
    IN /\ Exists(b) /\ Len(given[b]) < MaxEntries
       /\ entries' = [entries EXCEPT ![b] = PushBack(@, e)]
       /\ given' = [given EXCEPT ![b] = Append(@, e)]
       /\ hasReuse' = [hasReuse EXCEPT ![b] = @ \/ id = "reuse_addr"]
       /\ UNCHANGED <<platform, moved>>

\* Assigned from such a builder, b has the left-over flags too.
Assigned(b, o) == (moved \ {b}) \cup (IF o \in moved THEN {b} ELSE {})

\* Copy construction of b, or assignment to it, from o.
CopyOptions(b, o) ==
    /\ b # o /\ Exists(o)
    /\ Becomes(b, CopyTo(IF Exists(b) THEN Clear(entries[b]) ELSE EmptyVector, entries[o]),
               given[o], hasReuse[o])
    /\ moved' = Assigned(b, o)
    /\ UNCHANGED platform

\* The same with a move; the flags of the source stay.
MoveOptions(b, o) ==
    /\ b # o /\ Exists(o)
    /\ entries' = [entries EXCEPT
           ![b] = MoveTo(IF Exists(b) THEN Clear(entries[b]) ELSE EmptyVector, entries[o]),
           ![o] = MovedFrom(entries[o])]
    /\ given' = [given EXCEPT ![b] = given[o], ![o] = <<>>]
    /\ hasReuse' = [hasReuse EXCEPT ![b] = hasReuse[o]]
    /\ moved' = Assigned(b, o) \cup {o}
    /\ UNCHANGED platform

Destroy(b) ==
    /\ Exists(b)
    /\ Becomes(b, None, <<>>, FALSE)
    /\ moved' = moved \ {b}
    /\ UNCHANGED platform

Building ==
    \E b \in Builders :
        \/ Construct(b) \/ Destroy(b)
        \/ \E id \in {"reuse_addr", "recv_buf"} : AddOption(b, id, Len(given[b]))
        \/ \E o \in Builders : CopyOptions(b, o) \/ MoveOptions(b, o)

-----------------------------------------------------------------------------
(* Applying *)

\* The switch of apply_entries by platform; the rest is option_not_supported.
Supported(p, id) ==
    CASE id \in {"reuse_port", "tcp_cork", "tcp_notsent_lowat", "keep_alive_count"} -> p \in Posix
      [] id = "exclusive_addr" -> p = "windows"
      [] id \in {"tcp_user_timeout", "tcp_defer_accept"} -> p = "linux"
      [] OTHER -> TRUE

IsMulticastEntry(e) == e.id \in {"multicast_join", "multicast_leave"}

\* One system call, or a refusal.
Step(op, id, val) == [op |-> op, id |-> id, val |-> val]

\* apply_multicast.
MulticastStep(id, group) ==
    Step(IF id = "multicast_join" THEN "join" ELSE "leave", "group", group)

\* A mutant of LastOf: the first value given is used.
LastOfFirst(es, id) ==
    LET vals == SelectSeq(es, LAMBDA e : e.id = id) IN IF vals = <<>> THEN None ELSE Head(vals).val

\* The last value given for an option, None if there is none.
LastOf(es, id) ==
    LET vals == SelectSeq(es, LAMBDA e : e.id = id) IN IF vals = <<>> THEN None ELSE Last(vals).val

\* apply_windows_keepalive: one call for both times, in seconds, which also turns
\* keep-alive on.
KeepaliveStep(idle, interval) ==
    Step("keepalive", "vals", [keep_alive |-> 1,
                               keep_alive_idle |-> IF idle = None THEN 7200 ELSE idle,
                               keep_alive_interval |-> IF interval = None THEN 1 ELSE interval])

\* The end of apply_entries on Windows.
KeepaliveSteps(p, es) ==
    LET idle == LastOf(es, "keep_alive_idle")
        interval == LastOf(es, "keep_alive_interval")
    IN IF p # "windows" \/ (idle = None /\ interval = None) THEN <<>>
       ELSE <<KeepaliveStep(idle, interval)>>

\* An entry of the loop; on Windows the keep-alive times are collected for later.
EntryStep(p, e) ==
    IF ~e.available \/ ~Supported(p, e.id) THEN Step("refuse", e.id, e.val)
    ELSE IF IsMulticastEntry(e) THEN MulticastStep(e.id, e.val)
    ELSE IF p = "windows" /\ e.id \in {"keep_alive_idle", "keep_alive_interval"}
         THEN Step("later", e.id, e.val)
    ELSE Step("set", e.id, IF p = "windows" /\ e.id = "tcp_fastopen" THEN 1 ELSE e.val)

EntrySteps(p, es) ==
    SelectSeq([i \in 1..Len(es) |-> EntryStep(p, es[i])], LAMBDA s : s.op # "later")

ApplyTo(p, es) == EntrySteps(p, es) \o KeepaliveSteps(p, es)

ApplyPreBind(p, es) == ApplyTo(p, SelectSeq(es, LAMBDA e : ~IsMulticastEntry(e)))

ApplyPostBind(p, es) == EntrySteps(p, SelectSeq(es, IsMulticastEntry))

\* Joins are undone in the order they were made.
LeaveAllMulticast(es) ==
    LET joins == SelectSeq(es, LAMBDA e : e.id = "multicast_join")
    IN [i \in 1..Len(joins) |-> MulticastStep("multicast_leave", joins[i].val)]

-----------------------------------------------------------------------------
(* Properties *)

\* The table of the builder, which decides when an entry is refused early, agrees
\* with the platform cases of apply_entries: no option is accepted by one and
\* refused by the other.
ASSUME TablesAgree == \A p \in Platforms, id \in OptionIds : Available(p, id) <=> Supported(p, id)

\* Whatever copies, moves and insertions were made, an options object has the
\* entries it was given, each once and in order, before and after the spill.
EntriesAsGiven == \A b \in Builders : Exists(b) => Elements(entries[b]) = given[b]

\* Raw memory holds an element exactly where size_ and on_heap_ say so: nothing is
\* destroyed twice, constructed over, or left behind when the vector moves to the heap.
SlotsAccounted ==
    \A b \in Builders : Exists(b) =>
        LET v == entries[b]
        IN /\ \A i \in 1..InlineSlots : v.inline[i] # None <=> ~v.onHeap /\ i <= v.size
           /\ v.heap # <<>> <=> v.onHeap
           /\ v.onHeap => Len(v.heap) = v.size

\* has_reuse_addr(), which decides whether an exclusive address is asked for on
\* Windows, is true when the entry is there, except in an object that was moved from
\* and in copies of that.
ReuseFlagCorrect ==
    \A b \in Builders \ moved : Exists(b) =>
        (hasReuse[b] <=> \E i \in 1..Len(given[b]) : given[b][i].id = "reuse_addr")

\* An options object is what was put into it, in its elements, in the memory they are
\* in and in its flag, after any copies, moves and the spill to the heap.
OptionsKept == EntriesAsGiven /\ SlotsAccounted /\ ReuseFlagCorrect
=============================================================================
