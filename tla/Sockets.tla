------------------------------- MODULE Sockets -------------------------------
(***************************************************************************)
(* Making and owning descriptors: the socket class (src/socket/socket.cpp),*)
(* and everything that opens one and configures it call by call: listener, *)
(* connector, UDP socket, connected UDP socket, accepted connection, the   *)
(* socket of a dgram and the descriptors of a dispatcher.  An open is a    *)
(* list of steps taken from the code of its platform; any system call may  *)
(* fail.  Two threads work with different objects and share the            *)
(* descriptor table, so a number that one closes the other may get.        *)
(***************************************************************************)
EXTENDS Options

CONSTANTS Threads,
          Objects,   \* variables of type socket, tcp_listener, udp_socket, ...
          Fds,       \* descriptors
          Scenarios  \* the platform, the options, the kinds of calls, and bounds on the
                     \* number of calls and of failures; or the building of options

VARIABLES limits,  \* the scenario
          file,    \* [descriptor -> what was done to it, None if it is closed]
          obj,     \* [object -> its descriptors, what it is and with which options]
          call,    \* [thread -> the call in progress or None]
          loose,   \* descriptors that release() gave to the program
          calls,   \* number of calls so far
          faults   \* number of system calls that failed

sockVars == <<file, obj, call, loose, calls, faults>>
vars == <<limits, platform, builderVars, sockVars>>

Closed == [fds |-> {}, kind |-> "none", opts |-> <<>>]

-----------------------------------------------------------------------------
(* The steps of each call *)

Do(op) == <<Step(op, None, None)>>
Set(id, val) == <<Step("set", id, val)>>
Flag(f) == <<Step("flag", f, None)>>
TryFlag(f) == <<Step("tryflag", f, None)>>

\* The descriptor is made, with flags; from adopt on it belongs to the object.
Open(flags) == <<Step("open", "flags", flags)>>
Adopt == Do("adopt")

\* socket::create.
Create(p) ==
    CASE p = "linux" -> Open({"nonblock", "cloexec"})
      [] p = "macos" -> Open({}) \o Flag("cloexec") \o Flag("nonblock") \o Flag("nosigpipe")
      [] p = "windows" -> Open({"cloexec"}) \o Flag("nonblock")

\* The result for SO_REUSEPORT is not looked at.
ShareAddress(p) ==
    IF p \in Posix THEN Set("reuse_addr", 1) \o <<Step("try", "reuse_port", 1)>> ELSE <<>>

HasReuse(es) == \E i \in 1..Len(es) : es[i].id = "reuse_addr"

\* tcp_listener_base::open.
ListenerSteps(p, es) ==
    Create(p) \o Adopt \o ShareAddress(p)
    \o (IF p = "windows" /\ ~HasReuse(es) THEN Set("exclusive_addr", 1) ELSE <<>>)
    \o ApplyTo(p, es) \o Do("bind") \o Do("listen")

\* connect_impl; a connection in progress counts as success.
ConnectorSteps(p, es) == Create(p) \o ApplyTo(p, es) \o Do("connect") \o Adopt

\* udp_socket_base::open.
UdpSteps(p, es) ==
    Create(p) \o Adopt \o ApplyPreBind(p, es) \o Do("bind") \o ApplyPostBind(p, es)

\* create_connected_udp.
ConnectedUdpSteps(p, es) ==
    Create(p) \o ShareAddress(p) \o ApplyTo(p, es) \o Do("bind") \o Do("connect") \o Adopt

\* accept_raw; the result of SetHandleInformation is not looked at.
AcceptSteps(p, es) ==
    (CASE p = "linux" -> Open({"nonblock", "cloexec"})
       [] p = "macos" -> Open({}) \o Flag("cloexec") \o Flag("nonblock") \o Flag("nosigpipe")
       [] p = "windows" -> Open({}) \o TryFlag("cloexec") \o Flag("nonblock"))
    \o ApplyTo(p, es) \o Adopt

\* accept_raw with the address of the peer: the same calls.
AcceptFromSteps(p, es) == AcceptSteps(p, es)

\* The constructor of the dispatcher: with epoll two descriptors, else one.
DispatcherSteps(p) ==
    CASE p = "linux" -> Open({"cloexec"}) \o Open({"nonblock", "cloexec"}) \o Do("register") \o Adopt
      [] p = "macos" -> Open({}) \o Do("register") \o Adopt
      [] p = "windows" -> Open({}) \o Adopt

\* do_create of dgram: claimed peers bind to the same address.
EffectiveOptions(p, es) ==
    LET add(id) == <<EntryFor(p, id, 1)>>
    IN es \o (IF HasReuse(es) THEN <<>>
              ELSE IF p = "windows" THEN add("exclusive_addr") ELSE add("reuse_addr"))
          \o (IF p \in Posix THEN add("reuse_port") ELSE <<>>)

OptionsFor(kind, p, es) ==
    CASE kind = "dgram" -> EffectiveOptions(p, es)
      [] kind = "claimed" -> <<>>   \* the claim of dgram passes no options on
      [] OTHER -> es

Steps(kind, p, es) ==
    CASE kind = "listener" -> ListenerSteps(p, es)
      [] kind = "connector" -> ConnectorSteps(p, es)
      [] kind = "udp" -> UdpSteps(p, es)
      [] kind \in {"peer", "claimed"} -> ConnectedUdpSteps(p, es)
      [] kind = "dgram" -> UdpSteps(p, es) \o <<Step("try", "nonblock", None)>>
      [] kind = "accept" -> AcceptSteps(p, es)
      [] kind = "accept_from" -> AcceptFromSteps(p, es)
      [] kind = "dispatcher" -> DispatcherSteps(p)

-----------------------------------------------------------------------------
InitEntries(p, pairs) == [i \in 1..Len(pairs) |-> EntryFor(p, pairs[i][1], pairs[i][2])]

Init ==
    /\ limits \in Scenarios
    /\ platform \in limits.platforms
    /\ given = [b \in Builders |-> <<>>]
    /\ entries = [b \in Builders |-> None]
    /\ hasReuse = [b \in Builders |-> FALSE]
    /\ moved = {}
    /\ file = [fd \in Fds |-> None]
    /\ obj = [x \in Objects |-> Closed]
    /\ call = [t \in Threads |-> None]
    /\ loose = {} /\ calls = 0 /\ faults = 0

Busy(x) == \E t \in Threads : call[t] # None /\ x \in {call[t].obj, call[t].from}
Free(x) == ~Busy(x)

CloseAll(f, fds) == [fd \in Fds |-> IF fd \in fds THEN None ELSE f[fd]]

-----------------------------------------------------------------------------
(* Calls *)

Begin(t, x, kind, from, es) ==
    /\ call[t] = None /\ calls < limits.calls /\ Free(x) /\ Free(from)
    /\ calls' = calls + 1
    /\ call' = [call EXCEPT ![t] = [obj |-> x, kind |-> kind, from |-> from, fds |-> {}, adopted |-> FALSE,
                                    opts |-> OptionsFor(kind, platform, es),
                                    todo |-> Steps(kind, platform, OptionsFor(kind, platform, es))]]
    /\ UNCHANGED <<limits, platform, builderVars, file, obj, loose, faults>>

\* A call that opens something in x, which may hold an open socket already.
BeginOpen(t, x, kind) ==
    /\ kind \in limits.kinds \ {"accept", "accept_from", "leave"}
    /\ kind \in {"peer", "claimed"} => platform \in Posix
    /\ Begin(t, x, kind, x, InitEntries(platform, limits.options))

\* accept() of the listener l; it is invalid_state when l is closed.
BeginAccept(t, x, l, kind) ==
    /\ kind \in limits.kinds \cap {"accept", "accept_from"}
    /\ x # l /\ obj[l].kind = "listener"
    /\ Begin(t, x, kind, l, InitEntries(platform, limits.options))

\* leave_all_multicast on an open UDP socket.
BeginLeave(t, x) ==
    /\ "leave" \in limits.kinds /\ obj[x].kind \in {"udp", "dgram"}
    /\ call[t] = None /\ calls < limits.calls /\ Free(x)
    /\ calls' = calls + 1
    /\ call' = [call EXCEPT ![t] = [obj |-> x, kind |-> "leave", from |-> x, fds |-> obj[x].fds,
                                    adopted |-> TRUE, opts |-> obj[x].opts,
                                    todo |-> LeaveAllMulticast(obj[x].opts)]]
    /\ UNCHANGED <<limits, platform, builderVars, file, obj, loose, faults>>

Now(t) == Head(call[t].todo)
Rest(c) == [c EXCEPT !.todo = Tail(@)]
Working(t) == call[t] # None /\ call[t].todo # <<>>

\* The groups a descriptor has joined.
Joined(log) ==
    {g \in {log[i].val : i \in {i \in 1..Len(log) : log[i].op = "join"}} :
        LET last == Max({i \in 1..Len(log) : log[i].op \in {"join", "leave"} /\ log[i].val = g})
        IN log[last].op = "join"}

TheFd(t) == CHOOSE fd \in call[t].fds : TRUE

\* What the kernel or the library refuses whatever happens.
Possible(t, s) ==
    CASE s.op = "refuse" -> FALSE
      [] s.op = "open" -> \E fd \in Fds : file[fd] = None
      [] s.op = "join" -> s.val \notin Joined(file[TheFd(t)].log)
      [] s.op = "leave" -> s.val \in Joined(file[TheFd(t)].log)
      [] OTHER -> TRUE

OpenStep(t) ==
    /\ Working(t) /\ Now(t).op = "open"
    /\ \E fd \in Fds : /\ file[fd] = None
                       /\ file' = [file EXCEPT ![fd] = [flags |-> Now(t).val, log |-> <<>>]]
                       /\ call' = [call EXCEPT ![t] = [Rest(@) EXCEPT !.fds = @ \cup {fd}]]
    /\ UNCHANGED <<limits, platform, builderVars, obj, loose, calls, faults>>

\* A mutant of AdoptStep: the descriptor the object had is overwritten.
AdoptStepOver(t) ==
    LET c == call[t]
    IN /\ Working(t) /\ Now(t).op = "adopt"
       /\ obj' = [obj EXCEPT ![c.obj] = [fds |-> c.fds, kind |-> c.kind, opts |-> c.opts]]
       /\ call' = [call EXCEPT ![t] = [Rest(c) EXCEPT !.adopted = TRUE]]
       /\ UNCHANGED <<limits, platform, builderVars, file, loose, calls, faults>>

\* Move assignment: what the object had is closed first.
AdoptStep(t) ==
    LET c == call[t]
    IN /\ Working(t) /\ Now(t).op = "adopt"
       /\ file' = CloseAll(file, obj[c.obj].fds)
       /\ obj' = [obj EXCEPT ![c.obj] = [fds |-> c.fds, kind |-> c.kind, opts |-> c.opts]]
       /\ call' = [call EXCEPT ![t] = [Rest(c) EXCEPT !.adopted = TRUE]]
       /\ UNCHANGED <<limits, platform, builderVars, loose, calls, faults>>

\* Any other system call on the descriptor, done.
DoStep(t) ==
    /\ Working(t) /\ Now(t).op \notin {"open", "adopt"} /\ Possible(t, Now(t))
    /\ file' = [file EXCEPT ![TheFd(t)] =
                   IF Now(t).op \in {"flag", "tryflag"} THEN [@ EXCEPT !.flags = @ \cup {Now(t).id}]
                   ELSE [@ EXCEPT !.log = Append(@, Now(t))]]
    /\ call' = [call EXCEPT ![t] = Rest(@)]
    /\ UNCHANGED <<limits, platform, builderVars, obj, loose, calls, faults>>

\* An adopted descriptor is closed through the object; a local one as its scope ends.
Unwound(c) ==
    [file |-> CloseAll(file, c.fds),
     obj |-> IF c.adopted THEN [obj EXCEPT ![c.obj] = Closed] ELSE obj]

\* A system call fails, or the step cannot be done: the call ends.
FailStep(t) ==
    LET c == call[t]
    IN /\ Working(t) /\ Now(t).op \notin {"adopt", "try", "tryflag"} /\ c.kind # "leave"
       /\ \/ ~Possible(t, Now(t)) /\ UNCHANGED faults
          \/ Possible(t, Now(t)) /\ faults < limits.faults /\ faults' = faults + 1
       /\ obj' = Unwound(c).obj
       /\ file' = Unwound(c).file
       /\ call' = [call EXCEPT ![t] = None]
       /\ UNCHANGED <<limits, platform, builderVars, loose, calls>>

\* A failure nobody looks at.
TryFails(t) ==
    /\ Working(t) /\ Now(t).op \in {"try", "tryflag"}
    /\ faults < limits.faults /\ faults' = faults + 1
    /\ call' = [call EXCEPT ![t] = Rest(@)]
    /\ UNCHANGED <<limits, platform, builderVars, file, obj, loose, calls>>

\* leave_all_multicast stops at the first group it cannot leave.
LeaveStops(t) ==
    /\ Working(t) /\ call[t].kind = "leave"
    /\ \/ ~Possible(t, Now(t)) /\ UNCHANGED faults
       \/ Possible(t, Now(t)) /\ faults < limits.faults /\ faults' = faults + 1
    /\ call' = [call EXCEPT ![t].todo = <<>>]
    /\ UNCHANGED <<limits, platform, builderVars, file, obj, loose, calls>>

Return(t) ==
    /\ call[t] # None /\ call[t].todo = <<>>
    /\ call' = [call EXCEPT ![t] = None]
    /\ obj' = IF call[t].kind = "leave" THEN [obj EXCEPT ![call[t].obj].kind = "left"] ELSE obj
    /\ UNCHANGED <<limits, platform, builderVars, file, loose, calls, faults>>

-----------------------------------------------------------------------------
(* The socket object *)

\* close() and the destructor.
CloseObject(x) ==
    /\ Free(x) /\ obj[x].fds # {}
    /\ file' = CloseAll(file, obj[x].fds)
    /\ obj' = [obj EXCEPT ![x] = Closed]
    /\ UNCHANGED <<limits, platform, builderVars, call, loose, calls, faults>>

\* x = std::move(y).
MoveObject(x, y) ==
    /\ x # y /\ Free(x) /\ Free(y) /\ obj[y].fds # {}
    /\ file' = CloseAll(file, obj[x].fds)
    /\ obj' = [obj EXCEPT ![x] = obj[y], ![y] = Closed]
    /\ UNCHANGED <<limits, platform, builderVars, call, loose, calls, faults>>

\* release(): the program has the descriptor, and closes it some time.
Release(x) ==
    /\ Free(x) /\ obj[x].fds # {}
    /\ loose' = loose \cup obj[x].fds
    /\ obj' = [obj EXCEPT ![x] = Closed]
    /\ UNCHANGED <<limits, platform, builderVars, file, call, calls, faults>>

CloseLoose(fd) ==
    /\ fd \in loose
    /\ loose' = loose \ {fd}
    /\ file' = CloseAll(file, {fd})
    /\ UNCHANGED <<limits, platform, builderVars, obj, call, calls, faults>>

-----------------------------------------------------------------------------
Thread(t) ==
    \/ OpenStep(t) \/ AdoptStep(t) \/ DoStep(t) \/ FailStep(t) \/ TryFails(t)
    \/ LeaveStops(t) \/ Return(t)

Program ==
    \/ \E t \in Threads, x \in Objects :
          \/ \E kind \in limits.kinds : BeginOpen(t, x, kind)
          \/ \E l \in Objects, kind \in limits.kinds : BeginAccept(t, x, l, kind)
          \/ BeginLeave(t, x)
    \/ \E x \in Objects : CloseObject(x) \/ Release(x) \/ \E y \in Objects : MoveObject(x, y)
    \/ \E fd \in loose : CloseLoose(fd)

BuildStep == limits.building /\ Building /\ UNCHANGED <<limits, sockVars>>

Next == Program \/ BuildStep \/ \E t \in Threads : Thread(t)

Spec == Init /\ [][Next]_vars

-----------------------------------------------------------------------------
(* Properties *)

\* An object, a call in progress, or the program after release().
Owners(fd) ==
    {x \in Objects : fd \in obj[x].fds}
    \cup {t \in Threads : call[t] # None /\ ~call[t].adopted /\ fd \in call[t].fds}
    \cup (IF fd \in loose THEN {"program"} ELSE {})

\* Whatever fails on the way, an open descriptor has one owner and an owner's
\* descriptors are open: error paths neither leak a socket nor close one that the
\* other thread was given.
OneOwner == \A fd \in Fds : Cardinality(Owners(fd)) = IF file[fd] = None THEN 0 ELSE 1

Handed(x) == Free(x) /\ obj[x].fds # {} /\ obj[x].kind # "dispatcher"
FileOf(x) == file[CHOOSE fd \in obj[x].fds : TRUE]
At(log, ops) == {i \in 1..Len(log) : log[i].op \in ops}
Before(log, ops, later) == \A i \in At(log, ops), j \in At(log, later) : i < j

\* A socket that a call has handed out was made completely: it does not block and is
\* not inherited, options are set before the address is bound, and a UDP socket joins
\* its groups after that.  On Windows an accepted socket may be inherited when a
\* system call failed, as accept_raw does not look at that of SetHandleInformation.
HandedOutIsReady ==
    \A x \in Objects : Handed(x) =>
        LET log == FileOf(x).log
            kind == obj[x].kind
        IN /\ "nonblock" \in FileOf(x).flags
           /\ \/ "cloexec" \in FileOf(x).flags
              \/ platform = "windows" /\ kind \in {"accept", "accept_from"} /\ faults > 0
           /\ Before(log, {"set", "keepalive"}, {"bind", "connect"})
           /\ Before(log, {"bind"}, {"listen", "connect"})
           /\ kind \in {"udp", "dgram"} => Before(log, {"bind"}, {"join"})
           /\ At(log, {"bind"}) # {} <=> kind \notin {"connector", "accept", "accept_from"}
           /\ At(log, {"listen"}) # {} <=> kind = "listener"

\* The value in effect, -1 if the option was never set.
Value(log, id) ==
    LET hits == {i \in 1..Len(log) : \/ log[i].op \in {"set", "try"} /\ log[i].id = id
                                     \/ log[i].op = "keepalive" /\ id \in DOMAIN log[i].val}
        val(s) == IF s.op = "keepalive" THEN s.val[id] ELSE s.val
    IN IF hits = {} THEN -1 ELSE val(log[Max(hits)])

\* A socket that was handed out has the last value given for each option; an option
\* the platform does not have makes the call fail and is never passed over.  On
\* Windows setting a keep-alive time turns keep-alive on, and fast open is 1.
OptionsInEffect ==
    \A x \in Objects : Handed(x) =>
        LET es == obj[x].opts
            last(id) == es[Max({i \in 1..Len(es) : es[i].id = id})].val
            timed == \E i \in 1..Len(es) : es[i].id \in {"keep_alive_idle", "keep_alive_interval"}
        IN \A i \in 1..Len(es) : LET id == es[i].id IN
              /\ Available(platform, id)
              /\ ~IsMulticastEntry(es[i]) =>
                    \/ Value(FileOf(x).log, id) = last(id)
                    \/ platform = "windows" /\ id = "keep_alive" /\ timed
                    \/ platform = "windows" /\ id = "tcp_fastopen"

\* A dgram and the connected sockets of its claimed peers can share their address:
\* unless the user set SO_REUSEADDR, both have it, and the dgram has SO_REUSEPORT.
PeersCanBind ==
    \A x \in Objects : Handed(x) /\ platform \in Posix /\ ~HasReuse(InitEntries(platform, limits.options)) =>
        /\ obj[x].kind \in {"dgram", "claimed"} => Value(FileOf(x).log, "reuse_addr") = 1
        /\ obj[x].kind = "dgram" => Value(FileOf(x).log, "reuse_port") = 1

\* After leave_all_multicast no group that the options joined is left, if no call
\* failed and the options themselves leave no group.
GroupsLeft ==
    \A x \in Objects :
        /\ obj[x].kind = "left" /\ faults = 0
        /\ \A i \in 1..Len(obj[x].opts) : obj[x].opts[i].id # "multicast_leave"
        => Joined(FileOf(x).log) = {}

\* From the call that hands a socket out to the one that leaves its groups, it is as
\* its caller asked, whatever the platform and however often calls failed before.
ConfiguredAsAsked == HandedOutIsReady /\ OptionsInEffect /\ PeersCanBind /\ GroupsLeft
=============================================================================
