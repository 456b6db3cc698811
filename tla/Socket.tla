------------------------------- MODULE Socket -------------------------------
(***************************************************************************)
(* The life of jive::Socket objects (jive/socket/socket.h) and of the        *)
(* kernel's descriptors behind them: construction, move, Bind, Listen,      *)
(* Accept, Connect with its time-out, Close and destruction.                *)
(*                                                                         *)
(* The objects belong to any number of threads, but no two threads use one  *)
(* object at a time.  connect, poll and accept take time, in which other    *)
(* objects are made and closed and the kernel gives a descriptor out again. *)
(* The kernel and the services it connects to are external.                 *)
(***************************************************************************)
EXTENDS Naturals, FiniteSets

CONSTANTS
    Object,      \* places where a Socket may live
    NoObject,
    Handle,      \* the descriptors of the process
    NoHandle,    \* handle_ == -1
    Address,     \* service addresses
    NoAddress,   \* the default ServiceAddress
    MaxPending   \* bound: connections that wait for one Accept

ASSUME NullAssumption ==
    NoHandle \notin Handle /\ NoAddress \notin Address /\ NoObject \notin Object
ASSUME FiniteAssumption == IsFiniteSet(Handle)
ASSUME PendingAssumption == MaxPending \in Nat

VARIABLES
    live,       \* the Socket objects that are constructed and not destroyed
    handle,     \* handle_
    address,    \* connectedAddress_
    call,       \* the Connect or Accept that an object is in
    kernel,     \* what the kernel knows of each descriptor
    tries,      \* how often Connect was called on it: never, once, again
    told,       \* how the last of these Connects ended
    accepts     \* accepted connections whose Accept has ended

objectVars == <<live, handle, address>>
historyVars == <<tries, told>>
vars == <<objectVars, call, kernel, historyVars, accepts>>

Idle == [pc |-> "idle", wait |-> "forever", to |-> NoAddress,
         got |-> NoHandle, result |-> NoObject]

\* A descriptor that is closed, and one that socket() just made.
Closed == [state |-> "closed", mode |-> "blocking", name |-> NoAddress,
           backlog |-> 0]
New == [Closed EXCEPT !.state = "new"]

\* A descriptor that accept() just made.
Accepted(client) == [state |-> "connected", mode |-> "blocking", name |-> client,
                     backlog |-> 0]

State == {"closed", "new", "listening", "connecting", "failed", "connected"}
Descriptor == [state : State, mode : {"blocking", "nonblocking"},
               name : Address \cup {NoAddress}, backlog : 0 .. MaxPending]

Wait == {"limited", "forever"}
Place == {"idle", "connect", "poll", "restore", "accept", "wrap"}
Call == [pc : Place, wait : Wait, to : Address \cup {NoAddress},
         got : Handle \cup {NoHandle}, result : Object \cup {NoObject}]

TypeOK ==
    /\ live \subseteq Object
    /\ handle \in [Object -> Handle \cup {NoHandle}]
    /\ address \in [Object -> Address \cup {NoAddress}]
    /\ call \in [Object -> Call]
    /\ kernel \in [Handle -> Descriptor]
    /\ tries \in [Handle -> 0 .. 2]
    /\ told \in [Handle -> {"nothing", "threw", "returned"}]
    /\ accepts \in Nat
    /\ \A o \in Object :
         /\ o \notin live => handle[o] = NoHandle /\ call[o] = Idle
         /\ call[o].pc = "wrap" => call[o].got \in Handle
         /\ call[o].pc \in {"accept", "wrap"} => call[o].result \in Object

Open == {h \in Handle : kernel[h].state # "closed"}
Free == Handle \ Open

\* Where a Socket can be constructed: the result of an Accept has its place.
Unborn == Object \ (live \cup {call[o].result : o \in live})

\* The object may be used by the caller.
Ready(o) == o \in live /\ call[o] = Idle

\* Its functions that the kernel refuses with EBADF otherwise.
Usable(o) == Ready(o) /\ handle[o] # NoHandle

-----------------------------------------------------------------------------
(* The kernel *)

Becomes(h, state, name) ==
    kernel' = [kernel EXCEPT ![h] = [@ EXCEPT !.state = state, !.name = name]]

Forget(h) ==
    /\ tries' = [tries EXCEPT ![h] = 0]
    /\ told' = [told EXCEPT ![h] = "nothing"]

\* A connection that was begun comes to something, whoever still waits for it.
ConnectionEnds(h) ==
    /\ kernel[h].state = "connecting"
    /\ \E state \in {"connected", "failed"} :
         kernel' = [kernel EXCEPT ![h].state = state]
    /\ UNCHANGED <<objectVars, call, historyVars, accepts>>

\* The error of a failed connection is told once; then Connect may be tried again.
ErrorTaken(h) ==
    /\ kernel[h].state = "failed"
    /\ Becomes(h, "new", NoAddress)

\* A client connects to a socket that listens.
ClientArrives(h) ==
    /\ kernel[h].state = "listening"
    /\ kernel[h].backlog < MaxPending
    /\ kernel' = [kernel EXCEPT ![h].backlog = @ + 1]
    /\ UNCHANGED <<objectVars, call, historyVars, accepts>>

-----------------------------------------------------------------------------
(* Construction, move, Close and destruction *)

Construct(o, h) ==
    /\ o \in Unborn
    /\ h \in Free
    /\ kernel' = [kernel EXCEPT ![h] = New]
    /\ live' = live \cup {o}
    /\ handle' = [handle EXCEPT ![o] = h]
    /\ address' = [address EXCEPT ![o] = NoAddress]
    /\ UNCHANGED <<call, historyVars, accepts>>

\* Mutant of MoveConstruct: the other object keeps its handle.
MoveConstructCopies(o, other) ==
    /\ o \in Unborn
    /\ Ready(other)
    /\ live' = live \cup {o}
    /\ handle' = [handle EXCEPT ![o] = handle[other]]
    /\ address' = [address EXCEPT ![o] = address[other]]
    /\ UNCHANGED <<call, kernel, historyVars, accepts>>

MoveConstruct(o, other) ==
    /\ o \in Unborn
    /\ Ready(other)
    /\ live' = live \cup {o}
    /\ handle' = [handle EXCEPT ![o] = handle[other], ![other] = NoHandle]
    /\ address' = [address EXCEPT ![o] = address[other]]
    /\ UNCHANGED <<call, kernel, historyVars, accepts>>

\* The kernel's part of Close.
CloseHandle(o) ==
    \/ /\ handle[o] # NoHandle
       /\ kernel' = [kernel EXCEPT ![handle[o]] = Closed]
       /\ Forget(handle[o])
    \/ handle[o] = NoHandle /\ UNCHANGED <<kernel, historyVars>>

\* Mutant of MoveAssign: what the object held is not closed.
MoveAssignLeaks(o, other) ==
    /\ Ready(o)
    /\ Ready(other)
    /\ handle' = [handle EXCEPT ![o] = handle[other], ![other] = NoHandle]
    /\ address' = [address EXCEPT ![o] = address[other]]
    /\ UNCHANGED <<live, call, kernel, historyVars, accepts>>

\* An object that is assigned to itself is closed.
MoveAssign(o, other) ==
    /\ Ready(o)
    /\ Ready(other)
    /\ CloseHandle(o)
    /\ handle' = IF o = other
                   THEN [handle EXCEPT ![o] = NoHandle]
                   ELSE [handle EXCEPT ![o] = handle[other], ![other] = NoHandle]
    /\ address' = [address EXCEPT ![o] = address[other]]
    /\ UNCHANGED <<live, call, accepts>>

Close(o) ==
    /\ Ready(o)
    /\ CloseHandle(o)
    /\ handle' = [handle EXCEPT ![o] = NoHandle]
    /\ UNCHANGED <<live, address, call, accepts>>

Destroy(o) ==
    /\ Ready(o)
    /\ CloseHandle(o)
    /\ live' = live \ {o}
    /\ handle' = [handle EXCEPT ![o] = NoHandle]
    /\ UNCHANGED <<address, call, accepts>>

-----------------------------------------------------------------------------
(* Bind, Listen and Accept *)

\* Bind, when bind() does not refuse it.
Bind(o, name) ==
    /\ Usable(o)
    /\ kernel[handle[o]].state = "new"
    /\ kernel[handle[o]].name = NoAddress
    /\ kernel' = [kernel EXCEPT ![handle[o]].name = name]
    /\ address' = [address EXCEPT ![o] = name]
    /\ UNCHANGED <<live, handle, call, historyVars, accepts>>

Listen(o) ==
    /\ Usable(o)
    /\ kernel[handle[o]].state = "new"
    /\ kernel' = [kernel EXCEPT ![handle[o]].state = "listening"]
    /\ UNCHANGED <<objectVars, call, historyVars, accepts>>

\* Accept is called for an object that will be constructed as its result.
StartAccept(o, result) ==
    /\ Usable(o)
    /\ kernel[handle[o]].state = "listening"
    /\ result \in Unborn
    /\ call' = [call EXCEPT ![o] = [Idle EXCEPT !.pc = "accept", !.result = result]]
    /\ UNCHANGED <<objectVars, kernel, historyVars, accepts>>

\* accept() returns a new descriptor, or -1 for want of one or of a connection, or
\* interrupted, and Accept throws.
AcceptReturns(o, h, client) ==
    /\ call[o].pc = "accept"
    /\ kernel[handle[o]].backlog > 0
    /\ h \in Free
    /\ kernel' = [kernel EXCEPT ![handle[o]].backlog = @ - 1,
                               ![h] = Accepted(client)]
    /\ call' = [call EXCEPT ![o] = [@ EXCEPT !.pc = "wrap", !.got = h]]
    /\ UNCHANGED <<objectVars, historyVars, accepts>>

AcceptThrows(o) ==
    /\ call[o].pc = "accept"
    /\ call' = [call EXCEPT ![o] = Idle]
    /\ UNCHANGED <<objectVars, kernel, historyVars, accepts>>

\* The result is constructed with a descriptor of its own, whose number is then
\* overwritten: nobody will close it.
AcceptEnds(o, h) ==
    /\ call[o].pc = "wrap"
    /\ h \in Free
    /\ kernel' = [kernel EXCEPT ![h] = New]
    /\ live' = live \cup {call[o].result}
    /\ handle' = [handle EXCEPT ![call[o].result] = call[o].got]
    /\ address' = [address EXCEPT ![call[o].result] = kernel[call[o].got].name]
    /\ call' = [call EXCEPT ![o] = Idle]
    /\ accepts' = accepts + 1
    /\ UNCHANGED historyVars

\* socket() fails in the constructor of the result: the accepted connection is
\* nobody's.
AcceptLoses(o) ==
    /\ call[o].pc = "wrap"
    /\ Free = {}
    /\ call' = [call EXCEPT ![o] = Idle]
    /\ accepts' = accepts + 1
    /\ UNCHANGED <<objectVars, kernel, historyVars>>

-----------------------------------------------------------------------------
(* Connect *)

\* Connect(to, timeOutMilliseconds), which waits for ever when that is negative, and
\* otherwise adds the flag O_NONBLOCK.
StartConnect(o, to, wait) ==
    LET h == handle[o]
    IN  /\ Usable(o)
        /\ call' = [call EXCEPT ![o] = [Idle EXCEPT !.pc = "connect",
                                                     !.wait = wait, !.to = to]]
        /\ kernel' = [kernel EXCEPT
                        ![h].mode = IF wait = "limited" THEN "nonblocking" ELSE @]
        /\ tries' = [tries EXCEPT ![h] = IF @ = 0 THEN 1 ELSE 2]
        /\ told' = [told EXCEPT ![h] = "nothing"]
        /\ UNCHANGED <<objectVars, accepts>>

Throw(o) ==
    /\ call' = [call EXCEPT ![o] = Idle]
    /\ told' = [told EXCEPT ![handle[o]] = "threw"]
    /\ UNCHANGED <<objectVars, tries, accepts>>

\* connect() returns 0: the connection is made, or was made by an earlier
\* Connect that no longer waited, perhaps to another address.
ConnectAtOnce(o) ==
    LET h == handle[o]
    IN  /\ call[o].pc = "connect"
        /\ \/ /\ kernel[h].state = "new"
              /\ Becomes(h, "connected", call[o].to)
           \/ kernel[h].state = "connected" /\ tries[h] = 2 /\ UNCHANGED kernel
        /\ call' = [call EXCEPT ![o].pc = "restore"]
        /\ UNCHANGED <<objectVars, historyVars, accepts>>

\* connect() returns -1 with EINPROGRESS.
ConnectStarts(o) ==
    LET h == handle[o]
    IN  /\ call[o].pc = "connect"
        /\ kernel[h].state = "new"
        /\ kernel[h].mode = "nonblocking"
        /\ Becomes(h, "connecting", call[o].to)
        /\ call' = [call EXCEPT ![o].pc = "poll"]
        /\ UNCHANGED <<objectVars, historyVars, accepts>>

\* connect() returns -1 with another error: refused, in progress already, connected
\* already, listening, or interrupted, whereupon the kernel goes on with it.
ConnectFails(o) ==
    LET h == handle[o]
    IN  /\ call[o].pc = "connect"
        /\ \/ kernel[h].state # "failed" /\ UNCHANGED kernel
           \/ ErrorTaken(h)
           \/ /\ kernel[h].state = "new"
              /\ kernel[h].mode = "blocking"
              /\ Becomes(h, "connecting", call[o].to)
        /\ Throw(o)

\* poll() returns 0 at its time-out, or -1 when it is interrupted.  The
\* connection goes on in the kernel, and the descriptor stays non-blocking.
PollThrows(o) ==
    /\ call[o].pc = "poll"
    /\ UNCHANGED kernel
    /\ Throw(o)

\* Mutant of PollFinds: SO_ERROR is not asked for.
PollBelieves(o) ==
    /\ call[o].pc = "poll"
    /\ kernel[handle[o]].state \in {"connected", "failed"}
    /\ call' = [call EXCEPT ![o].pc = "restore"]
    /\ UNCHANGED <<objectVars, kernel, historyVars, accepts>>

\* poll() returns 1 and SO_ERROR, which asking resets, tells what happened.
PollFinds(o) ==
    LET h == handle[o]
    IN  /\ call[o].pc = "poll"
        /\ \/ ErrorTaken(h) /\ Throw(o)
           \/ /\ kernel[h].state = "connected"
              /\ call' = [call EXCEPT ![o].pc = "restore"]
              /\ UNCHANGED <<objectVars, kernel, historyVars, accepts>>

\* RemoveFlag, and Connect returns.
ConnectReturns(o) ==
    LET h == handle[o]
    IN  /\ call[o].pc = "restore"
        /\ kernel' = [kernel EXCEPT
                        ![h].mode = IF call[o].wait = "limited" THEN "blocking" ELSE @]
        /\ address' = [address EXCEPT ![o] = call[o].to]
        /\ told' = [told EXCEPT ![h] = "returned"]
        /\ call' = [call EXCEPT ![o] = Idle]
        /\ UNCHANGED <<live, handle, tries, accepts>>

-----------------------------------------------------------------------------
Init ==
    /\ live = {}
    /\ handle = [o \in Object |-> NoHandle]
    /\ address = [o \in Object |-> NoAddress]
    /\ call = [o \in Object |-> Idle]
    /\ kernel = [h \in Handle |-> Closed]
    /\ tries = [h \in Handle |-> 0]
    /\ told = [h \in Handle |-> "nothing"]
    /\ accepts = 0

\* The steps of Connect once it is called.
ConnectStep(o) ==
    \/ ConnectAtOnce(o)
    \/ ConnectStarts(o)
    \/ ConnectFails(o)
    \/ PollThrows(o)
    \/ PollFinds(o)
    \/ ConnectReturns(o)

Next ==
    \/ \E h \in Handle : ConnectionEnds(h) \/ ClientArrives(h)
    \/ \E o \in Object :
         \/ Close(o)
         \/ Destroy(o)
         \/ Listen(o)
         \/ AcceptThrows(o)
         \/ AcceptLoses(o)
         \/ ConnectStep(o)
         \/ \E h \in Handle : Construct(o, h) \/ AcceptEnds(o, h)
         \/ \E other \in Object :
              MoveConstruct(o, other) \/ MoveAssign(o, other) \/ StartAccept(o, other)
         \/ \E name \in Address :
              \/ Bind(o, name)
              \/ \E wait \in Wait : StartConnect(o, name, wait)
              \/ \E h \in Handle : AcceptReturns(o, h, name)

Spec == Init /\ [][Next]_vars
-----------------------------------------------------------------------------
(* Properties *)

\* Every descriptor in an object or on its way to one is open and is there once,
\* although the kernel gives closed ones out again: none is closed twice, and
\* nobody reads another's socket.
HandlesOwned ==
    /\ \A o \in Object : {handle[o], call[o].got} \subseteq Open \cup {NoHandle}
    /\ \A o, p \in Object :
         /\ handle[o] = handle[p] => o = p \/ handle[o] = NoHandle
         /\ call[o].got = call[p].got => o = p \/ call[o].got = NoHandle
         /\ handle[o] = call[p].got => handle[o] = NoHandle

Owned == {handle[o] : o \in Object} \ {NoHandle}
Taken == {call[o].got : o \in Object} \ {NoHandle}

\* What is open and belongs to nobody are the descriptors that Accept loses, one
\* each time.
OneLostPerAccept == Cardinality(Open \ (Owned \cup Taken)) = accepts

\* When the first Connect of a socket returns, the socket is connected, to the
\* address that GetConnectedAddress tells, and blocks; when a later one returns it
\* is at least connected.
ConnectedAsTold ==
    \A o \in live :
        LET h == handle[o]
        IN  h # NoHandle /\ told[h] = "returned" =>
              /\ kernel[h].state = "connected"
              /\ tries[h] = 1 =>
                   kernel[h].mode = "blocking" /\ kernel[h].name = address[o]

-----------------------------------------------------------------------------
(* What the proofs of these need besides. *)

\* An object that is in a call keeps its descriptor, and an Accept has an object
\* and a descriptor to itself.
CallsOwned ==
    /\ \A o \in Object :
         /\ call[o].pc = "idle" => call[o] = Idle
         /\ call[o].pc # "idle" => handle[o] # NoHandle
         /\ call[o].pc # "wrap" => call[o].got = NoHandle
         /\ call[o].pc \notin {"accept", "wrap"} => call[o].result = NoObject
         /\ call[o].result \notin live
    /\ \A o, p \in Object :
         call[o].result = call[p].result => o = p \/ call[o].result = NoObject

\* What a Connect has found out of its descriptor, and what it has done to it.
ConnectUnderWay(o) ==
    LET h == handle[o]
        first == tries[h] = 1
    IN  /\ call[o].pc \in {"connect", "poll", "restore"} =>
             /\ told[h] = "nothing"
             /\ first /\ call[o].wait = "forever" => kernel[h].mode = "blocking"
             /\ tries[h] # 0
        /\ call[o].pc = "poll" =>
             kernel[h].state \in {"connecting", "connected", "failed"}
        /\ call[o].pc = "restore" => kernel[h].state = "connected"
        /\ call[o].pc \in {"poll", "restore"} /\ first => kernel[h].name = call[o].to

ConnectHistory ==
    /\ \A h \in Handle :
         /\ tries[h] = 0 => told[h] = "nothing" /\ kernel[h].mode = "blocking"
         /\ kernel[h].state = "closed" => tries[h] = 0
    /\ \A o \in Object :
         /\ call[o].got # NoHandle => tries[call[o].got] = 0
         /\ handle[o] # NoHandle => ConnectUnderWay(o)
    /\ ConnectedAsTold
=============================================================================
