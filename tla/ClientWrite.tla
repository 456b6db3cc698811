---------------------------- MODULE ClientWrite ----------------------------
(***************************************************************************)
(* The writing side of jive::Client (jive/socket/client.h).  Objects are   *)
(* handed to send once (Write<T>), memory until all is sent or a time-out  *)
(* throws (Write(const void *, size_t)).                                   *)
(*                                                                         *)
(* The kernel has room for some bytes that the peer has not read.  A byte  *)
(* is the number of the call that wrote it and its place in the source.    *)
(***************************************************************************)
EXTENDS Integers, FiniteSets, Sequences

CONSTANTS
    Room,           \* bytes that the kernel holds for the peer
    Sizes,          \* sizeof(T), and byteCounts, which may be 0
    MaxWrites,      \* bound on the calls
    HasTimeOut      \* was SetSendTimeOut called?

VARIABLES
    stream,     \* what the kernel has accepted
    unread,     \* how much of it the peer has not read
    peerOpen,   \* has the peer not closed the connection?
    running,    \* no SIGPIPE has ended the program
    call,       \* the call the client is in
    writes      \* history: the calls, and what they told

vars == <<stream, unread, peerOpen, running, call, writes>>

Idle == [op |-> "none", sentCount |-> 0]
Current == Len(writes)
byteCount == writes[Current].size

-----------------------------------------------------------------------------
(* The peer *)

PeerReads ==
    /\ peerOpen /\ unread > 0
    /\ unread' = unread - 1
    /\ UNCHANGED <<stream, peerOpen, running, call, writes>>

PeerCloses ==
    /\ peerOpen
    /\ peerOpen' = FALSE
    /\ UNCHANGED <<stream, unread, running, call, writes>>

-----------------------------------------------------------------------------
(* send, of what is at the place after sentCount in the source *)

Sent(from, k) ==
    [i \in 1 .. k |-> [write |-> Current, place |-> from + i]]

\* send accepts k bytes.
Send(k) ==
    /\ running
    /\ k \in 1 .. byteCount - call.sentCount
    /\ unread + k <= Room
    /\ stream' = stream \o Sent(call.sentCount, k)
    /\ unread' = unread + k
    /\ UNCHANGED <<peerOpen, running>>

\* It has no room until SO_SNDTIMEO is over: WouldBlock(errno).
SendBlocks ==
    /\ running
    /\ call.sentCount < byteCount
    /\ HasTimeOut /\ unread = Room
    /\ UNCHANGED <<stream, unread, peerOpen, running>>

\* The connection was reset.
SendFails ==
    /\ running
    /\ call.sentCount < byteCount
    /\ ~peerOpen
    /\ UNCHANGED <<stream, unread, peerOpen, running>>

\* ... or SIGPIPE, which nobody handles, ends the program.
BrokenPipe ==
    /\ call # Idle /\ ~peerOpen /\ running
    /\ call.sentCount < byteCount
    /\ running' = FALSE
    /\ UNCHANGED <<stream, unread, peerOpen, call, writes>>

-----------------------------------------------------------------------------
StartWrite(op, size) ==
    /\ running
    /\ call = Idle
    /\ Current < MaxWrites
    /\ op = "object" => size > 0
    /\ writes' = Append(writes, [op |-> op, size |-> size, told |-> "nothing"])
    /\ call' = [op |-> op, sentCount |-> 0]
    /\ UNCHANGED <<stream, unread, peerOpen, running>>

Tells(what) ==
    /\ call' = Idle
    /\ writes' = [writes EXCEPT ![Current].told = what]

\* Write<T>: whatever send answers is left alone.
WriteObject ==
    /\ call.op = "object"
    /\ (\E k \in 1 .. byteCount : Send(k)) \/ SendBlocks \/ SendFails
    /\ Tells("returned")

\* Mutant of Advance: the counts of earlier turns are forgotten.
AdvanceTo(sentCount, increment) == increment
Advance(sentCount, increment) == sentCount + increment

\* Write(const void *, size_t): a turn of the loop
WriteSome ==
    /\ call.op = "memory"
    /\ \E k \in 1 .. byteCount :
        /\ Send(k)
        /\ call' = [call EXCEPT !.sentCount = Advance(@, k)]
    /\ UNCHANGED writes

\* Mutant of WriteThrows: a time-out goes round the loop.
WriteRetries ==
    /\ call.op = "memory"
    /\ \/ SendBlocks /\ UNCHANGED <<call, writes>>
       \/ SendFails /\ Tells("error")

WriteThrows ==
    /\ call.op = "memory"
    /\ \/ SendBlocks /\ Tells("timed_out")
       \/ SendFails /\ Tells("error")

\* ... and its end.
WriteReturns ==
    /\ running
    /\ call.op = "memory"
    /\ call.sentCount = byteCount
    /\ Tells("returned")
    /\ UNCHANGED <<stream, unread, peerOpen, running>>

\* A signal comes while send waits for room: EINTR.
Interrupt ==
    /\ running /\ call # Idle
    /\ call.sentCount < byteCount /\ unread = Room
    /\ \/ call.op = "object" /\ Tells("returned")
       \/ call.op = "memory" /\ Tells("error")
    /\ UNCHANGED <<stream, unread, peerOpen, running>>

-----------------------------------------------------------------------------
Init ==
    /\ stream = <<>> /\ unread = 0
    /\ peerOpen = TRUE
    /\ running = TRUE
    /\ call = Idle
    /\ writes = <<>>

ClientStep ==
    \/ WriteObject \/ WriteSome \/ WriteThrows \/ WriteReturns
    \/ BrokenPipe

Next ==
    \/ PeerReads \/ PeerCloses
    \/ \E op \in {"object", "memory"}, size \in Sizes : StartWrite(op, size)
    \/ Interrupt
    \/ ClientStep

Spec == Init /\ [][Next]_vars

\* The client's thread runs; the peer need not do anything, nor signals come.
FairSpec == Spec /\ WF_vars(ClientStep)

-----------------------------------------------------------------------------
\* The bytes of the stream that the call i wrote.
PartOf(i) == {n \in DOMAIN stream : stream[n].write = i}

\* What may come next in the stream: the next byte of the same source, or the
\* first that a later call was given.
Follows(byte, next) ==
    \/ next = [byte EXCEPT !.place = @ + 1]
    \/ next.write > byte.write /\ next.place = 1

\* Through time-outs, short sends and a peer that leaves, the stream is made of
\* the first part of what each call was given, in the order of the calls; all of
\* it when Write(const void *, size_t) returned and less when it threw.  Of an
\* object it may be any part, since Write<T> does not look.
WritesKept ==
    /\ stream # <<>> => stream[1].place = 1
    /\ \A n \in 2 .. Len(stream) : Follows(stream[n - 1], stream[n])
    /\ \A n \in DOMAIN stream : stream[n].write \in DOMAIN writes
    /\ \A i \in DOMAIN writes :
        LET sent == Cardinality(PartOf(i)) IN
        /\ sent <= writes[i].size
        /\ writes[i].op = "memory" =>
            /\ writes[i].told = "returned" => sent = writes[i].size
            /\ writes[i].told \in {"timed_out", "error"} => sent < writes[i].size

\* With a send time-out each call ends, though the peer does not read, unless
\* the program does.
EveryWriteEnds == call # Idle ~> call = Idle \/ ~running
=============================================================================
