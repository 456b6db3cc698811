---------------------------- MODULE SocketProofs ----------------------------
(***************************************************************************)
(* What holds of Socket objects and descriptors, for any number of them.    *)
(***************************************************************************)
EXTENDS Socket, FiniteSetTheorems, TLAPS

LEMMA DescriptorChanges ==
    ASSUME NEW d \in Descriptor, NEW state \in State,
           NEW name \in Address \cup {NoAddress}
    PROVE  [d EXCEPT !.state = state, !.name = name] \in Descriptor
BY DEF Descriptor

LEMMA DescriptorMode ==
    ASSUME NEW d \in Descriptor, NEW mode \in {"blocking", "nonblocking"}
    PROVE  /\ [d EXCEPT !.mode = mode] \in Descriptor
           /\ d.mode \in {"blocking", "nonblocking"}
BY DEF Descriptor

LEMMA DescriptorState ==
    ASSUME NEW d \in Descriptor, NEW state \in State
    PROVE  [d EXCEPT !.state = state] \in Descriptor
BY DEF Descriptor

LEMMA DescriptorName ==
    ASSUME NEW d \in Descriptor, NEW name \in Address \cup {NoAddress}
    PROVE  [d EXCEPT !.name = name] \in Descriptor
BY DEF Descriptor

LEMMA DescriptorBacklog ==
    ASSUME NEW d \in Descriptor, NEW backlog \in 0 .. MaxPending
    PROVE  [d EXCEPT !.backlog = backlog] \in Descriptor
BY DEF Descriptor

LEMMA CallWraps ==
    ASSUME NEW c \in Call, NEW h \in Handle
    PROVE  [c EXCEPT !.pc = "wrap", !.got = h] \in Call
BY DEF Call, Place

USE NullAssumption, PendingAssumption

USE DEF Usable, Ready, Unborn, Free, Open, State, Place, Wait, objectVars, historyVars

LEMMA StepTyped == TypeOK /\ [Next]_vars => TypeOK'
<1> SUFFICES ASSUME TypeOK, [Next]_vars PROVE TypeOK'
  OBVIOUS
<1>a. /\ Closed \in Descriptor
      /\ New \in Descriptor
      /\ Idle \in Call
  BY DEF Closed, New, Descriptor, Idle, Call
<1>c. ASSUME NEW h \in Handle, NEW state \in State,
             NEW name \in Address \cup {NoAddress}, Becomes(h, state, name)
      PROVE  kernel' \in [Handle -> Descriptor]
  BY <1>c, DescriptorChanges DEF Becomes, TypeOK
<1>b. ASSUME NEW o \in Object PROVE call[o] # Idle => o \in live
  BY DEF TypeOK
<1>1. ASSUME NEW h \in Handle, ConnectionEnds(h) PROVE TypeOK'
  <2>1. PICK state \in {"connected", "failed"} :
          kernel' = [kernel EXCEPT ![h].state = state]
    BY <1>1 DEF ConnectionEnds
  <2>2. kernel' \in [Handle -> Descriptor]
    BY <2>1, DescriptorState DEF TypeOK
  <2> QED  BY <1>1, <2>2 DEF ConnectionEnds, TypeOK
<1>2. ASSUME NEW h \in Handle, ClientArrives(h) PROVE TypeOK'
  <2>1. kernel[h] \in Descriptor
    BY DEF TypeOK
  <2>2. kernel[h].backlog + 1 \in 0 .. MaxPending
    BY <1>2, <2>1 DEF ClientArrives, Descriptor
  <2>3. [kernel[h] EXCEPT !.backlog = @ + 1] \in Descriptor
    BY <2>1, <2>2, DescriptorBacklog
  <2>4. kernel' \in [Handle -> Descriptor]
    BY <1>2, <2>3 DEF ClientArrives, TypeOK
  <2> QED  BY <1>2, <2>4 DEF ClientArrives, TypeOK
<1>3. ASSUME NEW o \in Object, NEW h \in Handle, Construct(o, h) PROVE TypeOK'
  BY <1>3, <1>a DEF Construct, TypeOK
<1>4. ASSUME NEW o \in Object, NEW other \in Object, MoveConstruct(o, other)
      PROVE  TypeOK'
  BY <1>4 DEF MoveConstruct, TypeOK
<1>5. ASSUME NEW o \in Object, CloseHandle(o)
      PROVE  /\ kernel' \in [Handle -> Descriptor]
             /\ tries' \in [Handle -> 0 .. 2]
             /\ told' \in [Handle -> {"nothing", "threw", "returned"}]
  BY <1>5, <1>a DEF CloseHandle, Forget, TypeOK
<1>6. ASSUME NEW o \in Object, NEW other \in Object, MoveAssign(o, other)
      PROVE  TypeOK'
  BY <1>6, <1>5 DEF MoveAssign, TypeOK
<1>7. ASSUME NEW o \in Object, Close(o) \/ Destroy(o) PROVE TypeOK'
  BY <1>7, <1>5 DEF Close, Destroy, TypeOK
<1>8. ASSUME NEW o \in Object, NEW name \in Address, Bind(o, name) PROVE TypeOK'
  <2>1. kernel' \in [Handle -> Descriptor]
    BY <1>8, DescriptorName DEF Bind, TypeOK
  <2> QED  BY <1>8, <2>1 DEF Bind, TypeOK
<1>9. ASSUME NEW o \in Object, Listen(o) PROVE TypeOK'
  <2>1. kernel' \in [Handle -> Descriptor]
    BY <1>9, DescriptorState DEF Listen, TypeOK
  <2> QED  BY <1>9, <2>1 DEF Listen, TypeOK
<1>10. ASSUME NEW o \in Object, NEW result \in Object, StartAccept(o, result)
       PROVE  TypeOK'
  <2>1. [Idle EXCEPT !.pc = "accept", !.result = result] \in Call
    BY DEF Idle, Call
  <2> QED  BY <1>10, <2>1 DEF StartAccept, TypeOK
<1>11. ASSUME NEW o \in Object, NEW h \in Handle, NEW client \in Address,
              AcceptReturns(o, h, client)
       PROVE  TypeOK'
  <2>1. o \in live
    BY <1>11, <1>b DEF AcceptReturns, Idle
  <2>2. call' \in [Object -> Call]
    BY <1>11, CallWraps DEF AcceptReturns, TypeOK
  <2>3. Accepted(client) \in Descriptor
    BY DEF Accepted, Descriptor
  <2>4. handle[o] \in Handle =>
          [kernel[handle[o]] EXCEPT !.backlog = @ - 1] \in Descriptor
    BY <1>11 DEF AcceptReturns, TypeOK, Descriptor
  <2>5. kernel' \in [Handle -> Descriptor]
    BY <1>11, <2>3, <2>4 DEF AcceptReturns, TypeOK
  <2>6. \A p \in Object :
         /\ call'[p].pc = "wrap" => call'[p].got \in Handle
         /\ call'[p].pc \in {"accept", "wrap"} => call'[p].result \in Object
    BY <1>11 DEF AcceptReturns, TypeOK
  <2> QED  BY <1>11, <2>1, <2>2, <2>5, <2>6 DEF AcceptReturns, TypeOK
<1>12. ASSUME NEW o \in Object, AcceptThrows(o) PROVE TypeOK'
  BY <1>12, <1>a DEF AcceptThrows, TypeOK, Idle
<1>13. ASSUME NEW o \in Object, NEW h \in Handle, AcceptEnds(o, h) PROVE TypeOK'
  <2>1. kernel[call[o].got].name \in Address \cup {NoAddress}
    BY <1>13 DEF TypeOK, Call, Descriptor, AcceptEnds
  <2>2. \A p \in Object :
         /\ call'[p].pc = "wrap" => call'[p].got \in Handle
         /\ call'[p].pc \in {"accept", "wrap"} => call'[p].result \in Object
    BY <1>13 DEF AcceptEnds, TypeOK, Idle
  <2>3. /\ address' \in [Object -> Address \cup {NoAddress}]
        /\ kernel' \in [Handle -> Descriptor]
        /\ call' \in [Object -> Call]
    BY <1>13, <1>a, <2>1 DEF AcceptEnds, TypeOK
  <2>4. /\ live' \subseteq Object
        /\ handle' \in [Object -> Handle \cup {NoHandle}]
        /\ accepts' \in Nat
    BY <1>13 DEF AcceptEnds, TypeOK, Call
  <2>5. o \in live
    BY <1>13, <1>b DEF AcceptEnds, Idle
  <2>6. \A p \in Object : p \notin live' => handle'[p] = NoHandle /\ call'[p] = Idle
    BY <1>13, <2>5 DEF AcceptEnds, TypeOK
  <2> QED  BY <1>13, <2>2, <2>3, <2>4, <2>6 DEF AcceptEnds, TypeOK
<1>14. ASSUME NEW o \in Object, AcceptLoses(o) PROVE TypeOK'
  BY <1>14, <1>a DEF AcceptLoses, TypeOK, Idle
<1>15. ASSUME NEW o \in Object, NEW to \in Address, NEW wait \in Wait,
              StartConnect(o, to, wait)
       PROVE  TypeOK'
  <2>1. [Idle EXCEPT !.pc = "connect", !.wait = wait, !.to = to] \in Call
    BY DEF Idle, Call
  <2>2. kernel' \in [Handle -> Descriptor]
    BY <1>15 DEF StartConnect, TypeOK, Descriptor
  <2>3. tries' \in [Handle -> 0 .. 2]
    BY <1>15 DEF StartConnect, TypeOK
  <2> QED  BY <1>15, <2>1, <2>2, <2>3 DEF StartConnect, TypeOK
<1>16. ASSUME NEW o \in Object, ConnectStep(o) PROVE TypeOK'
  <2>1. o \in live
    BY <1>16, <1>b DEF ConnectStep, ConnectAtOnce, ConnectStarts, ConnectFails,
                       PollThrows, PollFinds, ConnectReturns, Idle
  <2>2. call' \in [Object -> Call]
    BY <1>16, <1>a DEF ConnectStep, ConnectAtOnce, ConnectStarts, ConnectFails, Throw,
                       PollThrows, PollFinds, ConnectReturns, TypeOK, Call
  <2>3. call[o].to \in Address \cup {NoAddress}
    BY DEF TypeOK, Call
  <2>4. handle[o] = NoHandle => UNCHANGED kernel
    BY <1>16 DEF ConnectStep, ConnectAtOnce, ConnectStarts, ConnectFails, ErrorTaken,
                 Becomes, PollThrows, PollFinds, ConnectReturns, TypeOK
  <2>5. ASSUME ConnectAtOnce(o) \/ ConnectStarts(o)
        PROVE  kernel' \in [Handle -> Descriptor]
    BY <2>3, <2>4, <2>5, <1>c DEF ConnectAtOnce, ConnectStarts, TypeOK
  <2>6. ASSUME ConnectFails(o) PROVE kernel' \in [Handle -> Descriptor]
    <3>1. \/ UNCHANGED kernel
          \/ Becomes(handle[o], "new", NoAddress)
          \/ Becomes(handle[o], "connecting", call[o].to)
      BY <2>6 DEF ConnectFails, ErrorTaken
    <3> QED  BY <3>1, <2>3, <2>4, <1>c DEF TypeOK
  <2>10. ASSUME PollThrows(o) \/ PollFinds(o) PROVE kernel' \in [Handle -> Descriptor]
    <3>1. UNCHANGED kernel \/ Becomes(handle[o], "new", NoAddress)
      BY <2>10 DEF PollThrows, PollFinds, ErrorTaken
    <3>2. handle[o] \in Handle \/ UNCHANGED kernel
      BY <2>4 DEF TypeOK
    <3> QED  BY <3>1, <3>2, <1>c DEF TypeOK
  <2>7. ASSUME ConnectReturns(o) PROVE kernel' \in [Handle -> Descriptor]
    BY <2>7, DescriptorMode DEF ConnectReturns, TypeOK
  <2>8. kernel' \in [Handle -> Descriptor]
    BY <1>16, <2>5, <2>6, <2>7, <2>10 DEF ConnectStep
  <2>9. /\ told' \in [Handle -> {"nothing", "threw", "returned"}]
        /\ address' \in [Object -> Address \cup {NoAddress}]
        /\ UNCHANGED <<live, handle, tries, accepts>>
    BY <1>16, <2>3
       DEF ConnectStep, ConnectAtOnce, ConnectStarts, ConnectFails, Throw,
           PollThrows, PollFinds, ConnectReturns, TypeOK
  <2>11. \A p \in Object : p # o => call'[p] = call[p]
    BY <1>16
       DEF ConnectStep, ConnectAtOnce, ConnectStarts, ConnectFails, Throw,
           PollThrows, PollFinds, ConnectReturns, TypeOK
  <2>12. call'[o].pc \notin {"accept", "wrap"}
    BY <1>16
       DEF ConnectStep, ConnectAtOnce, ConnectStarts, ConnectFails, Throw,
           PollThrows, PollFinds, ConnectReturns, TypeOK, Idle, Call
  <2> QED  BY <2>1, <2>2, <2>8, <2>9, <2>11, <2>12 DEF TypeOK
<1>17. CASE UNCHANGED vars
  BY <1>17 DEF vars, TypeOK
<1> QED
  BY <1>1, <1>2, <1>3, <1>4, <1>6, <1>7, <1>8, <1>9, <1>10, <1>11, <1>12,
     <1>13, <1>14, <1>15, <1>16, <1>17
     DEF Next

\* The variables keep their types, and what is not constructed is in no call.
THEOREM SocketTyped == Spec => []TypeOK
<1>1. Init => TypeOK
  BY DEF Init, TypeOK, Idle, Closed, Descriptor, Call, Wait, State, Place
<1> QED  BY <1>1, StepTyped, PTL DEF Spec

-----------------------------------------------------------------------------
(* Who owns which descriptor *)

LEMMA BecomesState ==
    ASSUME kernel \in [Handle -> Descriptor], NEW h \in Handle, NEW state, NEW name,
           Becomes(h, state, name)
    PROVE  /\ \A g \in Handle :
                kernel'[g].state = IF g = h THEN state ELSE kernel[g].state
           /\ \A g \in Handle \ {h} : kernel'[g] = kernel[g]
           /\ kernel'[h].mode = kernel[h].mode
           /\ kernel'[h].name = name
BY DEF Becomes, Descriptor

\* The steps that neither make nor close descriptors and move none.
LEMMA OwnersStay ==
    ASSUME HandlesOwned, handle' = handle, Open' = Open,
           \A o \in Object : call'[o].got = call[o].got
    PROVE  HandlesOwned'
BY DEF HandlesOwned

\* The steps of Connect make and close no descriptor, and touch no other call.
LEMMA ConnectKeeps ==
    ASSUME TypeOK, HandlesOwned, CallsOwned, NEW o \in Object, ConnectStep(o)
    PROVE  /\ Open' = Open
           /\ UNCHANGED <<live, handle>>
           /\ call'[o] = Idle \/ call'[o].pc \in {"poll", "restore"}
           /\ \A p \in Object : /\ p # o => call'[p] = call[p]
                                /\ call'[p].got = call[p].got
                                /\ call'[p].result = call[p].result
<1>a. Idle.pc = "idle" /\ Idle.got = NoHandle /\ Idle.result = NoObject
  BY DEF Idle
<1>1. call[o].pc \in {"connect", "poll", "restore"} /\ handle[o] \in Handle
  BY DEF ConnectStep, ConnectAtOnce, ConnectStarts, ConnectFails, PollThrows,
               PollFinds, ConnectReturns, CallsOwned, TypeOK
<1>2. kernel[handle[o]].state # "closed"
  BY <1>1 DEF HandlesOwned, Owned, TypeOK
<1>3. \/ UNCHANGED kernel
      \/ \E state \in State \ {"closed"}, name \in Address \cup {NoAddress} :
           Becomes(handle[o], state, name)
      \/ \E mode \in {"blocking", "nonblocking"} :
           kernel' = [kernel EXCEPT ![handle[o]].mode = mode]
  <2>1. call[o].to \in Address \cup {NoAddress}
    BY DEF TypeOK, Call
  <2>2. kernel[handle[o]].mode \in {"blocking", "nonblocking"}
    BY <1>1, DescriptorMode DEF TypeOK
  <2> QED
    BY <2>1, <2>2 DEF ConnectStep, ConnectAtOnce, ConnectStarts, ConnectFails, ErrorTaken,
               PollThrows, PollFinds, ConnectReturns
<1>4. Open' = Open
  <2>1. CASE UNCHANGED kernel
    BY <2>1
  <2>2. ASSUME NEW state \in State \ {"closed"},
               NEW name \in Address \cup {NoAddress}, Becomes(handle[o], state, name)
        PROVE  Open' = Open
    <3>1. \A h \in Handle :
            kernel'[h].state = IF h = handle[o] THEN state ELSE kernel[h].state
      BY <2>2, <1>1, BecomesState DEF TypeOK
    <3> QED  BY <3>1, <1>2
  <2>3. ASSUME NEW mode \in {"blocking", "nonblocking"},
               kernel' = [kernel EXCEPT ![handle[o]].mode = mode]
        PROVE  Open' = Open
    BY <2>3 DEF TypeOK, Descriptor
  <2> QED  BY <1>3, <2>1, <2>2, <2>3
<1>5. /\ UNCHANGED <<live, handle>>
      /\ \/ call' = [call EXCEPT ![o] = Idle]
         \/ \E pc \in {"poll", "restore"} : call' = [call EXCEPT ![o].pc = pc]
  BY DEF ConnectStep, ConnectAtOnce, ConnectStarts, ConnectFails, Throw,
               PollThrows, PollFinds, ConnectReturns
<1>6. call[o].got = NoHandle /\ call[o].result = NoObject
  BY <1>1 DEF CallsOwned
<1>7. \A p \in Object :
        call'[p].got = call[p].got /\ call'[p].result = call[p].result
  BY <1>5, <1>6, <1>a DEF TypeOK, Call
<1>8. call'[o] = Idle \/ call'[o].pc \in {"poll", "restore"}
  BY <1>5 DEF TypeOK, Call
<1>9. \A p \in Object : p # o => call'[p] = call[p]
  BY <1>5 DEF TypeOK
<1> QED  BY <1>4, <1>5, <1>7, <1>8, <1>9

LEMMA StepOwned ==
    TypeOK /\ HandlesOwned /\ CallsOwned /\ [Next]_vars => HandlesOwned' /\ CallsOwned'
<1> SUFFICES ASSUME TypeOK, HandlesOwned, CallsOwned, [Next]_vars
             PROVE  HandlesOwned' /\ CallsOwned'
  OBVIOUS
<1>a. Idle.pc = "idle" /\ Idle.got = NoHandle /\ Idle.result = NoObject
  BY DEF Idle
<1>1. ASSUME NEW h \in Handle, ConnectionEnds(h) \/ ClientArrives(h)
      PROVE  HandlesOwned' /\ CallsOwned'
  <2>1. Open' = Open
    BY <1>1 DEF ConnectionEnds, ClientArrives, TypeOK, Descriptor
  <2> QED  BY <1>1, <2>1, OwnersStay DEF ConnectionEnds, ClientArrives, CallsOwned
<1>2. ASSUME NEW o \in Object, NEW h \in Handle, Construct(o, h)
      PROVE  HandlesOwned' /\ CallsOwned'
  <2>1. Open' = Open \cup {h}
    BY <1>2 DEF Construct, TypeOK, New, Closed
  <2>2. HandlesOwned'
    BY <1>2, <2>1 DEF Construct, TypeOK, HandlesOwned
  <2>3. CallsOwned'
    BY <1>2 DEF Construct, TypeOK, CallsOwned, Idle
  <2> QED  BY <2>2, <2>3
<1>3. ASSUME NEW o \in Object, NEW other \in Object, MoveConstruct(o, other)
      PROVE  HandlesOwned' /\ CallsOwned'
  <2>1. HandlesOwned'
    BY <1>3 DEF MoveConstruct, TypeOK, HandlesOwned
  <2>2. CallsOwned'
    BY <1>3 DEF MoveConstruct, TypeOK, CallsOwned, Idle
  <2> QED  BY <2>1, <2>2
<1>4. ASSUME NEW o \in Object, CloseHandle(o)
      PROVE  Open' = Open \ {handle[o]}
  BY <1>4 DEF CloseHandle, TypeOK, Closed
<1>5. ASSUME NEW o \in Object, NEW other \in Object, MoveAssign(o, other)
      PROVE  HandlesOwned' /\ CallsOwned'
  <2>1. HandlesOwned'
    BY <1>5, <1>4 DEF MoveAssign, TypeOK, HandlesOwned
  <2>2. CallsOwned'
    BY <1>5 DEF MoveAssign, TypeOK, CallsOwned, Idle
  <2> QED  BY <2>1, <2>2
<1>6. ASSUME NEW o \in Object, Close(o) \/ Destroy(o)
      PROVE  HandlesOwned' /\ CallsOwned'
  <2>1. HandlesOwned'
    BY <1>6, <1>4 DEF Close, Destroy, TypeOK, HandlesOwned
  <2>2. CallsOwned'
    BY <1>6 DEF Close, Destroy, TypeOK, CallsOwned, Idle
  <2> QED  BY <2>1, <2>2
<1>7. ASSUME NEW o \in Object,
             Listen(o) \/ \E name \in Address : Bind(o, name)
      PROVE  HandlesOwned' /\ CallsOwned'
  <2>1. Open' = Open
    BY <1>7 DEF Bind, Listen, TypeOK, Descriptor
  <2>2. UNCHANGED <<live, handle, call>>
    BY <1>7 DEF Bind, Listen
  <2> QED  BY <2>1, <2>2, OwnersStay DEF CallsOwned
<1>8. ASSUME NEW o \in Object, NEW result \in Object, StartAccept(o, result)
      PROVE  HandlesOwned' /\ CallsOwned'
  <2>1. HandlesOwned'
    BY <1>8, OwnersStay DEF StartAccept, TypeOK, Idle
  <2>2. \A p \in Object : call[p].result # result
    BY <1>8, <1>a DEF StartAccept, TypeOK
  <2>3. CallsOwned'
    BY <1>8, <2>2 DEF StartAccept, TypeOK, CallsOwned, Idle
  <2> QED  BY <2>1, <2>3
<1>9. ASSUME NEW o \in Object, NEW h \in Handle, NEW client \in Address,
             AcceptReturns(o, h, client)
      PROVE  HandlesOwned' /\ CallsOwned'
  <2>1. Open' = Open \cup {h}
    BY <1>9 DEF AcceptReturns, TypeOK, Accepted, Descriptor
  <2>2. \A p \in Object : call'[p].got = IF p = o THEN h ELSE call[p].got
    BY <1>9 DEF AcceptReturns, TypeOK, Call
  <2>3. HandlesOwned'
    <3>1. h \notin Open /\ UNCHANGED handle
      BY <1>9 DEF AcceptReturns
    <3> QED  BY <2>1, <2>2, <3>1 DEF HandlesOwned, TypeOK
  <2>4. \A p \in Object : call'[p].result = call[p].result
    BY <1>9 DEF AcceptReturns, TypeOK, Call
  <2>5. CallsOwned'
    BY <1>9, <2>4 DEF AcceptReturns, TypeOK, Call, CallsOwned, Idle
  <2> QED  BY <2>3, <2>5
<1>10. ASSUME NEW o \in Object, AcceptThrows(o)
       PROVE  HandlesOwned' /\ CallsOwned'
  <2>1. call[o].got = NoHandle
    BY <1>10 DEF AcceptThrows, CallsOwned
  <2>2. HandlesOwned'
    BY <1>10, <2>1, <1>a, OwnersStay DEF AcceptThrows, TypeOK
  <2>3. CallsOwned'
    BY <1>10, <1>a DEF AcceptThrows, TypeOK, CallsOwned
  <2> QED  BY <2>2, <2>3
<1>11. ASSUME NEW o \in Object, NEW h \in Handle, AcceptEnds(o, h)
       PROVE  HandlesOwned' /\ CallsOwned'
  <2>1. Open' = Open \cup {h}
    BY <1>11 DEF AcceptEnds, TypeOK, New, Closed
  <2>2. /\ call[o].got \in Handle
        /\ call[o].result \in Object
        /\ handle[call[o].result] = NoHandle
        /\ call[o].result # o
    BY <1>11, <1>a DEF AcceptEnds, TypeOK, CallsOwned
  <2>3. \A p \in Object : /\ call'[p].got = IF p = o THEN NoHandle ELSE call[p].got
                          /\ handle'[p] = IF p = call[o].result
                                            THEN call[o].got ELSE handle[p]
    BY <1>11, <1>a DEF AcceptEnds, TypeOK
  <2>4. HandlesOwned'
    BY <2>1, <2>2, <2>3 DEF TypeOK, HandlesOwned
  <2>5. CallsOwned'
    BY <1>11, <2>2, <2>3, <1>a DEF AcceptEnds, TypeOK, CallsOwned
  <2> QED  BY <2>4, <2>5
<1>12. ASSUME NEW o \in Object, AcceptLoses(o)
       PROVE  HandlesOwned' /\ CallsOwned'
  <2>1. \A p \in Object : call'[p].got = IF p = o THEN NoHandle ELSE call[p].got
    BY <1>12, <1>a DEF AcceptLoses, TypeOK
  <2>2. HandlesOwned'
    BY <1>12, <2>1 DEF AcceptLoses, TypeOK, HandlesOwned
  <2>3. CallsOwned'
    BY <1>12, <1>a DEF AcceptLoses, TypeOK, CallsOwned
  <2> QED  BY <2>2, <2>3
<1>13. ASSUME NEW o \in Object, NEW to \in Address, NEW wait \in Wait,
              StartConnect(o, to, wait)
       PROVE  HandlesOwned' /\ CallsOwned'
  <2>1. Open' = Open
    BY <1>13 DEF StartConnect, TypeOK, Descriptor
  <2>2. HandlesOwned'
    BY <1>13, <2>1, OwnersStay DEF StartConnect, TypeOK, Idle
  <2>3. CallsOwned'
    BY <1>13 DEF StartConnect, TypeOK, CallsOwned, Idle
  <2> QED  BY <2>2, <2>3
<1>14. ASSUME NEW o \in Object, ConnectStep(o)
       PROVE  HandlesOwned' /\ CallsOwned'
  <2>1. call[o].pc \in {"connect", "poll", "restore"}
    BY <1>14 DEF ConnectStep, ConnectAtOnce, ConnectStarts, ConnectFails, PollThrows,
                 PollFinds, ConnectReturns
  <2>2. HandlesOwned'
    BY <1>14, ConnectKeeps, OwnersStay
  <2>3. /\ UNCHANGED <<live, handle>>
        /\ call'[o] = Idle \/ call'[o].pc \in {"poll", "restore"}
        /\ \A p \in Object : /\ p # o => call'[p] = call[p]
                             /\ call'[p].got = call[p].got
                             /\ call'[p].result = call[p].result
    BY <1>14, ConnectKeeps
  <2>4. CallsOwned'
    BY <2>1, <2>3, <1>a DEF CallsOwned
  <2> QED  BY <2>2, <2>4
<1>15. CASE UNCHANGED vars
  BY <1>15, OwnersStay DEF vars, CallsOwned
<1> QED
  BY <1>1, <1>2, <1>3, <1>5, <1>6, <1>7, <1>8, <1>9, <1>10, <1>11, <1>12,
     <1>13, <1>14, <1>15
     DEF Next

\* No descriptor is in two objects, none is in an object after it was closed.
THEOREM HandlesAreOwned == Spec => [](HandlesOwned /\ CallsOwned)
<1>1. Init => HandlesOwned /\ CallsOwned
  BY DEF Init, HandlesOwned, CallsOwned, Owned, Taken, Idle
<1> QED  BY <1>1, StepOwned, SocketTyped, PTL DEF Spec

-----------------------------------------------------------------------------
(* What Connect tells *)

\* The parts of ConnectHistory: of a descriptor, of the one an Accept has under
\* way, and of an object.
Untried(h) ==
    /\ tries[h] = 0 => told[h] = "nothing" /\ kernel[h].mode = "blocking"
    /\ kernel[h].state = "closed" => tries[h] = 0

GotUntried(o) == call[o].got # NoHandle => tries[call[o].got] = 0

Honest(o) ==
    LET h == handle[o]
    IN  h # NoHandle =>
          /\ ConnectUnderWay(o)
          /\ told[h] = "returned" =>
               /\ kernel[h].state = "connected"
               /\ tries[h] = 1 =>
                    kernel[h].mode = "blocking" /\ kernel[h].name = address[o]

LEMMA HistoryParts ==
    TypeOK => (ConnectHistory <=> /\ \A h \in Handle : Untried(h)
                                  /\ \A o \in Object : GotUntried(o) /\ Honest(o))
BY DEF TypeOK, ConnectHistory, ConnectedAsTold, Untried, GotUntried, Honest

\* The steps that do not concern a descriptor or an object.
LEMMA UntriedStays ==
    ASSUME NEW h \in Handle, Untried(h), tries'[h] = tries[h], told'[h] = told[h],
           kernel'[h].mode = kernel[h].mode,
           kernel'[h].state = "closed" => kernel[h].state = "closed"
    PROVE  Untried(h)'
BY DEF Untried

LEMMA GotStays ==
    ASSUME TypeOK, NEW o \in Object, GotUntried(o), call'[o].got = call[o].got,
           call[o].got # NoHandle => tries'[call[o].got] = tries[call[o].got]
    PROVE  GotUntried(o)'
BY DEF GotUntried

LEMMA HonestStays ==
    ASSUME TypeOK, NEW o \in Object, Honest(o),
           handle'[o] = handle[o], call'[o] = call[o], address'[o] = address[o],
           handle[o] # NoHandle =>
             /\ kernel'[handle[o]].state = kernel[handle[o]].state
             /\ kernel'[handle[o]].mode = kernel[handle[o]].mode
             /\ kernel'[handle[o]].name = kernel[handle[o]].name
             /\ tries'[handle[o]] = tries[handle[o]]
             /\ told'[handle[o]] = told[handle[o]]
    PROVE  Honest(o)'
BY DEF Honest, ConnectUnderWay

\* A step that changes only what belongs to one object keeps the rest.
LEMMA OneChanges ==
    ASSUME TypeOK, HandlesOwned, NEW o \in Object, handle[o] \in Handle,
           UNCHANGED handle,
           \A p \in Object : GotUntried(p) /\ Honest(p),
           \A h \in Handle : Untried(h),
           \A p \in Object \ {o} : call'[p] = call[p] /\ address'[p] = address[p],
           \A h \in Handle \ {handle[o]} : /\ kernel'[h] = kernel[h]
                                           /\ tries'[h] = tries[h]
                                           /\ told'[h] = told[h],
           call'[o].got = NoHandle, Untried(handle[o])', Honest(o)'
    PROVE  /\ \A h \in Handle : Untried(h)'
           /\ \A p \in Object : GotUntried(p)' /\ Honest(p)'
<1>1. ASSUME NEW h \in Handle PROVE Untried(h)'
  <2>1. CASE h = handle[o]
    BY <2>1
  <2>2. CASE h # handle[o]
    BY <2>2, UntriedStays
  <2> QED  BY <2>1, <2>2
<1>2. ASSUME NEW p \in Object PROVE GotUntried(p)' /\ Honest(p)'
  <2>1. CASE p = o
    BY <2>1 DEF GotUntried
  <2>2. CASE p # o
    <3>1. handle[p] # NoHandle => handle[p] \in Handle \ {handle[o]}
      BY <2>2 DEF HandlesOwned, TypeOK
    <3>2. call[p].got # NoHandle => call[p].got \in Handle \ {handle[o]}
      BY DEF HandlesOwned, TypeOK, Call
    <3>3. GotUntried(p)'
      BY <2>2, <3>2, GotStays
    <3>4. Honest(p)'
      BY <2>2, <3>1, HonestStays
    <3> QED  BY <3>3, <3>4
  <2> QED  BY <2>1, <2>2
<1> QED  BY <1>1, <1>2

LEMMA StepHistory ==
    TypeOK /\ HandlesOwned /\ CallsOwned /\ ConnectHistory /\ [Next]_vars
      => ConnectHistory'
<1> SUFFICES ASSUME TypeOK, HandlesOwned, CallsOwned, ConnectHistory, [Next]_vars
             PROVE  ConnectHistory'
  OBVIOUS
<1>h. /\ \A h \in Handle : Untried(h)
      /\ \A o \in Object : GotUntried(o) /\ Honest(o)
  BY HistoryParts
<1> SUFFICES /\ \A h \in Handle : Untried(h)'
             /\ \A o \in Object : GotUntried(o)' /\ Honest(o)'
  <2>1. TypeOK'
    BY StepTyped
  <2> QED
    BY <2>1 DEF TypeOK, ConnectHistory, ConnectedAsTold, Untried, GotUntried, Honest
<1> DEFINE Goal == /\ \A h \in Handle : Untried(h)'
                   /\ \A o \in Object : GotUntried(o)' /\ Honest(o)'
<1>a. /\ Idle.pc = "idle" /\ Idle.got = NoHandle /\ Idle.result = NoObject
      /\ New.state = "new" /\ New.mode = "blocking" /\ New.name = NoAddress
      /\ Closed.state = "closed" /\ Closed.mode = "blocking"
  BY DEF Idle, New, Closed
<1>b. ASSUME NEW o \in Object, call'[o] = Idle, handle'[o] # NoHandle,
             told'[handle'[o]] # "returned"
      PROVE  Honest(o)'
  BY <1>b, <1>a DEF Honest, ConnectUnderWay
<1>c. ASSUME NEW h \in Handle, tries'[h] = 0, told'[h] = "nothing",
             kernel'[h].mode = "blocking"
      PROVE  Untried(h)'
  BY <1>c DEF Untried
<1>1. ASSUME NEW h \in Handle, ConnectionEnds(h) PROVE Goal
  <2>1. PICK state \in {"connected", "failed"} :
          kernel' = [kernel EXCEPT ![h].state = state]
    BY <1>1 DEF ConnectionEnds
  <2>2. \A g \in Handle :
          /\ kernel'[g].mode = kernel[g].mode
          /\ kernel'[g].name = kernel[g].name
          /\ kernel'[g].state = IF g = h THEN state ELSE kernel[g].state
    BY <2>1 DEF TypeOK, Descriptor
  <2>3. kernel[h].state = "connecting" /\ UNCHANGED <<handle, address, call, tries, told>>
    BY <1>1 DEF ConnectionEnds
  <2>4. \A g \in Handle : Untried(g)'
    BY <2>2, <2>3, <1>h, UntriedStays
  <2>5. ASSUME NEW o \in Object PROVE GotUntried(o)' /\ Honest(o)'
    <3>1. GotUntried(o)'
      BY <2>3, <1>h DEF GotUntried
    <3>2. CASE handle[o] = h
      BY <3>1, <3>2, <2>2, <2>3, <1>h DEF Honest, ConnectUnderWay
    <3>3. CASE handle[o] # h
      BY <3>1, <3>3, <2>2, <2>3, <1>h, HonestStays DEF TypeOK
    <3> QED  BY <3>1, <3>2, <3>3
  <2> QED  BY <2>4, <2>5
<1>2. ASSUME NEW h \in Handle, ClientArrives(h) PROVE Goal
  <2>1. \A g \in Handle : /\ kernel'[g].mode = kernel[g].mode
                          /\ kernel'[g].name = kernel[g].name
                          /\ kernel'[g].state = kernel[g].state
    BY <1>2 DEF ClientArrives, TypeOK, Descriptor
  <2>2. UNCHANGED <<handle, address, call, tries, told>>
    BY <1>2 DEF ClientArrives
  <2> QED  BY <2>1, <2>2, <1>h, UntriedStays, GotStays, HonestStays DEF TypeOK, Call
<1>3. ASSUME NEW o \in Object, NEW h \in Handle, Construct(o, h) PROVE Goal
  <2>1. tries[h] = 0 /\ told[h] = "nothing"
    BY <1>3, <1>h DEF Construct, Untried
  <2>2. kernel'[h].mode = "blocking" /\ \A g \in Handle \ {h} : kernel'[g] = kernel[g]
    BY <1>3, <1>a DEF Construct, TypeOK
  <2>3. UNCHANGED <<call, tries, told>>
    BY <1>3 DEF Construct
  <2>4. ASSUME NEW g \in Handle PROVE Untried(g)'
    BY <2>1, <2>2, <2>3, <1>c, <1>h, UntriedStays
  <2>5. ASSUME NEW p \in Object PROVE GotUntried(p)' /\ Honest(p)'
    <3>1. GotUntried(p)'
      BY <2>3, <1>h DEF GotUntried
    <3>2. CASE p = o
      <4>1. call'[p] = Idle /\ handle'[p] = h
        BY <3>2, <1>3 DEF Construct, TypeOK
      <4> QED  BY <3>1, <3>2, <4>1, <2>1, <2>3, <1>b, NullAssumption
    <3>3. CASE p # o
      <4>1. handle'[p] = handle[p] /\ address'[p] = address[p]
        BY <3>3, <1>3 DEF Construct, TypeOK
      <4>2. handle[p] # NoHandle => handle[p] \in Handle \ {h}
        BY <1>3 DEF Construct, HandlesOwned, TypeOK
      <4> QED  BY <3>1, <4>1, <4>2, <2>2, <2>3, <1>h, HonestStays
    <3> QED  BY <3>1, <3>2, <3>3
  <2> QED  BY <2>4, <2>5
<1>4. ASSUME NEW o \in Object, NEW other \in Object, MoveConstruct(o, other)
      PROVE  Goal
  <2>1. /\ handle'[o] = handle[other] /\ address'[o] = address[other]
        /\ call[o] = Idle /\ call[other] = Idle /\ o # other
        /\ handle'[other] = NoHandle
        /\ \A p \in Object \ {o, other} :
             handle'[p] = handle[p] /\ address'[p] = address[p]
        /\ UNCHANGED <<call, kernel, tries, told>>
    BY <1>4 DEF MoveConstruct, TypeOK
  <2> QED  BY <2>1, <1>a, <1>h DEF Untried, GotUntried, Honest, ConnectUnderWay
<1>5. ASSUME NEW o \in Object, CloseHandle(o)
      PROVE  /\ \A g \in Handle : Untried(g)'
             /\ \A g \in Handle \ {handle[o]} : /\ kernel'[g] = kernel[g]
                                                /\ tries'[g] = tries[g]
                                                /\ told'[g] = told[g]
  <2>1. CASE handle[o] = NoHandle
    BY <2>1, <1>5, <1>h, UntriedStays DEF CloseHandle
  <2>2. CASE handle[o] # NoHandle
    <3>1. /\ kernel' = [kernel EXCEPT ![handle[o]] = Closed]
          /\ Forget(handle[o])
      BY <2>2, <1>5 DEF CloseHandle
    <3>2. /\ tries'[handle[o]] = 0 /\ told'[handle[o]] = "nothing"
          /\ kernel'[handle[o]] = Closed
      BY <3>1, <2>2 DEF Forget, TypeOK
    <3>3. \A g \in Handle \ {handle[o]} : /\ kernel'[g] = kernel[g]
                                          /\ tries'[g] = tries[g]
                                          /\ told'[g] = told[g]
      BY <3>1 DEF Forget, TypeOK
    <3> QED  BY <3>2, <3>3, <1>a, <1>c, <1>h, UntriedStays
  <2> QED  BY <2>1, <2>2
<1>6. ASSUME NEW o \in Object, CloseHandle(o), UNCHANGED call, NEW p \in Object,
             p # o
      PROVE  /\ GotUntried(p)'
             /\ handle[p] # NoHandle => handle[p] \in Handle \ {handle[o]}
  <2>1. call[p].got # NoHandle => call[p].got \in Handle \ {handle[o]}
    BY DEF HandlesOwned, TypeOK, Call
  <2>2. GotUntried(p)'
    BY <1>6, <2>1, <1>5, <1>h, GotStays
  <2>3. handle[p] # NoHandle => handle[p] \in Handle \ {handle[o]}
    BY <1>6 DEF HandlesOwned, TypeOK
  <2> QED  BY <2>2, <2>3
<1>7. ASSUME NEW o \in Object, NEW other \in Object, MoveAssign(o, other) PROVE Goal
  <2>1. CloseHandle(o) /\ UNCHANGED call /\ call[o] = Idle /\ call[other] = Idle
    BY <1>7 DEF MoveAssign
  <2>2. ASSUME NEW p \in Object PROVE GotUntried(p)'
    BY <2>1, <1>6, <1>a DEF GotUntried
  <2>3. handle'[other] = NoHandle
    BY <1>7 DEF MoveAssign, TypeOK
  <2>4. o # other => handle'[o] = handle[other] /\ address'[o] = address[other]
    BY <1>7 DEF MoveAssign, TypeOK
  <2>5. \A p \in Object \ {o, other} :
          handle'[p] = handle[p] /\ address'[p] = address[p]
    BY <1>7 DEF MoveAssign, TypeOK
  <2>6. ASSUME NEW p \in Object PROVE Honest(p)'
    <3>1. CASE p = other
      BY <3>1, <2>3 DEF Honest
    <3>2. CASE p = o /\ o # other
      <4>1. handle[other] # NoHandle => handle[other] \in Handle \ {handle[o]}
        BY <3>2, <2>1, <1>6
      <4> QED  BY <3>2, <4>1, <2>1, <2>4, <1>5, <1>h, <1>a DEF Honest, ConnectUnderWay
    <3>3. CASE p # o /\ p # other
      <4>1. handle[p] # NoHandle => handle[p] \in Handle \ {handle[o]}
        BY <3>3, <2>1, <1>6
      <4> QED  BY <3>3, <4>1, <2>1, <2>5, <1>5, <1>h, HonestStays
    <3> QED  BY <3>1, <3>2, <3>3
  <2> QED  BY <2>1, <2>2, <2>6, <1>5
<1>8. ASSUME NEW o \in Object, Close(o) \/ Destroy(o) PROVE Goal
  <2>1. CloseHandle(o) /\ UNCHANGED call /\ call[o] = Idle
    BY <1>8 DEF Close, Destroy
  <2>2. ASSUME NEW p \in Object PROVE GotUntried(p)'
    BY <2>1, <1>6, <1>a DEF GotUntried
  <2>3. handle'[o] = NoHandle
    BY <1>8 DEF Close, Destroy, TypeOK
  <2>4. UNCHANGED address /\ \A p \in Object \ {o} : handle'[p] = handle[p]
    BY <1>8 DEF Close, Destroy, TypeOK
  <2>5. ASSUME NEW p \in Object PROVE Honest(p)'
    <3>1. CASE p = o
      BY <3>1, <2>3 DEF Honest
    <3>2. CASE p # o
      <4>1. handle[p] # NoHandle => handle[p] \in Handle \ {handle[o]}
        BY <3>2, <2>1, <1>6
      <4> QED  BY <3>2, <4>1, <2>1, <2>4, <1>5, <1>h, HonestStays
    <3> QED  BY <3>1, <3>2
  <2> QED  BY <2>1, <2>2, <2>5, <1>5
<1>d. ASSUME NEW o \in Object, handle[o] # NoHandle
      PROVE  handle[o] \in Handle /\ kernel[handle[o]].state # "closed"
  BY <1>d DEF HandlesOwned, TypeOK
<1>9. ASSUME NEW o \in Object, Listen(o) \/ \E name \in Address : Bind(o, name)
      PROVE  Goal
  <2> DEFINE h == handle[o]
  <2>1. h \in Handle /\ kernel[h].state = "new" /\ call[o] = Idle
    BY <1>9 DEF Listen, Bind, TypeOK
  <2>2. /\ kernel'[h].mode = kernel[h].mode /\ kernel'[h].state # "closed"
        /\ \A g \in Handle \ {h} : kernel'[g] = kernel[g]
    BY <1>9, <2>1 DEF Listen, Bind, TypeOK, Descriptor
  <2>3. UNCHANGED <<handle, call, tries, told>>
    BY <1>9 DEF Listen, Bind
  <2>4. \A p \in Object \ {o} : address'[p] = address[p]
    BY <1>9 DEF Listen, Bind, TypeOK
  <2>5. told[h] # "returned"
    BY <2>1, <1>h, NullAssumption DEF Honest
  <2>6. Honest(o)'
    BY <2>1, <2>3, <2>5, <1>b, NullAssumption
  <2>7. Untried(h)'
    BY <2>1, <2>2, <2>3, <1>h, UntriedStays
  <2> QED  BY <2>1, <2>2, <2>3, <2>4, <2>6, <2>7, <1>h, <1>a, OneChanges
<1>10. ASSUME NEW o \in Object, AcceptThrows(o) \/ \E r \in Object : StartAccept(o, r)
       PROVE  Goal
  <2>1. /\ UNCHANGED <<handle, address, kernel, tries, told>>
        /\ \A p \in Object \ {o} : call'[p] = call[p]
        /\ call'[o].got = NoHandle /\ call'[o].pc \in {"idle", "accept"}
    <3>1. CASE AcceptThrows(o)
      BY <3>1, <1>a DEF AcceptThrows, TypeOK
    <3>2. ASSUME NEW r \in Object, StartAccept(o, r)
          PROVE  /\ UNCHANGED <<handle, address, kernel, tries, told>>
                 /\ \A p \in Object \ {o} : call'[p] = call[p]
                 /\ call'[o].got = NoHandle /\ call'[o].pc = "accept"
      BY <3>2 DEF StartAccept, TypeOK, Idle
    <3> QED  BY <1>10, <3>1, <3>2
  <2>2. \A g \in Handle : Untried(g)'
    BY <2>1, <1>h, UntriedStays
  <2>3. ASSUME NEW p \in Object PROVE GotUntried(p)' /\ Honest(p)'
    <3>1. CASE p = o
      BY <3>1, <2>1, <1>h DEF GotUntried, Honest, ConnectUnderWay
    <3>2. CASE p # o
      BY <3>2, <2>1, <1>h, GotStays, HonestStays
    <3> QED  BY <3>1, <3>2
  <2> QED  BY <2>2, <2>3
<1>11. ASSUME NEW o \in Object, NEW h \in Handle, NEW client \in Address,
              AcceptReturns(o, h, client)
       PROVE  Goal
  <2>1. tries[h] = 0 /\ told[h] = "nothing"
    BY <1>11, <1>h DEF AcceptReturns, Untried
  <2>2. handle[o] \in Handle \ {h}
    BY <1>11, <1>d DEF AcceptReturns, CallsOwned
  <2>3. /\ kernel'[h].mode = "blocking"
        /\ \A g \in Handle \ {h} : /\ kernel'[g].mode = kernel[g].mode
                                   /\ kernel'[g].name = kernel[g].name
                                   /\ kernel'[g].state = kernel[g].state
    BY <1>11, <2>2 DEF AcceptReturns, Accepted, TypeOK, Descriptor
  <2>4. /\ UNCHANGED <<handle, address, tries, told>>
        /\ \A p \in Object \ {o} : call'[p] = call[p]
        /\ call'[o].got = h /\ call'[o].pc = "wrap"
    BY <1>11 DEF AcceptReturns, TypeOK, Call
  <2>5. \A g \in Handle : Untried(g)'
    BY <2>1, <2>3, <2>4, <1>c, <1>h, UntriedStays
  <2>6. \A p \in Object : handle[p] # NoHandle => handle[p] \in Handle \ {h}
    BY <1>11, <1>d DEF AcceptReturns
  <2>7. ASSUME NEW p \in Object PROVE GotUntried(p)' /\ Honest(p)'
    <3>1. CASE p = o
      BY <3>1, <2>1, <2>2, <2>3, <2>4, <1>h DEF GotUntried, Honest, ConnectUnderWay
    <3>2. CASE p # o
      <4>1. GotUntried(p)'
        BY <3>2, <2>4, <1>h, GotStays
      <4> QED  BY <3>2, <4>1, <2>3, <2>4, <2>6, <1>h, HonestStays
    <3> QED  BY <3>1, <3>2
  <2> QED  BY <2>5, <2>7
<1>12. ASSUME NEW o \in Object, NEW h \in Handle, AcceptEnds(o, h) PROVE Goal
  <2> DEFINE r == call[o].result
             got == call[o].got
  <2>1. tries[h] = 0 /\ told[h] = "nothing"
    BY <1>12, <1>h DEF AcceptEnds, Untried
  <2>2. got \in Handle /\ tries[got] = 0 /\ told[got] = "nothing"
    BY <1>12, <1>h, NullAssumption DEF AcceptEnds, TypeOK, GotUntried, Untried
  <2>3. r \in Object /\ r # o /\ call[r] = Idle
    BY <1>12, <1>a DEF AcceptEnds, TypeOK, CallsOwned
  <2>4. kernel'[h].mode = "blocking" /\ \A g \in Handle \ {h} : kernel'[g] = kernel[g]
    BY <1>12, <1>a DEF AcceptEnds, TypeOK
  <2>5. /\ UNCHANGED <<tries, told>>
        /\ handle'[r] = got /\ call'[o] = Idle
        /\ \A p \in Object \ {r} : handle'[p] = handle[p] /\ address'[p] = address[p]
        /\ \A p \in Object \ {o} : call'[p] = call[p]
    BY <1>12, <2>3 DEF AcceptEnds, TypeOK
  <2>6. \A g \in Handle : Untried(g)'
    BY <2>1, <2>4, <2>5, <1>c, <1>h, UntriedStays
  <2>7. \A p \in Object : handle[p] # NoHandle => handle[p] \in Handle \ {h}
    BY <1>12, <1>d DEF AcceptEnds
  <2>8. ASSUME NEW p \in Object PROVE GotUntried(p)'
    BY <2>5, <1>h, <1>a DEF GotUntried
  <2>9. ASSUME NEW p \in Object PROVE Honest(p)'
    <3>1. CASE p = r
      BY <3>1, <2>2, <2>3, <2>5, <1>b, NullAssumption
    <3>2. CASE p = o
      BY <3>2, <2>3, <2>4, <2>5, <2>7, <1>h, <1>a DEF Honest, ConnectUnderWay
    <3>3. CASE p # r /\ p # o
      BY <3>3, <2>4, <2>5, <2>7, <1>h, HonestStays
    <3> QED  BY <3>1, <3>2, <3>3
  <2> QED  BY <2>6, <2>8, <2>9
<1>13. ASSUME NEW o \in Object, AcceptLoses(o) PROVE Goal
  <2>1. /\ UNCHANGED <<handle, address, kernel, tries, told>>
        /\ \A p \in Object \ {o} : call'[p] = call[p]
        /\ call'[o] = Idle
    BY <1>13 DEF AcceptLoses, TypeOK
  <2>2. \A g \in Handle : Untried(g)'
    BY <2>1, <1>h, UntriedStays
  <2>3. ASSUME NEW p \in Object PROVE GotUntried(p)' /\ Honest(p)'
    <3>1. CASE p = o
      BY <3>1, <2>1, <1>a, <1>h DEF GotUntried, Honest, ConnectUnderWay
    <3>2. CASE p # o
      BY <3>2, <2>1, <1>h, GotStays, HonestStays
    <3> QED  BY <3>1, <3>2
  <2> QED  BY <2>2, <2>3
<1>14. ASSUME NEW o \in Object, NEW to \in Address, NEW wait \in Wait,
              StartConnect(o, to, wait)
       PROVE  Goal
  <2> DEFINE h == handle[o]
  <2>1. h \in Handle /\ kernel[h].state # "closed"
    BY <1>14, <1>d DEF StartConnect
  <2>2. /\ kernel'[h].state = kernel[h].state
        /\ kernel'[h].mode = IF wait = "limited" THEN "nonblocking" ELSE kernel[h].mode
        /\ \A g \in Handle \ {h} : kernel'[g] = kernel[g]
    BY <1>14, <2>1 DEF StartConnect, TypeOK, Descriptor
  <2>3. /\ UNCHANGED <<handle, address>>
        /\ tries'[h] = (IF tries[h] = 0 THEN 1 ELSE 2) /\ told'[h] = "nothing"
        /\ \A g \in Handle \ {h} : tries'[g] = tries[g] /\ told'[g] = told[g]
    BY <1>14, <2>1 DEF StartConnect, TypeOK
  <2>4. /\ call'[o].pc = "connect" /\ call'[o].wait = wait /\ call'[o].got = NoHandle
        /\ \A p \in Object \ {o} : call'[p] = call[p]
    BY <1>14 DEF StartConnect, TypeOK, Idle
  <2>5. Untried(h)'
    BY <2>1, <2>2, <2>3 DEF Untried
  <2>6. tries[h] = 0 => kernel[h].mode = "blocking"
    BY <2>1, <1>h DEF Untried
  <2>7. Honest(o)'
    BY <2>2, <2>3, <2>4, <2>6 DEF Honest, ConnectUnderWay
  <2> QED  BY <2>1, <2>2, <2>3, <2>4, <2>5, <2>7, <1>h, OneChanges
<1>15. ASSUME NEW o \in Object, ConnectStep(o) PROVE Goal
  <2> DEFINE h == handle[o]
  <2>1. /\ call[o].pc \in {"connect", "poll", "restore"} /\ call[o].got = NoHandle
        /\ h \in Handle /\ kernel[h].state # "closed"
    BY <1>15, <1>d DEF ConnectStep, ConnectAtOnce, ConnectStarts, ConnectFails, PollThrows,
                       PollFinds, ConnectReturns, CallsOwned
  <2>2. ConnectUnderWay(o)
    BY <2>1, <1>h, NullAssumption DEF Honest
  <2>3. tries[h] # 0
    BY <2>1, <2>2 DEF ConnectUnderWay
  <2>4. /\ UNCHANGED <<handle, tries>>
        /\ \A p \in Object \ {o} : call'[p] = call[p] /\ address'[p] = address[p]
        /\ \A g \in Handle \ {h} : told'[g] = told[g]
    BY <1>15, <2>1
       DEF ConnectStep, ConnectAtOnce, ConnectStarts, ConnectFails, Throw, PollThrows,
           PollFinds, ConnectReturns, TypeOK
  <2> DEFINE Small == /\ \A g \in Handle \ {h} : kernel'[g] = kernel[g]
                      /\ kernel'[h].state # "closed"
                      /\ call'[o].got = NoHandle
                      /\ Honest(o)'
  <2>5. SUFFICES Small
    <3>1. kernel'[h].state # "closed" => Untried(h)'
      BY <2>3, <2>4 DEF Untried
    <3> QED  BY <3>1, <2>1, <2>4, <1>h, OneChanges
  <2>6. CASE UNCHANGED kernel /\ Throw(o)
    <3>1. call'[o] = Idle /\ told'[h] = "threw"
      BY <2>6, <2>1 DEF Throw, TypeOK
    <3> QED  BY <3>1, <2>1, <2>4, <2>6, <1>a, <1>b, NullAssumption
  <2>7. ASSUME NEW state \in State \ {"closed"}, NEW name, Becomes(h, state, name)
        PROVE  /\ \A g \in Handle \ {h} : kernel'[g] = kernel[g]
               /\ kernel'[h].state = state
               /\ kernel'[h].mode = kernel[h].mode
               /\ kernel'[h].name = name
    BY <2>1, <2>7, BecomesState DEF TypeOK
  <2>8. ASSUME NEW state \in State \ {"closed"}, NEW name, Becomes(h, state, name),
               Throw(o)
        PROVE  Small
    <3>1. call'[o] = Idle /\ told'[h] = "threw"
      BY <2>8, <2>1 DEF Throw, TypeOK
    <3> QED  BY <3>1, <2>1, <2>4, <2>7, <2>8, <1>a, <1>b, NullAssumption
  <2>9. CASE ConnectAtOnce(o)
    <3>1. /\ call'[o].pc = "restore" /\ call'[o].got = NoHandle
          /\ call'[o].wait = call[o].wait /\ call'[o].to = call[o].to
          /\ UNCHANGED told /\ call[o].pc = "connect"
      BY <2>9, <2>1 DEF ConnectAtOnce, TypeOK, Call
    <3>2. \/ Becomes(h, "connected", call[o].to)
          \/ kernel[h].state = "connected" /\ tries[h] = 2 /\ UNCHANGED kernel
      BY <2>9 DEF ConnectAtOnce
    <3>3. /\ \A g \in Handle \ {h} : kernel'[g] = kernel[g]
          /\ kernel'[h].state = "connected"
          /\ kernel'[h].mode = kernel[h].mode
          /\ tries[h] = 1 => kernel'[h].name = call[o].to
      BY <3>2, <2>7
    <3>4. Honest(o)'
      BY <3>1, <3>3, <2>2, <2>4 DEF Honest, ConnectUnderWay
    <3> QED  BY <3>1, <3>3, <3>4
  <2>10. CASE ConnectStarts(o)
    <3>1. /\ call'[o].pc = "poll" /\ call'[o].got = NoHandle
          /\ call'[o].wait = call[o].wait /\ call'[o].to = call[o].to
          /\ UNCHANGED told /\ call[o].pc = "connect"
      BY <2>10, <2>1 DEF ConnectStarts, TypeOK, Call
    <3>2. /\ \A g \in Handle \ {h} : kernel'[g] = kernel[g]
          /\ kernel'[h].state = "connecting"
          /\ kernel'[h].mode = kernel[h].mode
          /\ kernel'[h].name = call[o].to
      BY <2>10, <2>7 DEF ConnectStarts
    <3>3. Honest(o)'
      BY <3>1, <3>2, <2>2, <2>4 DEF Honest, ConnectUnderWay
    <3> QED  BY <3>1, <3>2, <3>3
  <2>11. CASE ConnectFails(o) \/ PollThrows(o)
    <3>1. /\ Throw(o)
          /\ \/ UNCHANGED kernel
             \/ Becomes(h, "new", NoAddress)
             \/ Becomes(h, "connecting", call[o].to)
      BY <2>11 DEF ConnectFails, PollThrows, ErrorTaken
    <3> QED  BY <3>1, <2>6, <2>8
  <2>12. CASE PollFinds(o)
    <3>1. CASE ErrorTaken(h) /\ Throw(o)
      BY <3>1, <2>8 DEF ErrorTaken
    <3>2. CASE ~(ErrorTaken(h) /\ Throw(o))
      <4>1. /\ kernel[h].state = "connected" /\ call[o].pc = "poll"
            /\ call' = [call EXCEPT ![o].pc = "restore"] /\ UNCHANGED <<kernel, told>>
        BY <3>2, <2>12 DEF PollFinds
      <4>2. /\ call'[o].pc = "restore" /\ call'[o].got = NoHandle
            /\ call'[o].wait = call[o].wait /\ call'[o].to = call[o].to
        BY <4>1, <2>1 DEF TypeOK, Call
      <4>3. Honest(o)'
        BY <4>1, <4>2, <2>2, <2>4 DEF Honest, ConnectUnderWay
      <4> QED  BY <4>1, <4>2, <4>3, <2>1
    <3> QED  BY <3>1, <3>2
  <2>13. CASE ConnectReturns(o)
    <3>1. /\ call'[o] = Idle /\ told'[h] = "returned" /\ address'[o] = call[o].to
          /\ call[o].pc = "restore"
      BY <2>13, <2>1 DEF ConnectReturns, TypeOK
    <3>2. /\ \A g \in Handle \ {h} : kernel'[g] = kernel[g]
          /\ kernel'[h].state = kernel[h].state
          /\ kernel'[h].name = kernel[h].name
          /\ kernel'[h].mode = IF call[o].wait = "limited" THEN "blocking"
                                                           ELSE kernel[h].mode
      BY <2>13, <2>1 DEF ConnectReturns, TypeOK, Descriptor
    <3>3. call[o].wait \in Wait
      BY DEF TypeOK, Call
    <3>4. Honest(o)'
      BY <3>1, <3>2, <3>3, <2>2, <2>4, <1>a DEF Honest, ConnectUnderWay
    <3> QED  BY <3>1, <3>2, <3>4, <2>1, <1>a
  <2> QED  BY <1>15, <2>9, <2>10, <2>11, <2>12, <2>13 DEF ConnectStep
<1>16. CASE UNCHANGED vars
  BY <1>16, <1>h DEF vars, Untried, GotUntried, Honest, ConnectUnderWay
<1> QED
  BY <1>1, <1>2, <1>3, <1>4, <1>7, <1>8, <1>9, <1>10, <1>11, <1>12, <1>13, <1>14,
     <1>15, <1>16
     DEF Next

\* When the first Connect of a socket returns, the socket is connected to the address
\* it tells and blocks; when a later one returns it is at least connected.
THEOREM ConnectTellsTheTruth == Spec => []ConnectedAsTold
<1>1. Init => ConnectHistory
  BY DEF Init, ConnectHistory, ConnectedAsTold, Closed, Idle
<1>2. ConnectHistory => ConnectedAsTold
  BY DEF ConnectHistory
<1> QED  BY <1>1, <1>2, StepHistory, SocketTyped, HandlesAreOwned, PTL DEF Spec

-----------------------------------------------------------------------------
(* What Accept loses *)

Lost == {h \in Open : \A o \in Object : handle[o] # h /\ call[o].got # h}

LEMMA LostIsFinite ==
    /\ IsFiniteSet(Lost)
    /\ OneLostPerAccept <=> Cardinality(Lost) = accepts
<1>1. Open \ (Owned \cup Taken) = Lost
  BY DEF Lost, Owned, Taken
<1>2. IsFiniteSet(Lost)
  BY FiniteAssumption, FS_Subset DEF Lost
<1> QED  BY <1>1, <1>2 DEF OneLostPerAccept

LEMMA StepLost ==
    TypeOK /\ HandlesOwned /\ CallsOwned /\ OneLostPerAccept /\ [Next]_vars
      => OneLostPerAccept'
<1> SUFFICES ASSUME TypeOK, HandlesOwned, CallsOwned, OneLostPerAccept, [Next]_vars
             PROVE  OneLostPerAccept'
  OBVIOUS
<1>a. Idle.pc = "idle" /\ Idle.got = NoHandle /\ Idle.result = NoObject
  BY DEF Idle
<1>b. /\ IsFiniteSet(Lost) /\ Cardinality(Lost) = accepts
      /\ OneLostPerAccept' <=> Cardinality(Lost') = accepts'
  <2>1. OneLostPerAccept' <=> Cardinality(Lost') = accepts'
    <3>1. (Open \ (Owned \cup Taken))' = Lost'
      BY DEF Lost, Owned, Taken
    <3> QED  BY <3>1 DEF OneLostPerAccept
  <2> QED  BY <2>1, LostIsFinite
<1>c. ASSUME Lost' = Lost, UNCHANGED accepts PROVE OneLostPerAccept'
  BY <1>b, <1>c
<1>d. ASSUME NEW h, h \notin Lost, Lost' = Lost \cup {h}, accepts' = accepts + 1
      PROVE  OneLostPerAccept'
  BY <1>b, <1>d, FS_AddElement
<1>e. ASSUME Open' = Open, UNCHANGED <<handle, accepts>>,
             \A o \in Object : call'[o].got = call[o].got
      PROVE  OneLostPerAccept'
  BY <1>c, <1>e DEF Lost
<1>1. ASSUME NEW h \in Handle, ConnectionEnds(h) \/ ClientArrives(h)
      PROVE  OneLostPerAccept'
  <2>1. Open' = Open
    BY <1>1 DEF ConnectionEnds, ClientArrives, TypeOK, Descriptor
  <2> QED  BY <1>1, <2>1, <1>e DEF ConnectionEnds, ClientArrives
<1>2. ASSUME NEW o \in Object, NEW h \in Handle, Construct(o, h)
      PROVE  OneLostPerAccept'
  <2>1. Open' = Open \cup {h}
    BY <1>2 DEF Construct, TypeOK, New, Closed
  <2>2. /\ handle[o] = NoHandle /\ h \notin Open /\ UNCHANGED <<call, accepts>>
        /\ handle' = [handle EXCEPT ![o] = h]
    BY <1>2 DEF Construct, TypeOK
  <2>3. Lost' = Lost
    BY <2>1, <2>2 DEF Lost, TypeOK
  <2> QED  BY <2>2, <2>3, <1>c
<1>3. ASSUME NEW o \in Object, NEW other \in Object, MoveConstruct(o, other)
      PROVE  OneLostPerAccept'
  <2>1. /\ handle[o] = NoHandle /\ o # other /\ UNCHANGED <<call, kernel, accepts>>
        /\ handle' = [handle EXCEPT ![o] = handle[other], ![other] = NoHandle]
    BY <1>3 DEF MoveConstruct, TypeOK
  <2>2. Lost' = Lost
    BY <2>1 DEF Lost, TypeOK
  <2> QED  BY <2>1, <2>2, <1>c
<1>4. ASSUME NEW o \in Object, CloseHandle(o)
      PROVE  Open' = Open \ {handle[o]}
  BY <1>4 DEF CloseHandle, TypeOK, Closed
<1>5. ASSUME NEW o \in Object, NEW other \in Object, MoveAssign(o, other)
      PROVE  OneLostPerAccept'
  <2>1. Open' = Open \ {handle[o]} /\ UNCHANGED <<call, accepts>>
    BY <1>5, <1>4 DEF MoveAssign
  <2>2. handle' = IF o = other
                    THEN [handle EXCEPT ![o] = NoHandle]
                    ELSE [handle EXCEPT ![o] = handle[other], ![other] = NoHandle]
    BY <1>5 DEF MoveAssign
  <2>3. Lost' = Lost
    BY <2>1, <2>2 DEF Lost, TypeOK
  <2> QED  BY <2>1, <2>3, <1>c
<1>6. ASSUME NEW o \in Object, Close(o) \/ Destroy(o) PROVE OneLostPerAccept'
  <2>1. /\ Open' = Open \ {handle[o]} /\ UNCHANGED <<call, accepts>>
        /\ handle' = [handle EXCEPT ![o] = NoHandle]
    BY <1>6, <1>4 DEF Close, Destroy
  <2>2. Lost' = Lost
    BY <2>1 DEF Lost, TypeOK
  <2> QED  BY <2>1, <2>2, <1>c
<1>7. ASSUME NEW o \in Object, Listen(o) \/ \E name \in Address : Bind(o, name)
      PROVE  OneLostPerAccept'
  <2>1. Open' = Open
    BY <1>7 DEF Bind, Listen, TypeOK, Descriptor
  <2> QED  BY <1>7, <2>1, <1>e DEF Bind, Listen
<1>8. ASSUME NEW o \in Object, NEW result \in Object, StartAccept(o, result)
      PROVE  OneLostPerAccept'
  <2>1. \A p \in Object : call'[p].got = call[p].got
    BY <1>8 DEF StartAccept, TypeOK, Idle
  <2> QED  BY <1>8, <2>1, <1>e DEF StartAccept
<1>9. ASSUME NEW o \in Object, NEW h \in Handle, NEW client \in Address,
             AcceptReturns(o, h, client)
      PROVE  OneLostPerAccept'
  <2>1. Open' = Open \cup {h}
    BY <1>9 DEF AcceptReturns, TypeOK, Accepted, Descriptor
  <2>2. \A p \in Object : call'[p].got = IF p = o THEN h ELSE call[p].got
    BY <1>9 DEF AcceptReturns, TypeOK, Call
  <2>3. /\ call[o].got = NoHandle /\ h \notin Open
        /\ UNCHANGED <<handle, accepts>>
    BY <1>9 DEF AcceptReturns, CallsOwned
  <2>4. Lost' = Lost
    BY <2>1, <2>2, <2>3 DEF Lost
  <2> QED  BY <2>3, <2>4, <1>c
<1>10. ASSUME NEW o \in Object, AcceptThrows(o) PROVE OneLostPerAccept'
  <2>1. \A p \in Object : call'[p].got = call[p].got
    BY <1>10, <1>a DEF AcceptThrows, TypeOK, CallsOwned
  <2> QED  BY <1>10, <2>1, <1>e DEF AcceptThrows
<1>11. ASSUME NEW o \in Object, NEW h \in Handle, AcceptEnds(o, h)
       PROVE  OneLostPerAccept'
  <2>1. Open' = Open \cup {h} /\ h \notin Open /\ accepts' = accepts + 1
    BY <1>11 DEF AcceptEnds, TypeOK, New, Closed
  <2>2. /\ call[o].got \in Handle
        /\ call[o].result \in Object
        /\ handle[call[o].result] = NoHandle
    BY <1>11, <1>a DEF AcceptEnds, TypeOK, CallsOwned
  <2>3. \A p \in Object : /\ call'[p].got = IF p = o THEN NoHandle ELSE call[p].got
                          /\ handle'[p] = IF p = call[o].result
                                            THEN call[o].got ELSE handle[p]
    BY <1>11, <1>a DEF AcceptEnds, TypeOK
  <2>4. \A p \in Object : handle[p] # h /\ call[p].got # h
    BY <2>1 DEF HandlesOwned
  <2>5. Lost' = Lost \cup {h} /\ h \notin Lost
    BY <2>1, <2>2, <2>3, <2>4 DEF Lost
  <2> QED  BY <2>1, <2>5, <1>d
<1>12. ASSUME NEW o \in Object, AcceptLoses(o) PROVE OneLostPerAccept'
  <2>1. \A p \in Object : call'[p].got = IF p = o THEN NoHandle ELSE call[p].got
    BY <1>12, <1>a DEF AcceptLoses, TypeOK
  <2>2. /\ call[o].got \in Open /\ accepts' = accepts + 1
        /\ UNCHANGED <<handle, kernel>>
    BY <1>12 DEF AcceptLoses, TypeOK, HandlesOwned
  <2>3. \A p \in Object : /\ handle[p] # call[o].got
                          /\ p # o => call[p].got # call[o].got
    BY <2>2 DEF HandlesOwned
  <2>4. Lost' = Lost \cup {call[o].got} /\ call[o].got \notin Lost
    BY <2>1, <2>2, <2>3 DEF Lost
  <2> QED  BY <2>2, <2>4, <1>d
<1>13. ASSUME NEW o \in Object, NEW to \in Address, NEW wait \in Wait,
              StartConnect(o, to, wait)
       PROVE  OneLostPerAccept'
  <2>1. Open' = Open
    BY <1>13 DEF StartConnect, TypeOK, Descriptor
  <2>2. \A p \in Object : call'[p].got = call[p].got
    BY <1>13 DEF StartConnect, TypeOK, Idle
  <2> QED  BY <1>13, <2>1, <2>2, <1>e DEF StartConnect
<1>14. ASSUME NEW o \in Object, ConnectStep(o) PROVE OneLostPerAccept'
  <2>1. Open' = Open
    BY <1>14, ConnectKeeps
  <2>2. \A p \in Object : call'[p].got = call[p].got
    BY <1>14, ConnectKeeps
  <2> QED
    BY <1>14, <2>1, <2>2, <1>e
       DEF ConnectStep, ConnectAtOnce, ConnectStarts, ConnectFails, Throw,
           PollThrows, PollFinds, ConnectReturns
<1>15. CASE UNCHANGED vars
  BY <1>15, <1>e DEF vars
<1> QED
  BY <1>1, <1>2, <1>3, <1>5, <1>6, <1>7, <1>8, <1>9, <1>10, <1>11, <1>12, <1>13,
     <1>14, <1>15
     DEF Next

\* What is open and belongs to nobody are the descriptors that Accept loses, one each
\* time.
THEOREM AcceptLosesOne == Spec => []OneLostPerAccept
<1>1. Init => OneLostPerAccept
  <2>1. Init => Lost = {} /\ accepts = 0
    BY DEF Init, Lost, Closed
  <2> QED  BY <2>1, LostIsFinite, FS_EmptySet
<1> QED  BY <1>1, StepLost, SocketTyped, HandlesAreOwned, PTL DEF Spec
=============================================================================
